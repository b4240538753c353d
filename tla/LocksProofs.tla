---------------------------- MODULE LocksProofs ----------------------------
(***************************************************************************)
(* Proofs about RoomLocks for any connections, rooms, accounts, committed  *)
(* states to start in and number of transactions.                          *)
(***************************************************************************)
EXTENDS RoomLocks, WellFoundedInduction, TLAPS

Room == [status : {"active", "closed"}, guest : BOOLEAN, round : Nat \ {0},
         state : {"active", "resolved"}, funded : BOOLEAN,
         moves : SUBSET Role, votes : SUBSET Role]
Transaction == [kind : Kinds, at : 1 .. 6, code : Codes, role : Role, round : Nat,
                seen : Room, revision : Nat]
Last == [join |-> 5, leave |-> 4, move |-> 5, vote |-> 5,
         reconcile |-> 6, deadline |-> 6, presence |-> 2]
Placed(x) == x \in Transaction /\ x.at <= Last[x.kind]

TypeOK ==
  /\ room \in [Codes -> Room] /\ revision \in [Codes -> Nat]
  /\ tx \in [Txs -> {Idle} \cup {x \in Transaction : Placed(x)}]

(* A room without a guest was never funded or decided, and only a room in  *)
(* which no round is being played is closed.                               *)
Sound(r) ==
  /\ ~r.guest => ~r.funded /\ r.state = "active"
  /\ r.status = "closed" => r.state = "resolved" \/ ~r.guest
RoomsSound == \A c \in Codes : Sound(room[c])

(* The rows a transaction has locked, and whether it has loaded the room,  *)
(* by how far it has come.                                                 *)
HasRoom(x) ==
  \/ x.kind \in {"join", "leave", "presence"} /\ x.at >= 2
  \/ x.kind = "deadline" /\ x.at >= 4
  \/ x.kind \in Actions \cup {"reconcile"} /\ x.at >= 5
HasRound(x) ==
  \/ x.kind = "join" /\ x.at >= 5
  \/ x.kind = "leave" /\ x.at >= 4
  \/ x.kind \in {"reconcile", "deadline"} /\ x.at >= 3
HasShare(x) == x.kind \in Actions /\ x.at >= 3
HasAction(x) == x.kind \in Actions /\ x.at >= 4
HasWallets(x) ==
  \/ x.kind = "join" /\ x.at >= 3
  \/ x.kind \in {"reconcile", "deadline"} /\ x.at >= 5
HasLoaded(x) ==
  \/ x.kind \in {"join", "leave"} /\ x.at >= 3
  \/ x.kind = "deadline" /\ x.at >= 5
  \/ x.kind = "reconcile" /\ x.at >= 4

Exclusive(t, row) == [tx |-> t, row |-> row, mode |-> "exclusive"]
Shared(t, row) == [tx |-> t, row |-> row, mode |-> "share"]

Exclusion == \A l, m \in locks :
  l.row = m.row /\ l.tx # m.tx => l.mode = "share" /\ m.mode = "share"

Holding(t) ==
  /\ HasRoom(tx[t]) => Exclusive(t, RoomRow(t)) \in locks
  /\ HasRound(tx[t]) => Exclusive(t, RoundRow(t)) \in locks
  /\ HasShare(tx[t]) => Shared(t, RoundRow(t)) \in locks

(* The wallets are locked in their order.                                  *)
OwnWallet(t, l) == HasWallets(tx[t]) /\ \E w \in Wallets(t) :
  l = Exclusive(t, WalletRow(w)) /\ \A v \in Unlocked(t) : w < v
Own(t, l) ==
  \/ l = Exclusive(t, RoomRow(t)) /\ HasRoom(tx[t])
  \/ l = Exclusive(t, RoundRow(t)) /\ HasRound(tx[t])
  \/ l = Shared(t, RoundRow(t)) /\ HasShare(tx[t])
  \/ l = Exclusive(t, ActionRow(t)) /\ HasAction(tx[t])
  \/ OwnWallet(t, l)
Owned(l) == l.tx \in Txs /\ Running(l.tx) /\ Own(l.tx, l)

(* What a transaction has read that is still so, r being the committed     *)
(* room, v its revision.                                                   *)
Knows(x, r, v) ==
  /\ x.round <= r.round
  /\ HasRoom(x) => x.revision = v
  /\ HasLoaded(x) => x.seen = r /\ x.round = r.round /\ r.status = "active"
  /\ x.kind = "join" /\ x.at >= 3 => ~r.guest
  /\ x.kind = "leave" /\ x.at >= 3 => r.state = "resolved" \/ ~r.guest
  /\ x.kind \in Actions /\ x.at >= 2 /\ x.seen.guest => r.guest
  /\ HasShare(x) => r.guest
  /\ HasShare(x) /\ x.kind = "move" => x.round = r.round /\ r.state = "active"
  /\ HasShare(x) /\ x.kind = "vote" => (x.round = r.round => r.state = "resolved")
  /\ HasAction(x) => x.round = r.round
  /\ x.kind \in {"reconcile", "deadline"} /\ x.at >= 2 => r.guest
  /\ x.kind = "deadline" /\ x.at >= 2 => x.seen.state = "active"
  /\ x.kind = "deadline" /\ x.at >= 3 => x.round = r.round /\ r.state = "active"
  /\ x.kind = "reconcile" /\ x.at >= 4 /\ x.seen.state = "resolved" => Advanceable(r)

LocksInv ==
  /\ TypeOK /\ RoomsSound /\ Exclusion
  /\ \A l \in locks : Owned(l)
  /\ \A t \in Txs : Running(t) =>
       Holding(t) /\ Knows(tx[t], room[tx[t].code], revision[tx[t].code])

-----------------------------------------------------------------------------
(* How far a transaction has come.                                         *)

(* Which statement a transaction is at.                                    *)
LEMMA Places ==
  ASSUME NEW x, Placed(x)
  PROVE  /\ Plan[x.kind][x.at] = "ask" <=>
              x.at = 1 /\ x.kind \in Actions \cup {"reconcile", "deadline"}
         /\ Plan[x.kind][x.at] = "share" <=> x.at = 2 /\ x.kind \in Actions
         /\ Plan[x.kind][x.at] = "insert" <=> x.at = 3 /\ x.kind \in Actions
         /\ Plan[x.kind][x.at] = "claim" <=> x.at = 2 /\ x.kind \in {"reconcile", "deadline"}
         /\ Plan[x.kind][x.at] = "room" <=>
              \/ x.at = 1 /\ x.kind \in {"join", "leave", "presence"}
              \/ x.at = 3 /\ x.kind = "deadline"
              \/ x.at = 4 /\ x.kind \in Actions \cup {"reconcile"}
         /\ Plan[x.kind][x.at] = "load" <=>
              \/ x.at = 2 /\ x.kind \in {"join", "leave"}
              \/ x.at = 3 /\ x.kind = "reconcile"
              \/ x.at = 4 /\ x.kind = "deadline"
         /\ Plan[x.kind][x.at] = "wallets" <=>
              \/ x.at = 3 /\ x.kind = "join"
              \/ x.at = 5 /\ x.kind \in {"reconcile", "deadline"}
         /\ Plan[x.kind][x.at] = "round" <=>
              \/ x.at = 4 /\ x.kind = "join"
              \/ x.at = 3 /\ x.kind = "leave"
         /\ Plan[x.kind][x.at] = "save" <=> x.at = Last[x.kind]
<1>1. x.kind \in {"join", "leave", "move", "vote", "reconcile", "deadline", "presence"}
      /\ x.at \in 1 .. 6 /\ x.at <= Last[x.kind]
  BY DEF Placed, Transaction, Kinds, Plan
<1>2. CASE x.kind = "join"
  BY <1>1, <1>2 DEF Plan, Last, Actions
<1>3. CASE x.kind = "leave"
  BY <1>1, <1>3 DEF Plan, Last, Actions
<1>4. CASE x.kind = "move"
  BY <1>1, <1>4 DEF Plan, Last, Actions
<1>5. CASE x.kind = "vote"
  BY <1>1, <1>5 DEF Plan, Last, Actions
<1>6. CASE x.kind = "reconcile"
  BY <1>1, <1>6 DEF Plan, Last, Actions
<1>7. CASE x.kind = "deadline"
  BY <1>1, <1>7 DEF Plan, Last, Actions
<1>8. CASE x.kind = "presence"
  BY <1>1, <1>8 DEF Plan, Last, Actions
<1> QED
  BY <1>1, <1>2, <1>3, <1>4, <1>5, <1>6, <1>7, <1>8

(* A running transaction has the fields of one.                            *)
LEMMA RunningType ==
  ASSUME TypeOK, NEW t \in Txs, Running(t)
  PROVE  /\ Placed(tx[t]) /\ tx[t] \in Transaction /\ tx[t].at \in 1 .. 6
         /\ tx[t].kind \in Kinds /\ tx[t].code \in Codes /\ tx[t].role \in Role
         /\ tx[t].round \in Nat /\ tx[t].seen \in Room /\ tx[t].revision \in Nat
         /\ room[tx[t].code] \in Room /\ revision[tx[t].code] \in Nat
BY DEF TypeOK, Running, Idle, Placed, Transaction

(* The lock each statement asks for.                                       *)
LEMMA WantedRow ==
  ASSUME NEW t, Running(t)
  PROVE  /\ Statement(t) = "room" => Wanted(t) = Lock(RoomRow(t), "exclusive")
         /\ Statement(t) = "share" => Wanted(t) = Lock(RoundRow(t), "share")
         /\ Statement(t) \in {"claim", "round"} => Wanted(t) = Lock(RoundRow(t), "exclusive")
         /\ Statement(t) = "insert" => Wanted(t) = Lock(ActionRow(t), "exclusive")
         /\ Statement(t) = "wallets" =>
              Wanted(t) = UNION {Lock(WalletRow(w), "exclusive") :
                                   w \in {v \in Unlocked(t) : NextWallet(t, v)}}
         /\ Statement(t) \notin {"room", "share", "claim", "round", "insert", "wallets"} =>
              Wanted(t) = {}
BY DEF Wanted, At

-----------------------------------------------------------------------------
(* What a step of one transaction leaves to the others.                    *)

(* The locks of the other transactions are as they were.                   *)
OthersLocks(t) == \A l \in locks \cup locks' : l.tx # t => (l \in locks <=> l \in locks')

(* Transaction t becomes y, and no committed row changes.                  *)
Becomes(t, y) ==
  /\ tx' = [tx EXCEPT ![t] = y] /\ room' = room /\ revision' = revision
  /\ OthersLocks(t)

(* What holds of a transaction holds after a step of another one, as long  *)
(* as it still knows the rows.                                             *)
LEMMA OthersHold ==
  ASSUME LocksInv, NEW t \in Txs, NEW u \in Txs, u # t, NEW y,
         tx' = [tx EXCEPT ![t] = y], OthersLocks(t)
  PROVE  /\ tx'[u] = tx[u]
         /\ Running(u) => Holding(u)'
         /\ \A l \in locks' : l.tx = u => Owned(l)'
<1>1. tx'[u] = tx[u]
  BY DEF LocksInv, TypeOK
<1>2. \A l \in locks \cup locks' : l.tx = u => (l \in locks <=> l \in locks')
  BY DEF OthersLocks
<1>3. ASSUME Running(u) PROVE Holding(u)'
  <2>1. /\ RoomRow(u)' = RoomRow(u) /\ RoundRow(u)' = RoundRow(u)
        /\ Exclusive(u, RoomRow(u)).tx = u /\ Exclusive(u, RoundRow(u)).tx = u
        /\ Shared(u, RoundRow(u)).tx = u
    BY <1>1 DEF RoomRow, RoundRow, Exclusive, Shared
  <2>2. Holding(u)
    BY <1>3 DEF LocksInv
  <2> QED
    BY <1>1, <1>2, <2>1, <2>2 DEF Holding
<1>4. ASSUME NEW l \in locks', l.tx = u PROVE Owned(l)'
  <2>1. l \in locks /\ Owned(l)
    BY <1>2, <1>4 DEF LocksInv
  <2>2. \A w : Holds(u, WalletRow(w))' <=> Holds(u, WalletRow(w))
    BY <1>2 DEF Holds, WalletRow
  <2>3. Wallets(u)' = Wallets(u)
    BY <1>1 DEF Wallets, Pays
  <2>4. Unlocked(u)' = Unlocked(u)
    BY <2>2, <2>3 DEF Unlocked
  <2>5. OwnWallet(u, l) => OwnWallet(u, l)'
    BY <1>1, <2>3, <2>4 DEF OwnWallet, WalletRow
  <2>6. Own(u, l) => Own(u, l)'
    BY <1>1, <2>5 DEF Own, RoomRow, RoundRow, ActionRow
  <2> QED
    BY <1>1, <1>4, <2>1, <2>6 DEF Owned, Running
<1> QED
  BY <1>1, <1>3, <1>4

(* A step that changes no committed row keeps the invariant, if it does so *)
(* for the transaction that takes it.                                      *)
LEMMA BecomesKeeps ==
  ASSUME LocksInv, NEW t \in Txs, NEW y, Becomes(t, y), Placed(y), y.kind # "none",
         Exclusion', Holding(t)', Knows(y, room[y.code], revision[y.code]),
         \A l \in locks' : l.tx = t => Own(t, l)'
  PROVE  LocksInv'
<1>1. tx' = [tx EXCEPT ![t] = y] /\ room' = room /\ revision' = revision /\ OthersLocks(t)
  BY DEF Becomes
<1>2. TypeOK' /\ RoomsSound'
  BY <1>1 DEF LocksInv, TypeOK, RoomsSound, Placed
<1>3. tx'[t] = y
  BY <1>1 DEF LocksInv, TypeOK
<1>4. ASSUME NEW u \in Txs, Running(u)'
      PROVE  Holding(u)' /\ Knows(tx[u], room[tx[u].code], revision[tx[u].code])'
  <2>1. CASE u = t
    BY <1>1, <1>3, <2>1
  <2>2. CASE u # t
    <3>1. tx'[u] = tx[u] /\ (Running(u) => Holding(u)')
      BY <1>1, <2>2, OthersHold
    <3> QED
      BY <1>1, <1>4, <3>1 DEF LocksInv, Running
  <2> QED
    BY <2>1, <2>2
<1>5. ASSUME NEW l \in locks' PROVE Owned(l)'
  <2>1. CASE l.tx = t
    BY <1>3, <2>1 DEF Owned, Running
  <2>2. CASE l.tx # t
    <3>1. l \in locks /\ l.tx \in Txs
      BY <1>1, <2>2 DEF OthersLocks, LocksInv, Owned
    <3> QED
      BY <1>1, <2>2, <3>1, OthersHold
  <2> QED
    BY <2>1, <2>2
<1> QED
  BY <1>2, <1>4, <1>5 DEF LocksInv

(* A transaction that ends gives its locks back and changes no other one.  *)
LEMMA EndKeeps ==
  ASSUME LocksInv, NEW t \in Txs, End(t), room' = room, revision' = revision
  PROVE  LocksInv'
<1>1. tx' = [tx EXCEPT ![t] = Idle] /\ locks' = {l \in locks : l.tx # t} /\ OthersLocks(t)
  BY DEF End, OthersLocks
<1>2. TypeOK' /\ RoomsSound'
  BY <1>1 DEF LocksInv, TypeOK, RoomsSound
<1>3. Exclusion'
  BY <1>1 DEF LocksInv, Exclusion
<1>4. ~Running(t)'
  BY <1>1 DEF LocksInv, TypeOK, Running, Idle
<1>5. ASSUME NEW u \in Txs, Running(u)'
      PROVE  Holding(u)' /\ Knows(tx[u], room[tx[u].code], revision[tx[u].code])'
  <2>1. tx'[u] = tx[u] /\ (Running(u) => Holding(u)')
    BY <1>1, <1>4, <1>5, OthersHold
  <2> QED
    BY <1>5, <2>1 DEF LocksInv, Running
<1>6. ASSUME NEW l \in locks' PROVE Owned(l)'
  <2>1. l \in locks /\ l.tx \in Txs /\ l.tx # t
    BY <1>1 DEF LocksInv, Owned
  <2> QED
    BY <1>1, <2>1, OthersHold
<1> QED
  BY <1>2, <1>3, <1>5, <1>6 DEF LocksInv

(* A transaction that goes on keeps the locks it owns, if it stays in the  *)
(* round whose rows it locked and pays when it did.                        *)
LEMMA OwnStays ==
  ASSUME LocksInv, NEW t \in Txs, Running(t), NEW y, Placed(y), tx' = [tx EXCEPT ![t] = y],
         y.kind = tx[t].kind, y.code = tx[t].code, y.role = tx[t].role, y.at >= tx[t].at,
         HasRound(tx[t]) \/ HasShare(tx[t]) => y.round = tx[t].round,
         HasWallets(tx[t]) => y.seen.state = tx[t].seen.state,
         locks \subseteq locks'
  PROVE  \A l \in locks : l.tx = t => Own(t, l)'
<1> SUFFICES ASSUME NEW l \in locks, l.tx = t PROVE Own(t, l)'
  OBVIOUS
<1>1. tx'[t] = y /\ tx[t].at \in 1 .. 6 /\ y.at \in 1 .. 6 /\ Own(t, l)
  BY RunningType DEF LocksInv, TypeOK, Owned, Placed, Transaction
<1>2. /\ HasRoom(tx[t]) => HasRoom(y)
      /\ HasRound(tx[t]) => HasRound(y)
      /\ HasShare(tx[t]) => HasShare(y)
      /\ HasAction(tx[t]) => HasAction(y) /\ HasShare(tx[t])
      /\ HasWallets(tx[t]) => HasWallets(y)
  BY <1>1 DEF HasRoom, HasRound, HasShare, HasAction, HasWallets
<1>3. RoomRow(t)' = RoomRow(t)
  BY <1>1 DEF RoomRow
<1>4. HasRound(tx[t]) \/ HasShare(tx[t]) =>
        RoundRow(t)' = RoundRow(t) /\ ActionRow(t)' = ActionRow(t)
  BY <1>1 DEF RoundRow, ActionRow
<1>5. ASSUME OwnWallet(t, l) PROVE OwnWallet(t, l)'
  <2>1. HasWallets(tx[t])
    BY <1>5 DEF OwnWallet
  <2>2. Wallets(t)' = Wallets(t)
    BY <1>1, <2>1 DEF Wallets, Pays
  <2>3. Unlocked(t)' \subseteq Unlocked(t)
    BY <2>2 DEF Unlocked, Holds, WalletRow
  <2> QED
    BY <1>1, <1>2, <1>5, <2>1, <2>2, <2>3 DEF OwnWallet, WalletRow
<1> QED
  BY <1>1, <1>2, <1>3, <1>4, <1>5 DEF Own

(* What is asked for is held exclusively by nobody else, and what is asked *)
(* for exclusively by nobody else at all.                                  *)
LEMMA AcquireExcludes ==
  ASSUME LocksInv, NEW t \in Txs, Acquire(t),
         \A want \in Wanted(t) : want.mode \in {"share", "exclusive"}
  PROVE  Exclusion' /\ OthersLocks(t) /\ locks \subseteq locks'
<1>1. locks' = locks \cup {[tx |-> t, row |-> want.row, mode |-> want.mode] : want \in Wanted(t)}
  BY DEF Acquire
<1>2. ASSUME NEW want \in Wanted(t), NEW l \in locks, l.row = want.row, l.tx # t
      PROVE  l.mode = "share" /\ want.mode = "share"
  <2>1. l.tx \in Txs /\ l.mode \in {"share", "exclusive"}
    BY DEF LocksInv, Owned, Own, OwnWallet, Exclusive, Shared
  <2>2. ~WaitsFor(t, l.tx)
    BY <2>1 DEF Acquire, Blocked
  <2> QED
    BY <1>2, <2>1, <2>2 DEF WaitsFor
<1>3. Exclusion'
  BY <1>1, <1>2 DEF LocksInv, Exclusion
<1> QED
  BY <1>1, <1>3 DEF OthersLocks

-----------------------------------------------------------------------------
(* The steps.                                                              *)

(* A transaction begins at its first statement and holds nothing.          *)
LEMMA BeginKeeps ==
  ASSUME LocksInv, NEW t \in Txs, NEW kind \in Kinds, NEW c \in Codes, NEW p \in Role,
         Begin(t, kind, c, p)
  PROVE  LocksInv'
<1> DEFINE y == [kind |-> kind, at |-> 1, code |-> c, role |-> p,
                 round |-> room[c].round, seen |-> Waiting, revision |-> 0]
<1>1. room[c] \in Room /\ revision[c] \in Nat
  BY DEF LocksInv, TypeOK
<1>2. Waiting \in Room
  BY DEF Waiting, Room, Role
<1>3. Placed(y)
  <2>1. y \in Transaction
    BY <1>1, <1>2 DEF Transaction, Room
  <2>2. Last[kind] >= 1
    BY DEF Kinds, Plan, Last
  <2> QED
    BY <2>1, <2>2 DEF Placed
<1>4. Becomes(t, y) /\ locks' = locks /\ ~Running(t)
  BY DEF Begin, Becomes, OthersLocks
<1>5. kind # "none"
  BY DEF Kinds, Plan
<1>6. \A l \in locks : l.tx # t
  BY <1>4 DEF LocksInv, Owned
<1>7. tx'[t] = y
  BY <1>4 DEF Becomes, LocksInv, TypeOK
<1> HIDE DEF y
<1>8. y.at = 1 /\ y.kind = kind /\ y.code = c /\ y.round = room[c].round
  BY DEF y
<1>9. ~HasRoom(y) /\ ~HasRound(y) /\ ~HasShare(y) /\ ~HasAction(y) /\ ~HasLoaded(y)
  BY <1>8 DEF HasRoom, HasRound, HasShare, HasAction, HasLoaded
<1>10. Holding(t)'
  BY <1>7, <1>9 DEF Holding
<1>11. Knows(y, room[y.code], revision[y.code])
  BY <1>1, <1>8, <1>9 DEF Knows, Room
<1>12. Exclusion'
  BY <1>4 DEF LocksInv, Exclusion
<1> QED
  BY <1>3, <1>4, <1>5, <1>6, <1>8, <1>10, <1>11, <1>12, BecomesKeeps

(* What holds of a running transaction.                                    *)
LEMMA RunningHolds ==
  ASSUME LocksInv, NEW t \in Txs, Running(t)
  PROVE  /\ Holding(t) /\ Knows(tx[t], room[tx[t].code], revision[tx[t].code])
         /\ Placed(tx[t]) /\ tx[t] \in Transaction /\ tx[t].at \in 1 .. 6
         /\ tx[t].kind \in Kinds /\ tx[t].code \in Codes /\ tx[t].role \in Role
         /\ tx[t].round \in Nat /\ tx[t].seen \in Room /\ tx[t].revision \in Nat
         /\ room[tx[t].code] \in Room /\ revision[tx[t].code] \in Nat
         /\ Sound(room[tx[t].code])
BY RunningType DEF LocksInv, RoomsSound

(* The next statement of a transaction is one of its plan.                 *)
LEMMA ProceedPlaced ==
  ASSUME NEW x, Placed(x), NEW y \in Transaction, y.kind = x.kind, y.at = x.at + 1,
         Plan[x.kind][x.at] # "save"
  PROVE  Placed(y)
<1>1. x.at \in 1 .. 6 /\ x.at # Last[x.kind] /\ x.kind \in Kinds
  BY Places DEF Placed, Transaction
<1>2. Last[x.kind] \in 1 .. 6
  BY <1>1 DEF Kinds, Plan, Last
<1> QED
  BY <1>1, <1>2 DEF Placed

(* What a transaction is when it goes on from what it has changed.         *)
LEMMA NextIs ==
  ASSUME LocksInv, NEW t \in Txs, Running(t), Statement(t) # "save",
         NEW changed \in Transaction, changed.kind = tx[t].kind, changed.at = tx[t].at,
         NEW y, y = [changed EXCEPT !.at = @ + 1]
  PROVE  /\ Placed(y) /\ y.kind = tx[t].kind /\ y.at = tx[t].at + 1
         /\ y.code = changed.code /\ y.role = changed.role /\ y.round = changed.round
         /\ y.seen = changed.seen /\ y.revision = changed.revision /\ y.kind # "none"
<1>1. Placed(tx[t]) /\ tx[t].at \in 1 .. 6 /\ tx[t].kind \in Kinds
  BY RunningHolds
<1>2. tx[t].at # Last[tx[t].kind]
  BY <1>1, Places DEF Statement, Statements
<1>3. tx[t].at + 1 <= Last[tx[t].kind] /\ Last[tx[t].kind] \in 1 .. 6
  BY <1>1, <1>2 DEF Kinds, Plan, Last, Placed
<1>4. /\ y.kind = changed.kind /\ y.at = changed.at + 1
      /\ y.code = changed.code /\ y.role = changed.role /\ y.round = changed.round
      /\ y.seen = changed.seen /\ y.revision = changed.revision
  BY DEF Transaction
<1>5. y \in Transaction
  BY <1>1, <1>3, <1>4 DEF Transaction
<1> QED
  BY <1>1, <1>3, <1>4, <1>5 DEF Placed, Kinds, Plan

(* A transaction that goes on keeps the invariant if it has the locks of   *)
(* its new place and knows what is known there.                            *)
LEMMA GoesOn ==
  ASSUME LocksInv, NEW t \in Txs, Running(t), Statement(t) # "save",
         NEW changed \in Transaction, changed.kind = tx[t].kind, changed.at = tx[t].at,
         changed.code = tx[t].code, changed.role = tx[t].role,
         Proceed(t, changed), room' = room, revision' = revision,
         locks \subseteq locks', OthersLocks(t), Exclusion',
         HasRound(tx[t]) \/ HasShare(tx[t]) => changed.round = tx[t].round,
         HasWallets(tx[t]) => changed.seen.state = tx[t].seen.state,
         Holding(t)', Knows(tx'[t], room[tx[t].code], revision[tx[t].code]),
         \A l \in locks' \ locks : Own(t, l)'
  PROVE  LocksInv'
<1> DEFINE y == [changed EXCEPT !.at = @ + 1]
<1>1. /\ Placed(y) /\ y.kind = tx[t].kind /\ y.at = tx[t].at + 1 /\ y.code = changed.code
      /\ y.role = changed.role /\ y.round = changed.round /\ y.seen = changed.seen
      /\ y.kind # "none"
  BY NextIs
<1>2. tx' = [tx EXCEPT ![t] = y] /\ tx'[t] = y
  BY DEF Proceed, LocksInv, TypeOK
<1> HIDE DEF y
<1>3. Becomes(t, y)
  BY <1>2 DEF Becomes
<1>4. y.at >= tx[t].at
  BY <1>1, RunningHolds
<1>5. \A l \in locks : l.tx = t => Own(t, l)'
  BY <1>1, <1>2, <1>4, OwnStays
<1> QED
  BY <1>1, <1>2, <1>3, <1>5, BecomesKeeps

(* A snapshot is taken before anything is locked.                          *)
LEMMA AskKeeps ==
  ASSUME LocksInv, NEW t \in Txs, Ask(t)
  PROVE  LocksInv'
<1> DEFINE r == room[tx[t].code]
           read == IF tx[t].kind \in Actions THEN r.round ELSE tx[t].round
           changed == [tx[t] EXCEPT !.seen = r, !.round = read]
<1>1. /\ Running(t) /\ Statement(t) = "ask"
      /\ room' = room /\ revision' = revision
  BY DEF Ask, At
<1>2. CASE End(t)
  BY <1>1, <1>2, EndKeeps
<1>3. CASE ~End(t)
  <2>1. /\ Proceed(t, changed) /\ locks' = locks
        /\ tx[t].kind \in Actions \/ (read = r.round /\ Claimable(tx[t].kind, r))
    BY <1>3 DEF Ask
  <2>2. /\ Knows(tx[t], r, revision[tx[t].code]) /\ Sound(r) /\ Placed(tx[t])
        /\ r \in Room /\ tx[t] \in Transaction /\ tx[t].round \in Nat
    BY <1>1, RunningHolds
  <2>3. tx[t].at = 1 /\ tx[t].kind \in Actions \cup {"reconcile", "deadline"}
    BY <1>1, <2>2, Places DEF Statement, Statements
  <2>4. read \in Nat /\ read <= r.round
    BY <2>2 DEF Knows, Room
  <2>5. ~HasRound(tx[t]) /\ ~HasShare(tx[t]) /\ ~HasWallets(tx[t])
    BY <2>3 DEF HasRound, HasShare, HasWallets
  <2> HIDE DEF read
  <2>6. /\ changed.kind = tx[t].kind /\ changed.at = 1 /\ changed.code = tx[t].code
        /\ changed.role = tx[t].role /\ changed.round = read /\ changed.seen = r
        /\ changed \in Transaction
    BY <2>2, <2>3, <2>4 DEF Transaction
  <2> HIDE DEF changed
  <2>7. /\ tx'[t].kind = tx[t].kind /\ tx'[t].at = 2 /\ tx'[t].code = tx[t].code
        /\ tx'[t].round = read /\ tx'[t].seen = r
    BY <1>1, <2>1, <2>3, <2>6, NextIs DEF Proceed, LocksInv, TypeOK
  <2>8. /\ ~HasRoom(tx'[t]) /\ ~HasRound(tx'[t]) /\ ~HasShare(tx'[t])
        /\ ~HasAction(tx'[t]) /\ ~HasLoaded(tx'[t])
    BY <2>3, <2>7 DEF HasRoom, HasRound, HasShare, HasAction, HasLoaded, Actions
  <2>9. Holding(t)'
    BY <2>8 DEF Holding
  <2>10. tx[t].kind \in {"reconcile", "deadline"} =>
           r.guest /\ (tx[t].kind = "deadline" => r.state = "active")
    BY <2>1, <2>2 DEF Claimable, Resolvable, Advanceable, Sound, Actions, Room
  <2>11. Knows(tx'[t], r, revision[tx[t].code])
    BY <2>3, <2>4, <2>7, <2>8, <2>10 DEF Knows, Actions
  <2>12. Exclusion' /\ OthersLocks(t)
    BY <2>1 DEF LocksInv, Exclusion, OthersLocks
  <2> QED
    BY <1>1, <2>1, <2>3, <2>5, <2>6, <2>9, <2>11, <2>12, GoesOn
<1> QED
  BY <1>2, <1>3

(* A move or a request is recorded only for a round whose row it holds in  *)
(* the state it needs.                                                     *)
LEMMA ShareKeeps ==
  ASSUME LocksInv, NEW t \in Txs, ShareRound(t)
  PROVE  LocksInv'
<1> DEFINE r == room[tx[t].code]
           changed == [tx[t] EXCEPT !.seen = Waiting]
<1>1. /\ Running(t) /\ Statement(t) = "share"
      /\ room' = room /\ revision' = revision
  BY DEF ShareRound, At
<1>2. CASE End(t)
  BY <1>1, <1>2, EndKeeps
<1>3. CASE ~End(t)
  <2>1. Allowed(t) /\ Acquire(t) /\ Proceed(t, changed)
    BY <1>3 DEF ShareRound
  <2>2. /\ Knows(tx[t], r, revision[tx[t].code]) /\ Sound(r) /\ Placed(tx[t])
        /\ r \in Room /\ tx[t] \in Transaction /\ tx[t].round \in Nat
    BY <1>1, RunningHolds
  <2>3. tx[t].at = 2 /\ tx[t].kind \in Actions
    BY <1>1, <2>2, Places DEF Statement, Statements
  <2>4. Waiting \in Room
    BY DEF Waiting, Room, Role
  <2>5. ~HasRound(tx[t]) /\ ~HasShare(tx[t]) /\ ~HasWallets(tx[t])
    BY <2>3 DEF HasRound, HasShare, HasWallets, Actions
  <2>6. /\ changed.kind = tx[t].kind /\ changed.at = 2 /\ changed.code = tx[t].code
        /\ changed.role = tx[t].role /\ changed.round = tx[t].round
        /\ changed.seen.guest = FALSE /\ changed \in Transaction
    BY <2>2, <2>3, <2>4 DEF Transaction, Waiting
  <2> HIDE DEF changed
  <2>7. /\ tx'[t].kind = tx[t].kind /\ tx'[t].at = 3 /\ tx'[t].code = tx[t].code
        /\ tx'[t].round = tx[t].round /\ tx'[t].seen.guest = FALSE
    BY <1>1, <2>1, <2>3, <2>6, NextIs DEF Proceed, LocksInv, TypeOK
  <2>8. /\ ~HasRoom(tx'[t]) /\ ~HasRound(tx'[t]) /\ HasShare(tx'[t])
        /\ ~HasAction(tx'[t]) /\ ~HasLoaded(tx'[t])
    BY <2>3, <2>7 DEF HasRoom, HasRound, HasShare, HasAction, HasLoaded, Actions
  <2>9. Wanted(t) = Lock(RoundRow(t), "share") /\ RoundRow(t)' = RoundRow(t)
    BY <1>1, <2>7, WantedRow DEF RoundRow
  <2>10. Exclusion' /\ OthersLocks(t) /\ locks \subseteq locks'
    BY <2>1, <2>9, AcquireExcludes DEF Lock
  <2>11. locks' = locks \cup {Shared(t, RoundRow(t)')}
    BY <2>1, <2>9 DEF Acquire, Lock, Shared
  <2>12. Holding(t)' /\ \A l \in locks' \ locks : Own(t, l)'
    BY <2>8, <2>11 DEF Holding, Own
  <2>13. r.guest
    BY <2>1, <2>2, <2>3 DEF Allowed, Knows
  <2>14. /\ tx[t].kind = "move" => tx[t].round = r.round /\ r.state = "active"
         /\ tx[t].kind = "vote" => (tx[t].round = r.round => r.state = "resolved")
    BY <2>1 DEF Allowed, State, Required
  <2>15. Knows(tx'[t], r, revision[tx[t].code])
    BY <2>2, <2>3, <2>7, <2>8, <2>13, <2>14 DEF Knows, Actions
  <2> QED
    BY <1>1, <2>1, <2>3, <2>5, <2>6, <2>10, <2>12, <2>15, GoesOn
<1> QED
  BY <1>2, <1>3

(* What is inserted belongs to the current round.                          *)
LEMMA InsertKeeps ==
  ASSUME LocksInv, NEW t \in Txs, InsertAction(t)
  PROVE  LocksInv'
<1> DEFINE r == room[tx[t].code]
<1>1. /\ Running(t) /\ Statement(t) = "insert"
      /\ room' = room /\ revision' = revision
  BY DEF InsertAction, At
<1>2. CASE End(t)
  BY <1>1, <1>2, EndKeeps
<1>3. CASE ~End(t)
  <2>1. ~Recorded(t) /\ Acquire(t) /\ Proceed(t, tx[t])
    BY <1>3 DEF InsertAction
  <2>2. /\ Knows(tx[t], r, revision[tx[t].code]) /\ Holding(t) /\ Placed(tx[t])
        /\ tx[t] \in Transaction /\ tx[t].round \in Nat
    BY <1>1, RunningHolds
  <2>3. tx[t].at = 3 /\ tx[t].kind \in Actions
    BY <1>1, <2>2, Places DEF Statement, Statements
  <2>4. /\ tx'[t].kind = tx[t].kind /\ tx'[t].at = 4 /\ tx'[t].code = tx[t].code
        /\ tx'[t].round = tx[t].round /\ tx'[t].seen = tx[t].seen /\ tx'[t].role = tx[t].role
    BY <1>1, <2>1, <2>2, <2>3, NextIs DEF Proceed, LocksInv, TypeOK
  <2>5. /\ ~HasRoom(tx'[t]) /\ ~HasRound(tx'[t]) /\ HasShare(tx'[t]) /\ HasShare(tx[t])
        /\ HasAction(tx'[t]) /\ ~HasLoaded(tx'[t])
    BY <2>3, <2>4 DEF HasRoom, HasRound, HasShare, HasAction, HasLoaded, Actions
  <2>6. /\ Wanted(t) = Lock(ActionRow(t), "exclusive") /\ ActionRow(t)' = ActionRow(t)
        /\ RoundRow(t)' = RoundRow(t)
    BY <1>1, <2>4, WantedRow DEF ActionRow, RoundRow
  <2>7. Exclusion' /\ OthersLocks(t) /\ locks \subseteq locks'
    BY <2>1, <2>6, AcquireExcludes DEF Lock
  <2>8. locks' = locks \cup {Exclusive(t, ActionRow(t)')}
    BY <2>1, <2>6 DEF Acquire, Lock, Exclusive
  <2>9. Holding(t)' /\ \A l \in locks' \ locks : Own(t, l)'
    BY <2>2, <2>5, <2>6, <2>8 DEF Holding, Own
  <2>10. tx[t].round = r.round
    BY <2>1 DEF Recorded
  <2>11. Knows(tx'[t], r, revision[tx[t].code])
    BY <2>2, <2>3, <2>4, <2>5, <2>10 DEF Knows, Actions
  <2> QED
    BY <1>1, <2>1, <2>2, <2>7, <2>9, <2>11, GoesOn
<1> QED
  BY <1>2, <1>3

(* A claim holds the row of the round it was made for, in the state in     *)
(* which it was claimed, or goes back to ask for the advance.              *)
LEMMA ClaimKeeps ==
  ASSUME LocksInv, NEW t \in Txs, ClaimRound(t)
  PROVE  LocksInv'
<1> DEFINE r == room[tx[t].code]
           again == [tx[t] EXCEPT !.at = 1]
<1>1. /\ Running(t) /\ Statement(t) = "claim"
      /\ room' = room /\ revision' = revision
  BY DEF ClaimRound, At
<1>2. /\ Knows(tx[t], r, revision[tx[t].code]) /\ Holding(t) /\ Placed(tx[t])
      /\ tx[t] \in Transaction /\ tx[t].round \in Nat /\ r \in Room
  BY <1>1, RunningHolds
<1>3. tx[t].at = 2 /\ tx[t].kind \in {"reconcile", "deadline"}
  BY <1>1, <1>2, Places DEF Statement, Statements
<1>4. /\ ~HasRoom(tx[t]) /\ ~HasRound(tx[t]) /\ ~HasShare(tx[t])
      /\ ~HasAction(tx[t]) /\ ~HasWallets(tx[t])
  BY <1>3 DEF HasRoom, HasRound, HasShare, HasAction, HasWallets, Actions
<1>5. CASE End(t)
  BY <1>1, <1>5, EndKeeps
<1>6. CASE tx' = [tx EXCEPT ![t].at = 1] /\ locks' = locks
  <2>1. tx' = [tx EXCEPT ![t] = again] /\ tx'[t] = again
    BY <1>6 DEF LocksInv, TypeOK
  <2>2. /\ again.kind = tx[t].kind /\ again.at = 1 /\ again.code = tx[t].code
        /\ again.round = tx[t].round /\ again \in Transaction /\ again.kind # "none"
    BY <1>2, <1>3 DEF Transaction
  <2> HIDE DEF again
  <2>3. Placed(again)
    BY <1>3, <2>2 DEF Placed, Last
  <2>4. /\ ~HasRoom(again) /\ ~HasRound(again) /\ ~HasShare(again)
        /\ ~HasAction(again) /\ ~HasLoaded(again)
    BY <1>3, <2>2 DEF HasRoom, HasRound, HasShare, HasAction, HasLoaded, Actions
  <2>5. Becomes(t, again) /\ Exclusion'
    BY <1>1, <1>6, <2>1 DEF Becomes, OthersLocks, LocksInv, Exclusion
  <2>6. Holding(t)'
    BY <2>1, <2>4 DEF Holding
  <2>7. Knows(again, r, revision[tx[t].code])
    BY <1>2, <1>3, <2>2, <2>4 DEF Knows, Actions
  <2>8. \A l \in locks : l.tx # t
    BY <1>4 DEF LocksInv, Owned, Own, OwnWallet
  <2> QED
    BY <1>6, <2>2, <2>3, <2>5, <2>6, <2>7, <2>8, BecomesKeeps
<1>7. CASE ~End(t) /\ ~(tx' = [tx EXCEPT ![t].at = 1] /\ locks' = locks)
  <2>1. State(tx[t].code, tx[t].round) = tx[t].seen.state /\ Acquire(t) /\ Proceed(t, tx[t])
    BY <1>7 DEF ClaimRound
  <2>2. /\ tx'[t].kind = tx[t].kind /\ tx'[t].at = 3 /\ tx'[t].code = tx[t].code
        /\ tx'[t].round = tx[t].round /\ tx'[t].seen = tx[t].seen
    BY <1>1, <1>2, <1>3, <2>1, NextIs DEF Proceed, LocksInv, TypeOK
  <2>3. /\ ~HasRoom(tx'[t]) /\ HasRound(tx'[t]) /\ ~HasShare(tx'[t])
        /\ ~HasAction(tx'[t]) /\ ~HasLoaded(tx'[t])
    BY <1>3, <2>2 DEF HasRoom, HasRound, HasShare, HasAction, HasLoaded, Actions
  <2>4. Wanted(t) = Lock(RoundRow(t), "exclusive") /\ RoundRow(t)' = RoundRow(t)
    BY <1>1, <2>2, WantedRow DEF RoundRow
  <2>5. Exclusion' /\ OthersLocks(t) /\ locks \subseteq locks'
    BY <2>1, <2>4, AcquireExcludes DEF Lock
  <2>6. locks' = locks \cup {Exclusive(t, RoundRow(t)')}
    BY <2>1, <2>4 DEF Acquire, Lock, Exclusive
  <2>7. Holding(t)' /\ \A l \in locks' \ locks : Own(t, l)'
    BY <2>3, <2>6 DEF Holding, Own
  <2>8. tx[t].kind = "deadline" => tx[t].round = r.round /\ r.state = "active"
    BY <1>2, <1>3, <2>1 DEF Knows, State
  <2>9. Knows(tx'[t], r, revision[tx[t].code])
    BY <1>2, <1>3, <2>2, <2>3, <2>8 DEF Knows, Actions
  <2> QED
    BY <1>1, <1>2, <2>1, <2>5, <2>7, <2>9, <1>4, GoesOn
<1> QED
  BY <1>5, <1>6, <1>7

(* Who locks the room reads the revision that is committed.                *)
LEMMA LockRoomKeeps ==
  ASSUME LocksInv, NEW t \in Txs, LockRoom(t)
  PROVE  LocksInv'
<1> DEFINE r == room[tx[t].code]
           v == revision[tx[t].code]
           changed == [tx[t] EXCEPT !.revision = v]
<1>1. /\ Running(t) /\ Statement(t) = "room"
      /\ room' = room /\ revision' = revision
      /\ Acquire(t) /\ Proceed(t, changed)
  BY DEF LockRoom, At
<1>2. /\ Knows(tx[t], r, v) /\ Holding(t) /\ Placed(tx[t]) /\ v \in Nat /\ tx[t].at \in 1 .. 6
      /\ tx[t] \in Transaction /\ tx[t].round \in Nat /\ tx[t].kind \in Kinds
  BY <1>1, RunningHolds
<1>3. \/ tx[t].at = 1 /\ tx[t].kind \in {"join", "leave", "presence"}
      \/ tx[t].at = 3 /\ tx[t].kind = "deadline"
      \/ tx[t].at = 4 /\ tx[t].kind \in Actions \cup {"reconcile"}
  BY <1>1, <1>2, Places DEF Statement, Statements
<1>4. /\ changed.kind = tx[t].kind /\ changed.at = tx[t].at /\ changed.code = tx[t].code
      /\ changed.role = tx[t].role /\ changed.round = tx[t].round
      /\ changed.seen = tx[t].seen /\ changed.revision = v /\ changed \in Transaction
  BY <1>2 DEF Transaction
<1> HIDE DEF changed
<1>5. /\ tx'[t].kind = tx[t].kind /\ tx'[t].at = tx[t].at + 1 /\ tx'[t].code = tx[t].code
      /\ tx'[t].round = tx[t].round /\ tx'[t].seen = tx[t].seen
      /\ tx'[t].revision = v /\ tx'[t].role = tx[t].role
  BY <1>1, <1>4, NextIs DEF Proceed, LocksInv, TypeOK
<1>6. /\ HasRoom(tx'[t])
      /\ HasRound(tx'[t]) <=> HasRound(tx[t])
      /\ HasShare(tx'[t]) <=> HasShare(tx[t])
      /\ HasAction(tx'[t]) <=> HasAction(tx[t])
      /\ HasLoaded(tx'[t]) <=> HasLoaded(tx[t])
  BY <1>3, <1>5 DEF HasRoom, HasRound, HasShare, HasAction, HasLoaded, Actions
<1>7. /\ Wanted(t) = Lock(RoomRow(t), "exclusive") /\ RoomRow(t)' = RoomRow(t)
      /\ RoundRow(t)' = RoundRow(t)
  BY <1>1, <1>5, WantedRow DEF RoomRow, RoundRow
<1>8. Exclusion' /\ OthersLocks(t) /\ locks \subseteq locks'
  BY <1>1, <1>7, AcquireExcludes DEF Lock
<1>9. locks' = locks \cup {Exclusive(t, RoomRow(t)')}
  BY <1>1, <1>7 DEF Acquire, Lock, Exclusive
<1>10. Holding(t)' /\ \A l \in locks' \ locks : Own(t, l)'
  BY <1>2, <1>6, <1>7, <1>9 DEF Holding, Own
<1>11. Knows(tx'[t], r, v)
  <2>1. CASE tx[t].at = 1 /\ tx[t].kind \in {"join", "leave", "presence"}
    BY <1>2, <1>5, <1>6, <2>1 DEF Knows, Actions
  <2>2. CASE tx[t].at = 3 /\ tx[t].kind = "deadline"
    BY <1>2, <1>5, <1>6, <2>2 DEF Knows, Actions
  <2>3. CASE tx[t].at = 4 /\ tx[t].kind \in Actions \cup {"reconcile"}
    BY <1>2, <1>5, <1>6, <2>3 DEF Knows, Actions
  <2> QED
    BY <1>3, <2>1, <2>2, <2>3
<1> QED
  BY <1>1, <1>4, <1>8, <1>10, <1>11, GoesOn

(* A player who joins or leaves locks the round after the room was loaded. *)
LEMMA LockRoundKeeps ==
  ASSUME LocksInv, NEW t \in Txs, LockRound(t)
  PROVE  LocksInv'
<1> DEFINE r == room[tx[t].code]
           v == revision[tx[t].code]
<1>1. /\ Running(t) /\ Statement(t) = "round"
      /\ room' = room /\ revision' = revision
      /\ Acquire(t) /\ Proceed(t, tx[t])
  BY DEF LockRound, At
<1>2. /\ Knows(tx[t], r, v) /\ Holding(t) /\ Placed(tx[t]) /\ tx[t].at \in 1 .. 6
      /\ tx[t] \in Transaction /\ tx[t].round \in Nat
  BY <1>1, RunningHolds
<1>3. \/ tx[t].at = 4 /\ tx[t].kind = "join"
      \/ tx[t].at = 3 /\ tx[t].kind = "leave"
  BY <1>1, <1>2, Places DEF Statement, Statements
<1>4. /\ tx'[t].kind = tx[t].kind /\ tx'[t].at = tx[t].at + 1 /\ tx'[t].code = tx[t].code
      /\ tx'[t].round = tx[t].round /\ tx'[t].seen = tx[t].seen
      /\ tx'[t].revision = tx[t].revision
  BY <1>1, <1>2, NextIs DEF Proceed, LocksInv, TypeOK
<1>5. /\ HasRoom(tx'[t]) /\ HasRoom(tx[t]) /\ HasRound(tx'[t]) /\ ~HasShare(tx'[t])
      /\ ~HasAction(tx'[t]) /\ HasLoaded(tx'[t]) /\ HasLoaded(tx[t])
  BY <1>3, <1>4 DEF HasRoom, HasRound, HasShare, HasAction, HasLoaded, Actions
<1>6. /\ Wanted(t) = Lock(RoundRow(t), "exclusive") /\ RoomRow(t)' = RoomRow(t)
      /\ RoundRow(t)' = RoundRow(t)
  BY <1>1, <1>4, WantedRow DEF RoomRow, RoundRow
<1>7. Exclusion' /\ OthersLocks(t) /\ locks \subseteq locks'
  BY <1>1, <1>6, AcquireExcludes DEF Lock
<1>8. locks' = locks \cup {Exclusive(t, RoundRow(t)')}
  BY <1>1, <1>6 DEF Acquire, Lock, Exclusive
<1>9. Holding(t)' /\ \A l \in locks' \ locks : Own(t, l)'
  BY <1>2, <1>5, <1>6, <1>8 DEF Holding, Own
<1>10. Knows(tx'[t], r, v)
  BY <1>2, <1>3, <1>4, <1>5 DEF Knows, Actions
<1> QED
  BY <1>1, <1>2, <1>7, <1>9, <1>10, GoesOn

(* The next wallet is the least of those not yet locked.                   *)
LEMMA LockWalletKeeps ==
  ASSUME LocksInv, NEW t \in Txs, LockWallet(t)
  PROVE  LocksInv'
<1> DEFINE r == room[tx[t].code]
           v == revision[tx[t].code]
<1>1. /\ Running(t) /\ Statement(t) = "wallets"
      /\ room' = room /\ revision' = revision
  BY DEF LockWallet, At
<1>2. /\ Knows(tx[t], r, v) /\ Holding(t) /\ Placed(tx[t]) /\ tx[t].at \in 1 .. 6
      /\ tx[t] \in Transaction /\ tx[t].round \in Nat
  BY <1>1, RunningHolds
<1>3. \/ tx[t].at = 3 /\ tx[t].kind = "join"
      \/ tx[t].at = 5 /\ tx[t].kind \in {"reconcile", "deadline"}
  BY <1>1, <1>2, Places DEF Statement, Statements
<1>4. CASE Unlocked(t) = {}
  <2>1. Proceed(t, tx[t]) /\ locks' = locks
    BY <1>4 DEF LockWallet
  <2>2. /\ tx'[t].kind = tx[t].kind /\ tx'[t].at = tx[t].at + 1 /\ tx'[t].code = tx[t].code
        /\ tx'[t].round = tx[t].round /\ tx'[t].seen = tx[t].seen
        /\ tx'[t].revision = tx[t].revision
    BY <1>1, <1>2, <2>1, NextIs DEF Proceed, LocksInv, TypeOK
  <2>3. /\ HasRoom(tx'[t]) <=> HasRoom(tx[t])
        /\ HasRound(tx'[t]) <=> HasRound(tx[t])
        /\ HasShare(tx'[t]) <=> HasShare(tx[t])
        /\ HasAction(tx'[t]) <=> HasAction(tx[t])
        /\ HasLoaded(tx'[t]) <=> HasLoaded(tx[t])
    BY <1>3, <2>2 DEF HasRoom, HasRound, HasShare, HasAction, HasLoaded, Actions
  <2>4. RoomRow(t)' = RoomRow(t) /\ RoundRow(t)' = RoundRow(t)
    BY <2>2 DEF RoomRow, RoundRow
  <2>5. Holding(t)'
    BY <1>2, <2>1, <2>3, <2>4 DEF Holding
  <2>6. Knows(tx'[t], r, v)
    BY <1>2, <1>3, <2>2, <2>3 DEF Knows, Actions
  <2>7. Exclusion' /\ OthersLocks(t)
    BY <2>1 DEF LocksInv, Exclusion, OthersLocks
  <2> QED
    BY <1>1, <1>2, <2>1, <2>5, <2>6, <2>7, GoesOn
<1>5. CASE Unlocked(t) # {}
  <2>1. Acquire(t) /\ tx' = tx
    BY <1>5 DEF LockWallet
  <2>2. Wanted(t) = UNION {Lock(WalletRow(w), "exclusive") :
                             w \in {u \in Unlocked(t) : NextWallet(t, u)}}
    BY <1>1, WantedRow
  <2>3. Exclusion' /\ OthersLocks(t) /\ locks \subseteq locks'
    BY <2>1, <2>2, AcquireExcludes DEF Lock
  <2>4. tx' = [tx EXCEPT ![t] = tx[t]] /\ tx[t].kind # "none"
    BY <1>1, <2>1 DEF LocksInv, TypeOK, Running
  <2>5. Becomes(t, tx[t])
    BY <1>1, <2>3, <2>4 DEF Becomes
  <2>6. Holding(t)'
    BY <1>2, <2>1, <2>3 DEF Holding, RoomRow, RoundRow
  <2>7. ASSUME NEW l \in locks' \ locks PROVE Own(t, l)'
    <3>1. PICK want \in Wanted(t) : l = [tx |-> t, row |-> want.row, mode |-> want.mode]
      BY <2>1 DEF Acquire
    <3>2. PICK w \in Unlocked(t) : NextWallet(t, w) /\ want \in Lock(WalletRow(w), "exclusive")
      BY <2>2, <3>1
    <3>3. l = Exclusive(t, WalletRow(w))
      BY <3>1, <3>2 DEF Lock, Exclusive
    <3>4. Wallets(t)' = Wallets(t) /\ w \in Wallets(t) /\ Wallets(t) \subseteq Nat
      BY <1>2, <2>1, <3>2, LocksAssumption DEF Wallets, Pays, Unlocked, Transaction
    <3>5. Unlocked(t)' \subseteq Unlocked(t) \ {w}
      BY <2>3, <3>3, <3>4 DEF Unlocked, Holds, Exclusive, WalletRow
    <3>6. \A u \in Unlocked(t)' : w < u
      BY <3>2, <3>4, <3>5 DEF NextWallet, Unlocked
    <3>7. HasWallets(tx'[t])
      BY <1>3, <2>1 DEF HasWallets
    <3> QED
      BY <3>3, <3>4, <3>6, <3>7 DEF Own, OwnWallet, WalletRow
  <2>8. Running(t) /\ Placed(tx[t]) /\ tx[t].at >= tx[t].at
    BY <1>1, <1>2
  <2>9. \A l \in locks : l.tx = t => Own(t, l)'
    BY <2>3, <2>4, <2>8, OwnStays
  <2> QED
    BY <1>2, <2>3, <2>4, <2>5, <2>6, <2>7, <2>9, BecomesKeeps
<1> QED
  BY <1>4, <1>5

(* What a transaction loads is what is committed, and of its round.        *)
LEMMA LoadKeeps ==
  ASSUME LocksInv, NEW t \in Txs, Load(t)
  PROVE  LocksInv'
<1> DEFINE r == room[tx[t].code]
           v == revision[tx[t].code]
           changed == [tx[t] EXCEPT !.seen = r, !.round = r.round]
<1>1. /\ Running(t) /\ Statement(t) = "load"
  BY DEF Load, At
<1>2. CASE End(t)
  BY <1>1, <1>2, EndKeeps DEF Load
<1>3. CASE ~End(t)
  <2>1. /\ Passes(t, r) /\ Proceed(t, changed)
        /\ locks' = locks /\ room' = room /\ revision' = revision
    BY <1>3 DEF Load
  <2>2. /\ Knows(tx[t], r, v) /\ Holding(t) /\ Placed(tx[t]) /\ tx[t].at \in 1 .. 6
        /\ tx[t] \in Transaction /\ tx[t].round \in Nat /\ r \in Room /\ r.round \in Nat
    BY <1>1, RunningHolds DEF Room
  <2>3. \/ tx[t].at = 2 /\ tx[t].kind \in {"join", "leave"}
        \/ tx[t].at = 3 /\ tx[t].kind = "reconcile"
        \/ tx[t].at = 4 /\ tx[t].kind = "deadline"
    BY <1>1, <2>2, Places DEF Statement, Statements
  <2>4. /\ changed.kind = tx[t].kind /\ changed.at = tx[t].at /\ changed.code = tx[t].code
        /\ changed.role = tx[t].role /\ changed.round = r.round
        /\ changed.seen = r /\ changed.revision = tx[t].revision /\ changed \in Transaction
    BY <2>2 DEF Transaction
  <2> HIDE DEF changed
  <2>5. /\ tx'[t].kind = tx[t].kind /\ tx'[t].at = tx[t].at + 1 /\ tx'[t].code = tx[t].code
        /\ tx'[t].round = r.round /\ tx'[t].seen = r /\ tx'[t].revision = tx[t].revision
    BY <1>1, <2>1, <2>4, NextIs DEF Proceed, LocksInv, TypeOK
  <2>6. /\ HasRoom(tx'[t]) <=> HasRoom(tx[t])
        /\ HasRound(tx'[t]) <=> HasRound(tx[t])
        /\ ~HasShare(tx'[t]) /\ ~HasShare(tx[t]) /\ ~HasAction(tx'[t]) /\ HasLoaded(tx'[t])
        /\ ~HasWallets(tx[t])
    BY <2>3, <2>5 DEF HasRoom, HasRound, HasShare, HasAction, HasLoaded, HasWallets, Actions
  <2>7. HasRound(tx[t]) => r.round = tx[t].round
    BY <2>1, <2>2, <2>3 DEF HasRound, Passes, Knows
  <2>8. RoomRow(t)' = RoomRow(t) /\ (HasRound(tx[t]) => RoundRow(t)' = RoundRow(t))
    BY <2>5, <2>7 DEF RoomRow, RoundRow
  <2>9. Holding(t)'
    BY <2>1, <2>2, <2>6, <2>8 DEF Holding
  <2>10. Exclusion' /\ OthersLocks(t)
    BY <2>1 DEF LocksInv, Exclusion, OthersLocks
  <2>11. Knows(tx'[t], r, v)
    <3>1. CASE tx[t].kind = "join"
      BY <2>1, <2>2, <2>3, <2>5, <2>6, <3>1 DEF Knows, Passes, Actions
    <3>2. CASE tx[t].kind = "leave"
      BY <2>1, <2>2, <2>3, <2>5, <2>6, <3>2 DEF Knows, Passes, Actions
    <3>3. CASE tx[t].kind = "deadline"
      BY <2>1, <2>2, <2>3, <2>5, <2>6, <3>3 DEF Knows, Passes, Actions
    <3>4. CASE tx[t].kind = "reconcile"
      <4>1. r.round = tx[t].round /\ r.status = "active" /\ (Resolvable(r) \/ Advanceable(r))
        BY <2>1, <3>4 DEF Passes, CanAdvance
      <4>2. r.state = "resolved" => Advanceable(r)
        BY <4>1 DEF Resolvable
      <4>3. r.guest
        BY <2>2, <2>3, <3>4 DEF Knows
      <4> QED
        BY <2>2, <2>3, <2>5, <2>6, <3>4, <4>1, <4>2, <4>3 DEF Knows, Actions
    <3> QED
      BY <2>3, <3>1, <3>2, <3>3, <3>4
  <2> QED
    BY <1>1, <2>1, <2>4, <2>6, <2>7, <2>9, <2>10, <2>11, GoesOn
<1> QED
  BY <1>2, <1>3

-----------------------------------------------------------------------------
(* The commit.                                                             *)

(* What the committed room r may become, n, and what of it no commit       *)
(* changes: the next round is the only way back to an undecided one.       *)
Follows(r, n) ==
  /\ r.guest => n.guest
  /\ n.round \in {r.round, r.round + 1}
  /\ n.round = r.round => r.moves \subseteq n.moves /\ r.votes \subseteq n.votes
  /\ n.round = r.round /\ r.state = "resolved" => n.state = "resolved" /\ n.moves = r.moves
  /\ r.status = "closed" => [n EXCEPT !.votes = {}] = [r EXCEPT !.votes = {}]

(* What a transaction writes follows from what is committed, although most *)
(* write the room they loaded.                                             *)
LEMMA WrittenFollows ==
  ASSUME LocksInv, NEW t \in Txs, At(t, "save")
  PROVE  /\ Written(t) \in Room /\ Sound(Written(t)) /\ Follows(room[tx[t].code], Written(t))
         /\ tx[t].kind = "presence" => Written(t) = room[tx[t].code]
         /\ tx[t].kind \in Actions =>
              /\ Written(t).round = room[tx[t].code].round
              /\ Written(t).state = room[tx[t].code].state
         /\ tx[t].kind = "join" => room[tx[t].code].status = "active"
<1> DEFINE x == tx[t]
           r == room[x.code]
           v == revision[x.code]
           n == Written(t)
<1>1. Running(t) /\ Statement(t) = "save"
  BY DEF At
<1>2. /\ Knows(x, r, v) /\ Placed(x) /\ x \in Transaction /\ r \in Room /\ Sound(r)
      /\ x.kind \in Kinds /\ x.role \in Role
  BY <1>1, RunningHolds
<1>3. x.at = Last[x.kind]
  BY <1>1, <1>2, Places DEF Statement, Statements
<1> HIDE DEF x
<1>4. CASE x.kind = "join"
  <2>1. x.at = 5
    BY <1>3, <1>4 DEF Last
  <2>2. x.seen = r /\ ~r.guest /\ r.status = "active"
    BY <1>2, <1>4, <2>1 DEF Knows, HasLoaded
  <2>3. n = [r EXCEPT !.guest = TRUE, !.funded = TRUE]
    BY <1>4, <2>2 DEF Written, Pays, x
  <2>4. /\ n.guest = TRUE /\ n.funded = TRUE /\ n.round = r.round /\ n.state = r.state
        /\ n.moves = r.moves /\ n.votes = r.votes /\ n.status = r.status /\ n \in Room
    BY <1>2, <2>3 DEF Room
  <2> QED
    BY <1>2, <1>4, <2>2, <2>4 DEF Sound, Follows, Room, Actions, x
<1>5. CASE x.kind = "leave"
  <2>1. x.at = 4
    BY <1>3, <1>5 DEF Last
  <2>2. x.seen = r /\ (r.state = "resolved" \/ ~r.guest) /\ r.status = "active"
    BY <1>2, <1>5, <2>1 DEF Knows, HasLoaded
  <2>3. n = [r EXCEPT !.status = "closed"]
    BY <1>5, <2>2 DEF Written, Pays, x
  <2>4. /\ n.guest = r.guest /\ n.funded = r.funded /\ n.round = r.round /\ n.state = r.state
        /\ n.moves = r.moves /\ n.votes = r.votes /\ n.status = "closed" /\ n \in Room
    BY <1>2, <2>3 DEF Room
  <2> QED
    BY <1>2, <1>5, <2>2, <2>4 DEF Sound, Follows, Room, Actions, x
<1>6. CASE x.kind = "deadline" \/ (x.kind = "reconcile" /\ x.seen.state = "active")
  <2>1. x.at = 6 /\ HasLoaded(x)
    BY <1>3, <1>6 DEF Last, HasLoaded
  <2>2. x.seen = r /\ r.status = "active" /\ r.state = "active" /\ r.guest
    BY <1>2, <1>6, <2>1 DEF Knows
  <2>3. Pays(t)
    BY <1>6 DEF Pays, x
  <2>4. n = [r EXCEPT !.state = "resolved"]
    BY <1>6, <2>2, <2>3 DEF Written, Pays, x
  <2>5. /\ n.guest = r.guest /\ n.funded = r.funded /\ n.round = r.round /\ n.state = "resolved"
        /\ n.moves = r.moves /\ n.votes = r.votes /\ n.status = r.status /\ n \in Room
    BY <1>2, <2>4 DEF Room
  <2> QED
    BY <1>2, <1>6, <2>2, <2>5 DEF Sound, Follows, Room, Actions, x
<1>7. CASE x.kind = "reconcile" /\ x.seen.state # "active"
  <2>1. x.at = 6 /\ HasLoaded(x)
    BY <1>3, <1>7 DEF Last, HasLoaded
  <2>2. x.seen = r /\ r.status = "active" /\ r.guest
    BY <1>2, <1>7, <2>1 DEF Knows
  <2>3. ~Pays(t)
    BY <1>7 DEF Pays, x
  <2>4. n = [r EXCEPT !.round = @ + 1, !.state = "active", !.moves = {}, !.votes = {}]
    BY <1>7, <2>2, <2>3 DEF Written, Pays, x
  <2>5. /\ n.guest = r.guest /\ n.funded = r.funded /\ n.round = r.round + 1
        /\ n.state = "active" /\ n.status = r.status /\ n.moves = {} /\ n.votes = {}
    BY <1>2, <2>4 DEF Room
  <2>6. n \in Room
    <3>1. r.round + 1 \in Nat \ {0} /\ {} \in SUBSET Role
      BY <1>2 DEF Room
    <3> HIDE DEF r, n
    <3> QED
      BY <1>2, <2>4, <3>1 DEF Room
  <2> QED
    BY <1>2, <1>7, <2>2, <2>5, <2>6 DEF Sound, Follows, Room, Actions, x
<1>8. CASE x.kind = "move"
  <2>1. HasShare(x) /\ HasAction(x)
    BY <1>3, <1>8 DEF Last, HasShare, HasAction, Actions
  <2>2. r.guest /\ r.state = "active" /\ r.status = "active"
    BY <1>2, <1>8, <2>1 DEF Knows, Sound, Room
  <2>3. n = [r EXCEPT !.moves = @ \cup {x.role}]
    BY <1>8 DEF Written, Pays, x
  <2>4. /\ n.guest = r.guest /\ n.funded = r.funded /\ n.round = r.round /\ n.state = r.state
        /\ n.moves = r.moves \cup {x.role} /\ n.votes = r.votes /\ n.status = r.status
        /\ n \in Room
    BY <1>2, <2>3 DEF Room
  <2> QED
    BY <1>2, <1>8, <2>2, <2>4 DEF Sound, Follows, Room, Actions, x
<1>9. CASE x.kind = "vote"
  <2>1. n = [r EXCEPT !.votes = @ \cup {x.role}]
    BY <1>9 DEF Written, Pays, x
  <2>2. /\ n.guest = r.guest /\ n.funded = r.funded /\ n.round = r.round /\ n.state = r.state
        /\ n.moves = r.moves /\ n.votes = r.votes \cup {x.role} /\ n.status = r.status
        /\ n \in Room
    BY <1>2, <2>1 DEF Room
  <2>3. [n EXCEPT !.votes = {}] = [r EXCEPT !.votes = {}]
    BY <1>2, <2>1 DEF Room
  <2> QED
    BY <1>2, <1>9, <2>2, <2>3 DEF Sound, Follows, Room, Actions, x
<1>10. CASE x.kind = "presence"
  <2>1. n = r
    BY <1>10 DEF Written, Pays, x
  <2> QED
    BY <1>2, <1>10, <2>1 DEF Sound, Follows, Room, Actions, x
<1> QED
  BY <1>2, <1>4, <1>5, <1>6, <1>7, <1>8, <1>9, <1>10 DEF Kinds, Plan

(* The rows of a room in its current round that a transaction has locked   *)
(* when it commits.                                                        *)
LEMMA SaveHolds ==
  ASSUME LocksInv, NEW t \in Txs, At(t, "save")
  PROVE  /\ Running(t) /\ HasRoom(tx[t]) /\ Exclusive(t, RoomRow(t)) \in locks
         /\ tx[t].kind # "presence" => tx[t].round = room[tx[t].code].round
         /\ tx[t].kind \in Actions => Shared(t, RoundRow(t)) \in locks
         /\ tx[t].kind \notin Actions \cup {"presence"} => Exclusive(t, RoundRow(t)) \in locks
<1> DEFINE x == tx[t]
<1>1. Running(t) /\ Statement(t) = "save"
  BY DEF At
<1>2. /\ Knows(x, room[x.code], revision[x.code]) /\ Holding(t) /\ Placed(x) /\ x.kind \in Kinds
  BY <1>1, RunningHolds
<1>3. x.at = Last[x.kind]
  BY <1>1, <1>2, Places DEF Statement, Statements
<1>4. x.kind \in {"join", "leave", "move", "vote", "reconcile", "deadline", "presence"}
  BY <1>2 DEF Kinds, Plan
<1> HIDE DEF x
<1>5. HasRoom(x)
  BY <1>3, <1>4 DEF HasRoom, Last, Actions
<1>6. x.kind \in Actions => HasShare(x) /\ HasAction(x)
  BY <1>3, <1>4 DEF HasShare, HasAction, Last, Actions
<1>7. x.kind \notin Actions \cup {"presence"} => HasRound(x) /\ HasLoaded(x)
  BY <1>3, <1>4 DEF HasRound, HasLoaded, Last, Actions
<1>8. x.kind # "presence" => x.round = room[x.code].round
  BY <1>2, <1>6, <1>7 DEF Knows
<1> QED
  BY <1>1, <1>2, <1>5, <1>6, <1>7, <1>8 DEF Holding, x

(* Two transactions do not hold the same row unless both share it.         *)
LEMMA Alone ==
  ASSUME LocksInv, NEW t, NEW u, t # u, NEW row, Exclusive(t, row) \in locks
  PROVE  Exclusive(u, row) \notin locks /\ Shared(u, row) \notin locks
BY DEF LocksInv, Exclusion, Exclusive, Shared

(* What another transaction knows of the room stays so when one commits:   *)
(* the rows both would need locked exclude it.                             *)
LEMMA OthersKnow ==
  ASSUME LocksInv, NEW t \in Txs, At(t, "save"), NEW u \in Txs, u # t, Running(u),
         tx[u].code = tx[t].code, NEW v
  PROVE  ~HasRoom(tx[u]) /\ Knows(tx[u], Written(t), v)
<1> DEFINE x == tx[u]
           c == tx[t].code
           r == room[c]
           n == Written(t)
<1>1. /\ Knows(x, r, revision[c]) /\ Holding(u) /\ Placed(x) /\ x.kind \in Kinds
      /\ r \in Room /\ Sound(r) /\ x.round \in Nat
  BY RunningHolds
<1>2. /\ n \in Room /\ Sound(n) /\ Follows(r, n)
      /\ tx[t].kind = "presence" => n = r
      /\ tx[t].kind \in Actions => n.round = r.round /\ n.state = r.state
      /\ tx[t].kind = "join" => r.status = "active"
  BY WrittenFollows
<1>3. /\ Running(t) /\ Exclusive(t, RoomRow(t)) \in locks
      /\ tx[t].kind # "presence" => tx[t].round = r.round
      /\ tx[t].kind \in Actions => Shared(t, RoundRow(t)) \in locks
      /\ tx[t].kind \notin Actions \cup {"presence"} => Exclusive(t, RoundRow(t)) \in locks
  BY SaveHolds
<1>4. RoomRow(u) = RoomRow(t)
  BY DEF RoomRow
<1>5. ~HasRoom(x)
  BY <1>1, <1>3, <1>4, Alone DEF Holding
<1>6. tx[t].kind # "presence" /\ x.round = r.round => RoundRow(u) = RoundRow(t)
  BY <1>3 DEF RoundRow
<1>7. HasRound(x) /\ x.round = r.round => tx[t].kind = "presence"
  <2> SUFFICES ASSUME HasRound(x), x.round = r.round, tx[t].kind # "presence" PROVE FALSE
    OBVIOUS
  <2>1. Exclusive(u, RoundRow(t)) \in locks
    BY <1>1, <1>6 DEF Holding
  <2> QED
    BY <1>3, <2>1, Alone
<1>8. HasShare(x) /\ x.round = r.round => tx[t].kind \in Actions \cup {"presence"}
  <2> SUFFICES ASSUME HasShare(x), x.round = r.round, tx[t].kind \notin Actions \cup {"presence"}
               PROVE  FALSE
    OBVIOUS
  <2>1. Shared(u, RoundRow(t)) \in locks
    BY <1>1, <1>6 DEF Holding
  <2> QED
    BY <1>3, <2>1, Alone
<1>9. r.round \in Nat /\ n.round \in Nat /\ r.round <= n.round /\ (r.guest => n.guest)
  BY <1>1, <1>2 DEF Follows, Room
<1>10. x.kind \in {"join", "leave", "move", "vote", "reconcile", "deadline", "presence"}
       /\ x.at \in 1 .. 6
  BY <1>1 DEF Kinds, Plan, Placed, Transaction
<1>11. ASSUME tx[t].kind # "presence" PROVE Knows(x, n, v)
  <2> HIDE DEF x, n, r
  <2>1. HasLoaded(x) => FALSE
    <3>1. HasLoaded(x) => HasRoom(x) \/ HasRound(x)
      BY <1>10 DEF HasLoaded, HasRoom, HasRound, Actions
    <3> QED
      BY <1>1, <1>5, <1>7, <1>11, <3>1 DEF Knows
  <2>2. ~(x.kind \in {"join", "leave"} /\ x.at >= 3)
        /\ ~(x.kind = "reconcile" /\ x.at >= 4)
    BY <2>1, <1>10 DEF HasLoaded
  <2>3. ~(x.kind = "deadline" /\ x.at >= 3)
    BY <1>1, <1>7, <1>11 DEF Knows, HasRound
  <2>4. HasShare(x) /\ x.round = r.round => n.round = r.round /\ n.state = r.state
    BY <1>2, <1>8, <1>11
  <2>5. HasAction(x) => HasShare(x)
    BY <1>10 DEF HasAction, HasShare
  <2>6. HasShare(x) /\ x.kind = "vote" /\ x.round = n.round => n.state = "resolved"
    BY <1>1, <1>9, <2>4 DEF Knows
  <2>7. HasShare(x) /\ x.kind = "move" => x.round = n.round /\ n.state = "active"
    BY <1>1, <2>4 DEF Knows
  <2>8. HasAction(x) => x.round = n.round
    BY <1>1, <2>4, <2>5 DEF Knows
  <2>9. x.round <= n.round
    BY <1>1, <1>9 DEF Knows
  <2> QED
    BY <1>1, <1>5, <1>9, <2>1, <2>2, <2>3, <2>6, <2>7, <2>8, <2>9 DEF Knows
<1>12. ASSUME tx[t].kind = "presence" PROVE Knows(x, n, v)
  BY <1>1, <1>2, <1>5, <1>12 DEF Knows
<1> QED
  BY <1>5, <1>11, <1>12

(* A commit changes one room and its revision and ends the transaction.    *)
LEMMA SaveKeeps ==
  ASSUME LocksInv, NEW t \in Txs, Save(t)
  PROVE  LocksInv'
<1> DEFINE c == tx[t].code
           n == Written(t)
<1>1. /\ At(t, "save") /\ Running(t) /\ room' = [room EXCEPT ![c] = n]
      /\ revision' = [revision EXCEPT ![c] = tx[t].revision + 1] /\ End(t)
  BY DEF Save, At
<1>2. n \in Room /\ Sound(n) /\ c \in Codes /\ tx[t].revision \in Nat
  BY <1>1, WrittenFollows, RunningHolds
<1> HIDE DEF n
<1>3. tx' = [tx EXCEPT ![t] = Idle] /\ locks' = {l \in locks : l.tx # t} /\ OthersLocks(t)
  BY <1>1 DEF End, OthersLocks
<1>4. TypeOK' /\ RoomsSound'
  BY <1>1, <1>2, <1>3 DEF LocksInv, TypeOK, RoomsSound
<1>5. Exclusion'
  BY <1>3 DEF LocksInv, Exclusion
<1>6. ~Running(t)'
  BY <1>3 DEF LocksInv, TypeOK, Running, Idle
<1>7. ASSUME NEW u \in Txs, Running(u)'
      PROVE  Holding(u)' /\ Knows(tx[u], room[tx[u].code], revision[tx[u].code])'
  <2>1. tx'[u] = tx[u] /\ (Running(u) => Holding(u)') /\ u # t
    BY <1>3, <1>6, <1>7, OthersHold
  <2>2. Running(u) /\ Holding(u)'
    BY <1>7, <2>1 DEF Running
  <2>3. CASE tx[u].code = c
    <3>1. Knows(tx[u], n, tx[t].revision + 1)
      BY <1>1, <2>1, <2>2, <2>3, OthersKnow DEF n
    <3>2. room'[c] = n /\ revision'[c] = tx[t].revision + 1
      BY <1>1, <1>2 DEF LocksInv, TypeOK
    <3> QED
      BY <2>1, <2>2, <2>3, <3>1, <3>2
  <2>4. CASE tx[u].code # c
    <3>1. tx[u].code \in Codes /\ Knows(tx[u], room[tx[u].code], revision[tx[u].code])
      BY <2>2, RunningHolds
    <3>2. room'[tx[u].code] = room[tx[u].code] /\ revision'[tx[u].code] = revision[tx[u].code]
      BY <1>1, <2>4, <3>1 DEF LocksInv, TypeOK
    <3> QED
      BY <2>1, <2>2, <3>1, <3>2
  <2> QED
    BY <2>3, <2>4
<1>8. ASSUME NEW l \in locks' PROVE Owned(l)'
  <2>1. l \in locks /\ l.tx \in Txs /\ l.tx # t
    BY <1>3 DEF LocksInv, Owned
  <2> QED
    BY <1>3, <2>1, OthersHold
<1> QED
  BY <1>4, <1>5, <1>7, <1>8 DEF LocksInv

(* The locks and what they protect hold in every reachable state.          *)
THEOREM LocksInvariant == Spec => []LocksInv
<1>1. Init => LocksInv
  <2> SUFFICES ASSUME Init PROVE LocksInv
    OBVIOUS
  <2>1. \A t \in Txs : ~Running(t)
    BY DEF Init, Running, Idle
  <2>2. \A r \in Committed : r \in Room /\ Sound(r)
    <3>1. Waiting \in Room /\ Sound(Waiting)
      BY DEF Waiting, Room, Sound, Role
    <3>2. \A m \in SUBSET Role : Playing(m) \in Room /\ Sound(Playing(m)) /\ Playing(m).guest
      BY <3>1 DEF Playing, Waiting, Room, Sound
    <3>3. \A m \in SUBSET Role, v \in SUBSET Role : Decided(m, v) \in Room /\ Sound(Decided(m, v))
      BY <3>2 DEF Decided, Playing, Waiting, Room, Sound
    <3> QED
      BY <3>1, <3>2, <3>3 DEF Committed
  <2>3. TypeOK /\ RoomsSound
    BY <2>2 DEF Init, TypeOK, RoomsSound
  <2>4. locks = {}
    BY DEF Init
  <2> QED
    BY <2>1, <2>3, <2>4 DEF LocksInv, Exclusion
<1>2. LocksInv /\ [Next]_vars => LocksInv'
  <2> SUFFICES ASSUME LocksInv, [Next]_vars PROVE LocksInv'
    OBVIOUS
  <2>1. ASSUME NEW t \in Txs, NEW kind \in Kinds, NEW c \in Codes, NEW p \in Role,
               Begin(t, kind, c, p)
        PROVE  LocksInv'
    BY <2>1, BeginKeeps
  <2>2. ASSUME NEW t \in Txs, Step(t) PROVE LocksInv'
    BY <2>2, AskKeeps, ShareKeeps, InsertKeeps, ClaimKeeps, LockRoomKeeps, LockRoundKeeps,
       LockWalletKeeps, LoadKeeps, SaveKeeps DEF Step
  <2>3. ASSUME NEW t \in Txs, Rollback(t) PROVE LocksInv'
    BY <2>3, EndKeeps DEF Rollback
  <2>4. CASE UNCHANGED vars
    <3>1. room' = room /\ revision' = revision /\ locks' = locks /\ tx' = tx
      BY <2>4 DEF vars
    <3>2. TypeOK' /\ RoomsSound' /\ Exclusion'
      BY <3>1 DEF LocksInv, TypeOK, RoomsSound, Exclusion
    <3>3. ASSUME NEW l \in locks' PROVE Owned(l)'
      <4>1. Owned(l)
        BY <3>1 DEF LocksInv
      <4>2. Wallets(l.tx)' = Wallets(l.tx) /\ Unlocked(l.tx)' = Unlocked(l.tx)
        BY <3>1 DEF Wallets, Pays, Unlocked, Holds, WalletRow
      <4>3. OwnWallet(l.tx, l) => OwnWallet(l.tx, l)'
        BY <3>1, <4>2 DEF OwnWallet, WalletRow
      <4>4. Own(l.tx, l)'
        BY <3>1, <4>1, <4>3 DEF Owned, Own, RoomRow, RoundRow, ActionRow
      <4> QED
        BY <3>1, <4>1, <4>4 DEF Owned, Running
    <3>4. \A t \in Txs : Running(t)' =>
            Holding(t)' /\ Knows(tx[t], room[tx[t].code], revision[tx[t].code])'
      BY <3>1 DEF LocksInv, Running, Holding, RoomRow, RoundRow
    <3> QED
      BY <3>2, <3>3, <3>4 DEF LocksInv
  <2> QED
    BY <2>1, <2>2, <2>3, <2>4 DEF Next
<1> QED
  BY <1>1, <1>2, PTL DEF Spec

-----------------------------------------------------------------------------
(* What the locks protect.                                                 *)

(* Only a transaction that has come past its load has loaded.              *)
LEMMA LoadedPlaces ==
  ASSUME NEW t, Placed(tx[t]), Loaded(t)
  PROVE  HasLoaded(tx[t])
<1>1. PICK i \in 1 .. tx[t].at - 1 : Plan[tx[t].kind][i] = "load"
  BY DEF Loaded, Statements
<1>2. /\ tx[t].kind \in {"join", "leave", "move", "vote", "reconcile", "deadline", "presence"}
      /\ tx[t].at \in 1 .. 6 /\ tx[t].at <= Last[tx[t].kind]
  BY DEF Placed, Transaction, Kinds, Plan
<1>3. i \in 1 .. 5 /\ i < tx[t].at
  BY <1>2
<1>4. CASE tx[t].kind \in {"join", "leave"}
  BY <1>1, <1>2, <1>3, <1>4 DEF Plan, HasLoaded
<1>5. CASE tx[t].kind \in {"move", "vote"}
  <2>1. tx[t].at <= 5
    BY <1>2, <1>5 DEF Last
  <2> QED
    BY <1>1, <1>2, <1>3, <1>5, <2>1 DEF Plan
<1>6. CASE tx[t].kind \in {"reconcile", "deadline"}
  BY <1>1, <1>2, <1>3, <1>6 DEF Plan, HasLoaded
<1>7. CASE tx[t].kind = "presence"
  <2>1. tx[t].at <= 2
    BY <1>2, <1>7 DEF Last
  <2> QED
    BY <1>1, <1>2, <1>3, <1>7, <2>1 DEF Plan
<1> QED
  BY <1>2, <1>4, <1>5, <1>6, <1>7

(* What a transaction loaded is what is committed until it ends, though    *)
(* the reconciler loads before it has locked the room (store.load).        *)
THEOREM LoadedStaysCurrent == Spec => []LoadedIsCurrent
<1>1. LocksInv => LoadedIsCurrent
  <2> SUFFICES ASSUME LocksInv, NEW t \in Txs, Running(t), Loaded(t)
               PROVE  tx[t].seen = room[tx[t].code]
    BY DEF LoadedIsCurrent
  <2>1. Placed(tx[t]) /\ Knows(tx[t], room[tx[t].code], revision[tx[t].code])
    BY RunningHolds
  <2> QED
    BY <2>1, LoadedPlaces DEF Knows
<1> QED
  BY <1>1, LocksInvariant, PTL

(* A step leaves a room as it is or commits what follows from it under the *)
(* next revision.                                                          *)
LEMMA StepFollows ==
  ASSUME LocksInv, [Next]_vars, NEW c \in Codes
  PROVE  \/ room'[c] = room[c] /\ revision'[c] = revision[c]
         \/ Follows(room[c], room'[c]) /\ revision'[c] = revision[c] + 1
<1>1. ASSUME NEW t \in Txs, Save(t)
      PROVE  \/ room'[c] = room[c] /\ revision'[c] = revision[c]
             \/ Follows(room[c], room'[c]) /\ revision'[c] = revision[c] + 1
  <2>1. /\ At(t, "save") /\ Running(t)
        /\ room' = [room EXCEPT ![tx[t].code] = Written(t)]
        /\ revision' = [revision EXCEPT ![tx[t].code] = tx[t].revision + 1]
    BY <1>1 DEF Save, At
  <2>2. Follows(room[tx[t].code], Written(t)) /\ HasRoom(tx[t])
    BY <2>1, WrittenFollows, SaveHolds
  <2>3. tx[t].revision = revision[tx[t].code] /\ tx[t].code \in Codes
    BY <2>1, <2>2, RunningHolds DEF Knows
  <2> QED
    BY <2>1, <2>2, <2>3 DEF LocksInv, TypeOK
<1>2. ASSUME room' = room, revision' = revision
      PROVE  room'[c] = room[c] /\ revision'[c] = revision[c]
  BY <1>2
<1>3. \/ UNCHANGED <<room, revision>> \/ \E t \in Txs : Save(t)
  BY DEF Next, Step, vars, Begin, Ask, ShareRound, InsertAction, ClaimRound, LockRoom,
         LockRound, LockWallet, Load, Rollback
<1> QED
  BY <1>1, <1>2, <1>3

(* The invariant and what follows from it at every step.                   *)
LEMMA RoomsFollow ==
  ASSUME LocksInv, [Next]_vars, NEW c \in Codes
  PROVE  /\ room[c] \in Room /\ revision[c] \in Nat
         /\ revision'[c] \in {revision[c], revision[c] + 1}
         /\ room'[c] # room[c] => revision'[c] # revision[c]
         /\ room'[c].round = room[c].round =>
              room[c].moves \subseteq room'[c].moves /\ room[c].votes \subseteq room'[c].votes
         /\ room[c].state = "resolved" /\ room'[c].round = room[c].round =>
              room'[c].moves = room[c].moves /\ room'[c].state = "resolved"
         /\ room[c].status = "closed" =>
              [room'[c] EXCEPT !.votes = {}] = [room[c] EXCEPT !.votes = {}]
<1>1. room[c] \in Room /\ revision[c] \in Nat
  BY DEF LocksInv, TypeOK
<1>2. CASE room'[c] = room[c] /\ revision'[c] = revision[c]
  BY <1>1, <1>2
<1>3. CASE Follows(room[c], room'[c]) /\ revision'[c] = revision[c] + 1
  BY <1>1, <1>3 DEF Follows
<1> QED
  BY <1>2, <1>3, StepFollows

(* Every commit takes the next revision, whenever it read the last one.    *)
THEOREM RevisionsTaken == Spec => RevisionsGapless
<1>1. LocksInv /\ [Next]_vars => [\A c \in Codes :
        /\ revision'[c] \in {revision[c], revision[c] + 1}
        /\ room'[c] # room[c] => revision'[c] # revision[c]]_vars
  BY RoomsFollow
<1> QED
  BY <1>1, LocksInvariant, PTL DEF Spec, RevisionsGapless

(* No commit erases a move or a request that another one committed.        *)
THEOREM ActionsNeverErased == Spec => ActionsKept
<1>1. LocksInv /\ [Next]_vars => [\A c \in Codes : room'[c].round = room[c].round =>
        /\ room[c].moves \subseteq room'[c].moves
        /\ room[c].votes \subseteq room'[c].votes]_vars
  BY RoomsFollow
<1> QED
  BY <1>1, LocksInvariant, PTL DEF Spec, ActionsKept

(* A decided round stays decided on the moves it was decided on.           *)
THEOREM DecidedRoundsFixed == Spec => DecidedRoundFixed
<1>1. LocksInv /\ [Next]_vars => [\A c \in Codes :
        room[c].state = "resolved" /\ room'[c].round = room[c].round =>
          room'[c].moves = room[c].moves /\ room'[c].state = "resolved"]_vars
  BY RoomsFollow
<1> QED
  BY <1>1, LocksInvariant, PTL DEF Spec, DecidedRoundFixed

(* A closed room stays closed in its round, but for late requests.         *)
THEOREM ClosedRoomsStay == Spec => ClosedRoomStays
<1>1. LocksInv /\ [Next]_vars => [\A c \in Codes : room[c].status = "closed" =>
        [room'[c] EXCEPT !.votes = {}] = [room[c] EXCEPT !.votes = {}]]_vars
  BY RoomsFollow
<1> QED
  BY <1>1, LocksInvariant, PTL DEF Spec, ClosedRoomStays

-----------------------------------------------------------------------------
(* Who waits for whom.                                                     *)

(* The order in which rows are locked, by all but a player who leaves.     *)
Rank(row) ==
  IF row[1] = "round" THEN 1
  ELSE IF row[1] \in Actions THEN 2
  ELSE IF row[1] = "room" THEN 3
  ELSE 4 + row[2]

(* No row has a rank beyond some bound, so that no chain of waiting goes on *)
(* for ever.                                                               *)
Bounded == \E b \in Nat : \A l \in locks : Rank(l.row) \in Nat /\ Rank(l.row) <= b

(* A set of natural numbers has a least one.                               *)
LEMMA Least ==
  ASSUME NEW T, T \subseteq Nat, T # {}
  PROVE  \E n \in T : \A m \in T : n <= m
<1> DEFINE R == {ss \in Nat \X Nat : ss[1] < ss[2]}
<1>1. IsWellFoundedOn(R, Nat)
  BY NatLessThanWellFounded DEF OpToRel
<1> HIDE DEF R
<1>2. PICK n \in T : \A m \in T : ~(<<m, n>> \in R)
  BY <1>1, WFMin
<1>3. ASSUME NEW m \in T PROVE n <= m
  <2>1. m < n => <<m, n>> \in R
    BY DEF R
  <2> QED
    BY <1>2, <2>1
<1> QED
  BY <1>3

(* The rows a transaction asks for have a rank.                            *)
LEMMA WantedRank ==
  ASSUME LocksInv, NEW t \in Txs
  PROVE  /\ \A want \in Wanted(t) : Running(t) /\ want.mode \in {"share", "exclusive"}
         /\ \E b \in Nat : \A want \in Wanted(t) : Rank(want.row) \in Nat /\ Rank(want.row) <= b
<1>1. CASE ~Running(t)
  <2>1. Wanted(t) = {}
    BY <1>1 DEF Wanted, At
  <2> QED
    BY <2>1
<1>2. CASE Running(t)
  <2>1. tx[t].code \in Codes
    BY <1>2, RunningHolds
  <2> DEFINE c == tx[t].code
             b == 4 + Host[c] + Guest[c]
  <2>2. Host[c] \in Nat /\ Guest[c] \in Nat /\ b \in Nat
    BY <2>1, LocksAssumption
  <2> SUFFICES ASSUME NEW want \in Wanted(t)
               PROVE  /\ want.mode \in {"share", "exclusive"}
                      /\ Rank(want.row) \in Nat /\ Rank(want.row) <= b
    BY <1>2, <2>2
  <2>3. CASE Statement(t) \in {"share", "claim", "round"}
    <3>1. want.row = RoundRow(t) /\ want.mode \in {"share", "exclusive"}
      BY <1>2, <2>3, WantedRow DEF Lock
    <3>2. Rank(want.row) = 1
      BY <3>1 DEF Rank, RoundRow
    <3> QED
      BY <2>2, <3>1, <3>2
  <2>4. CASE Statement(t) = "insert"
    <3>1. want.row = ActionRow(t) /\ want.mode = "exclusive"
      BY <1>2, <2>4, WantedRow DEF Lock
    <3>2. tx[t].kind \in Actions
      BY <1>2, <2>4, RunningHolds, Places DEF Statement, Statements
    <3>3. Rank(want.row) = 2
      BY <3>1, <3>2 DEF Rank, ActionRow, Actions
    <3> QED
      BY <2>2, <3>1, <3>3
  <2>5. CASE Statement(t) = "room"
    <3>1. want.row = RoomRow(t) /\ want.mode = "exclusive"
      BY <1>2, <2>5, WantedRow DEF Lock
    <3>2. Rank(want.row) = 3
      BY <3>1 DEF Rank, RoomRow, Actions
    <3> QED
      BY <2>2, <3>1, <3>2
  <2>6. CASE Statement(t) = "wallets"
    <3>1. PICK w \in Unlocked(t) : want \in Lock(WalletRow(w), "exclusive")
      BY <1>2, <2>6, WantedRow
    <3>2. want.row = WalletRow(w) /\ want.mode = "exclusive"
      BY <3>1 DEF Lock
    <3>3. w \in {Host[c], Guest[c], 0}
      BY <3>1 DEF Unlocked, Wallets
    <3>4. Rank(want.row) = 4 + w
      BY <3>2 DEF Rank, WalletRow, Actions
    <3> QED
      BY <2>2, <3>2, <3>3, <3>4
  <2> QED
    BY <1>2, <2>3, <2>4, <2>5, <2>6, WantedRow
<1> QED
  BY <1>1, <1>2

(* The rows that are locked stay within a bound.                           *)
LEMMA BoundedKept ==
  ASSUME LocksInv, Bounded, [Next]_vars
  PROVE  Bounded'
<1>1. ASSUME locks' \subseteq locks PROVE Bounded'
  BY <1>1 DEF Bounded
<1>2. ASSUME NEW t \in Txs, Acquire(t) PROVE Bounded'
  <2>1. PICK a \in Nat : \A l \in locks : Rank(l.row) \in Nat /\ Rank(l.row) <= a
    BY DEF Bounded
  <2>2. PICK b \in Nat : \A want \in Wanted(t) : Rank(want.row) \in Nat /\ Rank(want.row) <= b
    BY WantedRank
  <2>3. ASSUME NEW l \in locks' PROVE Rank(l.row) \in Nat /\ Rank(l.row) <= a + b
    <3>1. CASE l \in locks
      BY <2>1, <3>1
    <3>2. CASE l \notin locks
      <4>1. PICK want \in Wanted(t) : l.row = want.row
        BY <1>2, <3>2 DEF Acquire
      <4> QED
        BY <2>2, <4>1
    <3> QED
      BY <3>1, <3>2
  <2>4. a + b \in Nat
    OBVIOUS
  <2> QED
    BY <2>3, <2>4 DEF Bounded
<1>3. locks' \subseteq locks \/ \E t \in Txs : Acquire(t)
  BY DEF Next, Step, vars, Begin, Ask, ShareRound, InsertAction, ClaimRound, LockRoom,
         LockRound, LockWallet, Load, Save, Rollback, End
<1> QED
  BY <1>1, <1>2, <1>3

(* Who holds a row of a round and has not yet the room has read that the   *)
(* guest is there, and a player who joins has read that nobody is: joining *)
(* never waits for the round, although it locks it after the room.         *)
LEMMA JoinRoundFree ==
  ASSUME LocksInv, NEW t \in Txs, NEW u \in Txs, t # u, Running(t), tx[t].kind = "join",
         HasRoom(tx[t]), HasLoaded(tx[t]), NEW l \in locks, l.tx = u, l.row = RoundRow(t)
  PROVE  FALSE
<1> DEFINE x == tx[t]
           y == tx[u]
           r == room[x.code]
<1>1. Knows(x, r, revision[x.code]) /\ Holding(t) /\ x.at \in 1 .. 6
  BY RunningHolds
<1>2. ~r.guest
  BY <1>1 DEF Knows, HasLoaded
<1>3. Own(u, l) /\ Running(u)
  BY DEF LocksInv, Owned
<1>4. Holding(u) /\ y.kind \in Kinds /\ y.at \in 1 .. 6 /\ Placed(y)
      /\ Knows(y, room[y.code], revision[y.code])
  BY <1>3, RunningHolds
<1>5. l.row = RoundRow(u) /\ (HasRound(y) \/ HasShare(y))
  <2>1. l.row[1] = "round"
    BY DEF RoundRow
  <2>2. y.kind \in Actions => y.kind # "round"
    BY DEF Actions
  <2>3. ~(l.row = RoomRow(u)) /\ \A w : ~(l.row = WalletRow(w))
    BY <2>1 DEF RoomRow, WalletRow
  <2>4. HasAction(y) => ~(l.row = ActionRow(u))
    BY <2>1, <2>2 DEF HasAction, ActionRow
  <2> QED
    BY <1>3, <2>3, <2>4 DEF Own, OwnWallet, Exclusive, Shared
<1>6. y.code = x.code
  BY <1>5 DEF RoundRow
<1>7. ~HasRoom(y)
  <2> SUFFICES ASSUME HasRoom(y) PROVE FALSE
    OBVIOUS
  <2>1. Exclusive(u, RoomRow(t)) \in locks
    BY <1>4, <1>6 DEF Holding, RoomRow
  <2>2. Exclusive(t, RoomRow(t)) \in locks
    BY <1>1 DEF Holding
  <2> QED
    BY <2>1, <2>2, Alone
<1>8. (y.kind \in {"reconcile", "deadline"} /\ y.at >= 3) \/ HasShare(y)
  BY <1>4, <1>5, <1>7 DEF HasRound, HasRoom
<1>9. r.guest
  BY <1>4, <1>6, <1>8 DEF Knows
<1> QED
  BY <1>2, <1>9

(* Whoever waits, and does not leave the room, waits for a row of a higher *)
(* rank than those it holds.                                               *)
LEMMA LockOrder ==
  ASSUME LocksInv, NEW u \in Txs, Running(u), tx[u].kind # "leave", NEW l \in locks, l.tx = u,
         NEW v \in Txs, NEW want \in Wanted(u), v # u,
         NEW m \in locks, m.tx = v, m.row = want.row
  PROVE  Rank(l.row) < Rank(want.row)
<1> DEFINE x == tx[u]
<1>1. /\ Placed(x) /\ x.kind \in Kinds /\ x.at \in 1 .. 6 /\ x.code \in Codes /\ Own(u, l)
      /\ Holding(u)
  BY RunningHolds DEF LocksInv, Owned
<1>2. x.kind \in {"join", "move", "vote", "reconcile", "deadline", "presence"}
  BY <1>1 DEF Kinds, Plan
<1>3. /\ Rank(RoundRow(u)) = 1 /\ Rank(RoomRow(u)) = 3
      /\ x.kind \in Actions => Rank(ActionRow(u)) = 2
  BY DEF Rank, RoundRow, RoomRow, ActionRow, Actions
<1>4. \A w : Rank(WalletRow(w)) = 4 + w
  BY DEF Rank, WalletRow, Actions
<1>5. \/ x.kind \in Actions /\ HasShare(x) /\ Statement(u) = "insert" /\ x.at = 3
      \/ x.kind \in Actions \cup {"reconcile"} /\ Statement(u) = "room" /\ x.at = 4
      \/ x.kind = "deadline" /\ Statement(u) = "room" /\ x.at = 3
      \/ x.kind \in {"join", "reconcile", "deadline"} /\ Statement(u) = "wallets"
  <2>1. Statement(u) \in {"room", "share", "claim", "round", "insert", "wallets"}
    BY WantedRow
  <2>2. x.at = 4 /\ x.kind = "join" => Statement(u) = "round"
    BY <1>1, Places DEF Statement, Statements
  <2>3. ~(x.at = 4 /\ x.kind = "join")
    <3> SUFFICES ASSUME x.at = 4, x.kind = "join" PROVE FALSE
      OBVIOUS
    <3>1. m.row = RoundRow(u)
      BY <2>2, WantedRow DEF Lock
    <3> QED
      BY <3>1, JoinRoundFree DEF HasRoom, HasLoaded
  <2>4. ~(x.at = 1) /\ ~(x.at = 2 /\ x.kind \in Actions \cup {"reconcile", "deadline"})
    BY <1>1 DEF Own, OwnWallet, HasRoom, HasRound, HasShare, HasAction, HasWallets, Actions
  <2> QED
    BY <1>1, <1>2, <2>1, <2>3, <2>4, Places DEF Statement, Statements, HasShare, Actions
<1>6. CASE x.kind \in Actions /\ HasShare(x) /\ Statement(u) = "insert" /\ x.at = 3
  <2>1. Rank(want.row) = 2
    BY <1>3, <1>6, WantedRow DEF Lock
  <2>2. l.row = RoundRow(u)
    BY <1>1, <1>6 DEF Own, OwnWallet, HasRoom, HasRound, HasAction, HasWallets, Actions,
                      Exclusive, Shared
  <2> QED
    BY <1>3, <2>1, <2>2
<1>7. CASE /\ Statement(u) = "room"
           /\ \/ x.kind \in Actions \cup {"reconcile"} /\ x.at = 4
              \/ x.kind = "deadline" /\ x.at = 3
  <2>1. Rank(want.row) = 3
    BY <1>3, <1>7, WantedRow DEF Lock
  <2>2. l.row = RoundRow(u) \/ (l.row = ActionRow(u) /\ x.kind \in Actions)
    BY <1>1, <1>7 DEF Own, OwnWallet, HasRoom, HasRound, HasAction, HasWallets, Actions,
                      Exclusive, Shared
  <2> QED
    BY <1>3, <2>1, <2>2
<1>8. CASE x.kind \in {"join", "reconcile", "deadline"} /\ Statement(u) = "wallets"
  <2>1. PICK w \in Unlocked(u) : want.row = WalletRow(w)
    BY <1>8, WantedRow DEF Lock
  <2>2. Wallets(u) \subseteq Nat
    BY <1>1, LocksAssumption DEF Wallets
  <2>3. w \in Nat /\ Rank(want.row) = 4 + w
    BY <1>4, <2>1, <2>2 DEF Unlocked
  <2>4. CASE OwnWallet(u, l)
    <3>1. PICK w0 \in Wallets(u) : l = Exclusive(u, WalletRow(w0)) /\ w0 < w
      BY <2>1, <2>4 DEF OwnWallet
    <3>2. Rank(l.row) = 4 + w0
      BY <1>4, <3>1 DEF Exclusive
    <3> QED
      BY <2>2, <2>3, <3>1, <3>2
  <2>5. CASE ~OwnWallet(u, l)
    <3>1. l.row = RoomRow(u) \/ l.row = RoundRow(u)
      BY <1>1, <1>8, <2>5 DEF Own, HasAction, HasShare, Actions, Exclusive, Shared
    <3> QED
      BY <1>3, <2>3, <3>1
  <2> QED
    BY <2>4, <2>5
<1> QED
  BY <1>5, <1>6, <1>7, <1>8

(* No set of transactions waits in a circle unless one of them is a player *)
(* leaving: the rest ask for rows in the order of their rank.              *)
THEOREM DeadlocksOnlyLeave == Spec => []OnlyLeaveDeadlocks
<1>1. LocksInv /\ Bounded => OnlyLeaveDeadlocks
  <2> SUFFICES ASSUME LocksInv, Bounded, NEW S \in SUBSET Txs, Deadlock(S),
                      \A t \in S : tx[t].kind # "leave"
               PROVE  FALSE
    BY DEF OnlyLeaveDeadlocks
  <2>1. PICK b \in Nat : \A l \in locks : Rank(l.row) \in Nat /\ Rank(l.row) <= b
    BY DEF Bounded
  <2> DEFINE T == {n \in Nat : \E u \in S, l \in locks : l.tx = u /\ n = b - Rank(l.row)
                                 /\ \E t \in S : t # u /\ \E want \in Wanted(t) : want.row = l.row}
  <2>2. ASSUME NEW t \in S
        PROVE  \E u \in S, l \in locks, want \in Wanted(t) : u # t /\ l.tx = u /\ l.row = want.row
    BY DEF Deadlock, WaitsFor
  <2>3. T # {}
    <3>1. PICK t \in S : TRUE
      BY DEF Deadlock
    <3>2. PICK u \in S, l \in locks, want \in Wanted(t) : u # t /\ l.tx = u /\ l.row = want.row
      BY <2>2
    <3>3. b - Rank(l.row) \in Nat
      BY <2>1
    <3>4. b - Rank(l.row) \in T
      BY <3>2, <3>3
    <3> QED
      BY <3>4
  <2>4. PICK n \in T : \A m \in T : n <= m
    <3>1. T \subseteq Nat
      OBVIOUS
    <3> HIDE DEF T
    <3> QED
      BY <2>3, <3>1, Least
  <2>5. PICK u \in S, l \in locks : l.tx = u /\ n = b - Rank(l.row)
    BY <2>4
  <2>6. PICK v \in S, m \in locks, want \in Wanted(u) : v # u /\ m.tx = v /\ m.row = want.row
    BY <2>2
  <2>7. u \in Txs /\ v \in Txs /\ Running(u) /\ tx[u].kind # "leave"
    BY <2>6, WantedRank
  <2>8. Rank(l.row) < Rank(m.row)
    BY <2>5, <2>6, <2>7, LockOrder
  <2>9. b - Rank(m.row) \in Nat /\ b - Rank(m.row) < n
    BY <2>1, <2>5, <2>8
  <2>10. b - Rank(m.row) \in T
    BY <2>6, <2>9
  <2> QED
    BY <2>1, <2>4, <2>5, <2>9, <2>10
<1>2. Init => Bounded
  BY DEF Init, Bounded
<1>3. LocksInv /\ Bounded /\ [Next]_vars => Bounded'
  BY BoundedKept
<1> QED
  BY <1>1, <1>2, <1>3, LocksInvariant, PTL DEF Spec

=============================================================================
