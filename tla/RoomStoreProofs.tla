-------------------------- MODULE RoomStoreProofs --------------------------
(***************************************************************************)
(* Proofs about RoomStore for any number of rooms, accounts, keys and      *)
(* connections, any bounds and any timing constants.                       *)
(***************************************************************************)
EXTENDS RoomStoreProperties, TLAPS

(* A room that exists has a current round, and only such a room has        *)
(* connections.                                                            *)
Started ==
  /\ \A c \in Codes : rooms[c].status = "none" <=> Round(c) = 0
  /\ \A k \in conns : Round(k.room) # 0

TypeInv == TypeOK /\ Started

-----------------------------------------------------------------------------
(* The operations of the rules stay within the type of a room.             *)

(* The result of two throws is a draw or a win of one of the players.      *)
LEMMA ResultOfThrows ==
  \A one, two : DetermineResult(one, two) \in Result
BY DEF DetermineResult, Result, Draw, WinFor

(* Crediting a result changes the result and the wins, and nothing else.   *)
LEMMA AwardRoom ==
  ASSUME NEW r \in RoomType, NEW result \in Result
  PROVE  /\ Award(r, result) \in RoomType
         /\ Award(r, result).result = result
         /\ Award(r, result).round = r.round
         /\ Award(r, result).closed = r.closed
         /\ Award(r, result).players = r.players
         /\ Award(r, result).moves = r.moves
         /\ Award(r, result).next = r.next
         /\ Award(r, result).forfeited = r.forfeited
         /\ \A p \in Role : Award(r, result).wins[p] = IF result = WinFor(p) THEN r.wins[p] + 1
                                                      ELSE r.wins[p]
<1> DEFINE credited == [p \in Role |-> IF result = WinFor(p) THEN r.wins[p] + 1 ELSE r.wins[p]]
<1>1. credited \in [Role -> Nat]
  <2>1. \A p \in Role : r.wins[p] \in Nat
    BY DEF RoomType
  <2> QED
    BY <2>1
<1>2. Award(r, result) = [r EXCEPT !.result = result, !.wins = credited]
  BY DEF Award
<1> QED
  BY <1>1, <1>2 DEF RoomType

(* What load returns is a room of the current round.                       *)
LEMMA LoadRoom ==
  ASSUME GameTypeOK, NEW c \in Codes, Round(c) # 0
  PROVE  /\ Round(c) \in Rounds
         /\ Row(c) \in RoundType
         /\ Load(c) \in RoomType
         /\ Load(c).round = Round(c)
<1>1. Round(c) \in Rounds
  BY BoundsAssumption DEF GameTypeOK, Round, Rounds
<1>2. Row(c) \in RoundType
  BY <1>1 DEF GameTypeOK, Row
<1>3. {p \in Role : seats[c][p] # NoOne} \in SUBSET Role
  OBVIOUS
<1>4. wins[c] \in [Role -> Nat] /\ (rooms[c].status = "closed") \in BOOLEAN
  BY DEF GameTypeOK
<1>5. Round(c) \in Nat
  BY <1>1, BoundsAssumption DEF Rounds
<1>6. Load(c) \in RoomType
  BY <1>2, <1>3, <1>4, <1>5 DEF Load, RoomType, RoundType
<1> QED
  BY <1>1, <1>2, <1>6 DEF Load

-----------------------------------------------------------------------------
(* What the shared parts of the transactions leave well typed.             *)

RoomsType ==
  [Codes -> [status : {"none", "active", "closed"}, round : 0 .. MaxRound, revision : Nat]]

(* Saving a room of a possible round keeps its rows well typed, and leaves *)
(* every other room's status and round alone.                              *)
LEMMA SaveRows ==
  ASSUME GameTypeOK, NEW c \in Codes, NEW r \in RoomType, r.round \in Rounds, SaveRoom(c, r)
  PROVE  /\ rooms' \in RoomsType /\ wins' \in [Codes -> [Role -> Nat]]
         /\ rooms'[c].round = r.round
         /\ rooms'[c].status = IF r.closed THEN "closed" ELSE "active"
         /\ rooms'[c].revision = rooms[c].revision + 1
         /\ \A e \in Codes \ {c} : rooms'[e] = rooms[e]
<1> DEFINE row == [status |-> IF r.closed THEN "closed" ELSE "active", round |-> r.round,
                   revision |-> rooms[c].revision + 1]
<1>1. rooms \in RoomsType
  BY DEF GameTypeOK, RoomsType
<1>2. row \in [status : {"none", "active", "closed"}, round : 0 .. MaxRound, revision : Nat]
  <2>1. rooms[c].revision + 1 \in Nat
    BY <1>1 DEF RoomsType
  <2>2. r.round \in 0 .. MaxRound
    BY BoundsAssumption DEF Rounds
  <2> QED
    BY <2>1, <2>2
<1>3. rooms' = [rooms EXCEPT ![c] = row]
  BY DEF SaveRoom
<1>4. rooms' \in RoomsType /\ rooms'[c] = row /\ \A e \in Codes \ {c} : rooms'[e] = rooms[e]
  BY <1>1, <1>2, <1>3 DEF RoomsType
<1>5. wins' \in [Codes -> [Role -> Nat]]
  <2>1. r.wins \in [Role -> Nat]
    BY DEF RoomType
  <2> QED
    BY <2>1 DEF GameTypeOK, SaveRoom
<1> QED
  BY <1>4, <1>5

(* The row written for a room is well typed.                               *)
LEMMA RowType ==
  ASSUME NEW r \in RoomType, NEW funded \in BOOLEAN
  PROVE  RoundRow(r, funded) \in RoundType
BY DEF RoundRow, RoundType, RoomType, Resolved

(* Writing a well-typed row keeps the rounds well typed.                   *)
LEMMA WriteRound ==
  ASSUME GameTypeOK, NEW c \in Codes, NEW n \in Rounds, NEW row \in RoundType,
         rounds' = [rounds EXCEPT ![c][n] = row]
  PROVE  /\ rounds' \in [Codes -> [Rounds -> RoundType]]
         /\ rounds'[c][n] = row
         /\ \A e \in Codes, m \in Rounds : <<e, m>> # <<c, n>> => rounds'[e][m] = rounds[e][m]
<1>1. rounds \in [Codes -> [Rounds -> RoundType]]
  BY DEF GameTypeOK
<1>2. [rounds[c] EXCEPT ![n] = row] \in [Rounds -> RoundType]
  BY <1>1
<1>3. rounds' = [rounds EXCEPT ![c] = [rounds[c] EXCEPT ![n] = row]]
  BY <1>1
<1> QED
  BY <1>1, <1>2, <1>3

(* Announcing a revision keeps the outbox well typed.                      *)
LEMMA AnnounceType ==
  ASSUME GameTypeOK, NEW c \in Codes, rooms' \in RoomsType, Announce(c)
  PROVE  outbox' \in [Codes -> SUBSET Nat]
<1>1. rooms'[c].revision \in Nat
  BY DEF RoomsType
<1>2. outbox[c] \cup {rooms'[c].revision} \in SUBSET Nat
  BY <1>1 DEF GameTypeOK
<1> QED
  BY <1>2 DEF GameTypeOK, Announce

(* Taking a revision changes neither the status nor the round of a room.   *)
LEMMA BumpRows ==
  ASSUME GameTypeOK, NEW c \in Codes, BumpRevision(c)
  PROVE  /\ rooms' \in RoomsType /\ outbox' \in [Codes -> SUBSET Nat]
         /\ rooms'[c].revision = rooms[c].revision + 1
         /\ \A e \in Codes : /\ rooms'[e].status = rooms[e].status
                              /\ rooms'[e].round = rooms[e].round
         /\ \A e \in Codes \ {c} : rooms'[e] = rooms[e]
<1>1. rooms \in RoomsType
  BY DEF GameTypeOK, RoomsType
<1>2. rooms' = [rooms EXCEPT ![c] = [rooms[c] EXCEPT !.revision = rooms[c].revision + 1]]
  BY <1>1 DEF BumpRevision, RoomsType
<1>3. [rooms[c] EXCEPT !.revision = rooms[c].revision + 1]
        \in [status : {"none", "active", "closed"}, round : 0 .. MaxRound, revision : Nat]
  BY <1>1 DEF RoomsType
<1>4. rooms' \in RoomsType
  BY <1>1, <1>2, <1>3 DEF RoomsType
<1>5. Announce(c)
  BY DEF BumpRevision
<1>6. outbox' \in [Codes -> SUBSET Nat]
  BY <1>4, <1>5, AnnounceType
<1> QED
  BY <1>1, <1>2, <1>4, <1>6 DEF RoomsType

(* Both stakes fit the wallets they are taken from.                        *)
LEMMA FundTypes ==
  ASSUME MoneyTypeOK, LinkTypeOK, NEW c \in Codes, NEW n \in Rounds, NEW owners,
         FundRound(c, n, owners)
  PROVE  /\ wallet' \in [Accounts -> Nat] /\ escrow' \in [Codes -> [Rounds -> Int]]
         /\ staked' \subseteq Codes \X Rounds /\ deadlines' \subseteq DeadlineType
<1>1. deadlines' \subseteq DeadlineType
  <2>1. InactivityDeadline(c, n) \in DeadlineType
    <3>1. clock + Inactivity \in Nat /\ n \in Nat
      BY TicksAssumption, BoundsAssumption DEF LinkTypeOK, Rounds
    <3> QED
      BY <3>1 DEF InactivityDeadline, DeadlineType
  <2> QED
    BY <2>1 DEF FundRound, LinkTypeOK
<1>2. CASE rounds[c][n].funded \/ <<c, n>> \in staked
  BY <1>1, <1>2 DEF FundRound, MoneyTypeOK
<1>3. CASE ~(rounds[c][n].funded \/ <<c, n>> \in staked)
  <2>1. Afford(owners) /\ StakeBoth(c, n, owners)
    BY <1>3 DEF FundRound
  <2>2. wallet' \in [Accounts -> Nat]
    <3>1. \A a \in Accounts \cap owners : wallet[a] - RoundStake \in Nat
      BY <2>1 DEF Afford, MoneyTypeOK, RoundStake
    <3> QED
      BY <2>1, <3>1 DEF StakeBoth, MoneyTypeOK
  <2>3. escrow' \in [Codes -> [Rounds -> Int]]
    <3>1. escrow[c][n] + 2 * RoundStake \in Int
      BY DEF MoneyTypeOK, RoundStake
    <3>2. [escrow[c] EXCEPT ![n] = escrow[c][n] + 2 * RoundStake] \in [Rounds -> Int]
      BY <3>1 DEF MoneyTypeOK
    <3>3. escrow' = [escrow EXCEPT ![c] = [escrow[c] EXCEPT ![n] = escrow[c][n] + 2 * RoundStake]]
      BY <2>1 DEF StakeBoth, MoneyTypeOK
    <3> QED
      BY <3>2, <3>3 DEF MoneyTypeOK
  <2>4. staked' \subseteq Codes \X Rounds
    BY <2>1 DEF StakeBoth, MoneyTypeOK
  <2> QED
    BY <1>1, <2>2, <2>3, <2>4
<1> QED
  BY <1>2, <1>3

(* Settling a resolved room pays natural amounts and files a well-typed    *)
(* history row.                                                            *)
LEMMA SettleTypes ==
  ASSUME GameTypeOK, MoneyTypeOK, NEW c \in Codes, NEW r \in RoomType, r.round \in Rounds,
         r.result \in Result, SettleRound(c, r)
  PROVE  MoneyTypeOK'
<1>1. CASE HasHistory(c, r.round) \/ <<c, r.round>> \in settled
  <2>1. UNCHANGED money
    BY <1>1 DEF SettleRound
  <2> QED
    BY <2>1 DEF money, MoneyTypeOK
<1>2. CASE ~(HasHistory(c, r.round) \/ <<c, r.round>> \in settled)
  <2> DEFINE paid(a) == CASE Seated(c, a, "host") -> wallet[a] + Payout(r.result, "host")
                          [] Seated(c, a, "guest") -> wallet[a] + Payout(r.result, "guest")
                          [] OTHER -> wallet[a]
  <2>1. /\ Full(c)
        /\ settled' = settled \cup {<<c, r.round>>}
        /\ escrow' = [escrow EXCEPT ![c][r.round] = @ - 2 * RoundStake]
        /\ wallet' = [a \in Accounts |-> paid(a)]
        /\ house' = house + HouseEarnings(r.result)
        /\ history' = history \cup {HistoryRow(c, r)}
        /\ UNCHANGED <<mint, staked, recharged>>
    BY <1>2 DEF SettleRound
  <2>2. wallet' \in [Accounts -> Nat]
    <3>1. \A p : Payout(r.result, p) \in Nat
      BY DEF Payout, RoundStake, WinnerPayout
    <3>2. \A a \in Accounts : wallet[a] \in Nat
      BY DEF MoneyTypeOK
    <3>3. ASSUME NEW a \in Accounts PROVE paid(a) \in Nat
      <4>1. CASE Seated(c, a, "host")
        BY <3>1, <3>2, <4>1
      <4>2. CASE ~Seated(c, a, "host") /\ Seated(c, a, "guest")
        BY <3>1, <3>2, <4>2
      <4>3. CASE ~Seated(c, a, "host") /\ ~Seated(c, a, "guest")
        BY <3>2, <4>3
      <4> QED
        BY <4>1, <4>2, <4>3
    <3> HIDE DEF paid
    <3> QED
      BY <2>1, <3>3
  <2>3. escrow' \in [Codes -> [Rounds -> Int]]
    <3>1. escrow[c][r.round] - 2 * RoundStake \in Int
      BY DEF MoneyTypeOK, RoundStake
    <3>2. [escrow[c] EXCEPT ![r.round] = escrow[c][r.round] - 2 * RoundStake] \in [Rounds -> Int]
      BY <3>1 DEF MoneyTypeOK
    <3>3. escrow' = [escrow EXCEPT ![c] =
            [escrow[c] EXCEPT ![r.round] = escrow[c][r.round] - 2 * RoundStake]]
      BY <2>1 DEF MoneyTypeOK
    <3> QED
      BY <3>2, <3>3 DEF MoneyTypeOK
  <2>4. HistoryRow(c, r) \in HistoryType
    <3>1. seats[c]["host"] \in Accounts /\ seats[c]["guest"] \in Accounts
      BY <2>1 DEF Full, Role, GameTypeOK
    <3>2. HouseEarnings(r.result) \in {0, HousePayout} /\ (r.forfeited # NoRole) \in BOOLEAN
      BY DEF HouseEarnings
    <3> QED
      BY <3>1, <3>2 DEF HistoryRow, HistoryType
  <2>5. house' \in Nat
    BY <2>1 DEF MoneyTypeOK, HouseEarnings, HousePayout
  <2> QED
    BY <2>1, <2>2, <2>3, <2>4, <2>5 DEF MoneyTypeOK
<1> QED
  BY <1>1, <1>2

-----------------------------------------------------------------------------
(* The ways to end a round.                                                *)

(* outcome is the room r with a result: what the reconciler and the        *)
(* deadlines make of an open round.                                        *)
Ends(r, outcome) ==
  /\ outcome \in RoomType /\ outcome.result \in Result
  /\ outcome.round = r.round /\ outcome.closed = r.closed
  /\ outcome.next = r.next /\ outcome.moves = r.moves
  /\ \A p \in Role : outcome.wins[p] = IF outcome.result = WinFor(p) THEN r.wins[p] + 1
                                     ELSE r.wins[p]

(* Every way of resolving a round ends it.                                 *)
LEMMA Endings ==
  ASSUME NEW r \in RoomType
  PROVE  /\ Ends(r, ResolveCommittedMoves(r)) /\ Ends(r, ResolveInactivity(r))
         /\ Ends(r, ResolveDeadlineDraw(r))
         /\ \A p \in Role : Ends(r, Forfeit(r, p))
<1>1. Ends(r, ResolveCommittedMoves(r))
  BY ResultOfThrows, AwardRoom DEF ResolveCommittedMoves, Ends
<1>2. \A p : WinFor(p) \in Result
  BY DEF WinFor, Result
<1>3. Draw \in Result
  BY DEF Result
<1>4. Ends(r, ResolveInactivity(r))
  <2>1. PICK result \in Result : ResolveInactivity(r) = Award(r, result)
    BY <1>2, <1>3 DEF ResolveInactivity
  <2> QED
    BY <2>1, AwardRoom DEF Ends
<1>5. Ends(r, ResolveDeadlineDraw(r))
  BY <1>3, AwardRoom DEF ResolveDeadlineDraw, Ends
<1>6. ASSUME NEW p \in Role PROVE Ends(r, Forfeit(r, p))
  <2> DEFINE won == Award(r, WinFor(Opponent(p)))
  <2>1. Ends(r, won)
    BY <1>2, AwardRoom DEF Ends
  <2>2. Forfeit(r, p) = [won EXCEPT !.forfeited = p]
    BY DEF Forfeit
  <2> HIDE DEF won
  <2> QED
    BY <2>1, <2>2 DEF Ends, RoomType
<1> QED
  BY <1>1, <1>4, <1>5, <1>6

(* A step that keeps or starts room c, and opens connections to it alone.  *)
LEMMA StartedKept ==
  ASSUME TypeInv, NEW c \in Codes, rooms'[c].status # "none", rooms'[c].round # 0,
         \A e \in Codes \ {c} : rooms'[e].status = rooms[e].status /\ rooms'[e].round = rooms[e].round,
         \A k \in conns' : k \in conns \/ k.room = c
  PROVE  Started'
<1>1. \A e \in Codes : rooms'[e].status = "none" <=> rooms'[e].round = 0
  BY DEF TypeInv, Started, Round
<1>2. \A k \in conns : k.room \in Codes
  BY DEF TypeInv, TypeOK, LinkTypeOK, ConnectionType
<1>3. \A k \in conns' : rooms'[k.room].round # 0
  BY <1>2 DEF TypeInv, Started, Round
<1> QED
  BY <1>1, <1>3 DEF Started, Round

(* Ending the current round of a started room, by whatever transaction.    *)
LEMMA EndingTypes ==
  ASSUME TypeInv, NEW c \in Codes, Round(c) # 0, NEW r, Ends(Load(c), r),
         Save(c, r, TRUE), SettleRound(c, r), Announce(c),
         deadlines' \subseteq deadlines, UNCHANGED <<seats, receipts, connectivity, clock>>
  PROVE  TypeInv'
<1>1. /\ r \in RoomType /\ r.result \in Result /\ r.round = Round(c) /\ r.round \in Rounds
  BY LoadRoom DEF Ends, TypeInv, TypeOK
<1>2. SaveRoom(c, r) /\ rounds' = [rounds EXCEPT ![c][r.round] = RoundRow(r, TRUE)]
  BY DEF Save
<1>3. /\ rooms' \in RoomsType /\ wins' \in [Codes -> [Role -> Nat]]
      /\ rooms'[c].round = r.round /\ rooms'[c].status # "none"
      /\ \A e \in Codes \ {c} : rooms'[e] = rooms[e]
  BY <1>1, <1>2, SaveRows DEF TypeInv, TypeOK
<1>4. rounds' \in [Codes -> [Rounds -> RoundType]]
  BY <1>1, <1>2, RowType, WriteRound DEF TypeInv, TypeOK
<1>5. outbox' \in [Codes -> SUBSET Nat]
  BY <1>3, AnnounceType DEF TypeInv, TypeOK
<1>6. GameTypeOK'
  BY <1>3, <1>4, <1>5 DEF TypeInv, TypeOK, GameTypeOK, RoomsType
<1>7. MoneyTypeOK'
  BY <1>1, SettleTypes DEF TypeInv, TypeOK
<1>8. LinkTypeOK'
  BY DEF TypeInv, TypeOK, LinkTypeOK, connectivity
<1>9. Started'
  BY <1>1, <1>3, StartedKept DEF connectivity
<1> QED
  BY <1>6, <1>7, <1>8, <1>9 DEF TypeInv, TypeOK

-----------------------------------------------------------------------------
(* Each action keeps the types.                                            *)

(* Steps that touch no room and no coin: they add no key, connection or    *)
(* deadline of the wrong kind.                                             *)
LEMMA QuietTypes ==
  ASSUME TypeInv, UNCHANGED <<game, money>>, LinkTypeOK', \A k \in conns' : Round(k.room) # 0
  PROVE  TypeInv'
BY DEF TypeInv, TypeOK, GameTypeOK, MoneyTypeOK, Started, Round, game, money

(* A recharge adds a natural amount to one wallet.                         *)
LEMMA RechargeTypes ==
  ASSUME TypeInv, NEW a \in Accounts, NEW amount \in RechargeAmounts, NEW k \in Keys,
         RechargeCommand(a, amount, k)
  PROVE  TypeInv'
<1>1. amount \in Nat
  BY AmountsAssumption
<1>2. wallet' \in [Accounts -> Nat]
  BY <1>1 DEF RechargeCommand, TypeInv, TypeOK, MoneyTypeOK
<1>3. recharged' \in [Accounts -> [Keys -> Nat]]
  BY <1>1 DEF RechargeCommand, TypeInv, TypeOK, MoneyTypeOK
<1>4. MoneyTypeOK'
  BY <1>1, <1>2, <1>3 DEF RechargeCommand, TypeInv, TypeOK, MoneyTypeOK
<1>5. GameTypeOK' /\ LinkTypeOK'
  BY DEF RechargeCommand, TypeInv, TypeOK, GameTypeOK, LinkTypeOK, Receipt, game, connectivity
<1>6. Started'
  BY DEF RechargeCommand, TypeInv, Started, Round, game, connectivity
<1> QED
  BY <1>4, <1>5, <1>6 DEF TypeInv, TypeOK

(* Creating a room inserts its first round and its host.                   *)
LEMMA CreateTypes ==
  ASSUME TypeInv, NEW a \in Accounts, NEW c \in Codes, NEW k \in Keys, CreateCommand(a, c, k)
  PROVE  TypeInv'
<1> DEFINE row == [status |-> "active", round |-> 1, revision |-> 1]
           first == [NoRound EXCEPT !.status = "active"]
<1>1. rooms' \in RoomsType /\ rooms'[c] = row /\ \A e \in Codes \ {c} : rooms'[e] = rooms[e]
  <2>1. row \in [status : {"none", "active", "closed"}, round : 0 .. MaxRound, revision : Nat]
    BY BoundsAssumption
  <2> QED
    BY <2>1 DEF CreateCommand, TypeInv, TypeOK, GameTypeOK, RoomsType
<1>2. rounds' \in [Codes -> [Rounds -> RoundType]]
  <2>1. first \in RoundType
    BY DEF NoRound, RoundType
  <2>2. 1 \in Rounds
    BY BoundsAssumption DEF Rounds
  <2>3. rounds' = [rounds EXCEPT ![c][1] = first]
    BY DEF CreateCommand
  <2> QED
    BY <2>1, <2>2, <2>3, WriteRound DEF TypeInv, TypeOK
<1>3. seats' \in [Codes -> [Role -> Accounts \cup {NoOne}]]
  BY DEF CreateCommand, TypeInv, TypeOK, GameTypeOK
<1>4. outbox' \in [Codes -> SUBSET Nat]
  BY <1>1, AnnounceType DEF CreateCommand, TypeInv, TypeOK
<1>5. GameTypeOK'
  BY <1>1, <1>2, <1>3, <1>4 DEF CreateCommand, TypeInv, TypeOK, GameTypeOK, RoomsType
<1>6. MoneyTypeOK'
  BY DEF CreateCommand, TypeInv, TypeOK, MoneyTypeOK, money
<1>7. LinkTypeOK'
  BY DEF CreateCommand, TypeInv, TypeOK, LinkTypeOK, Receipt, connectivity
<1>8. Started'
  BY <1>1, StartedKept DEF CreateCommand, connectivity
<1> QED
  BY <1>5, <1>6, <1>7, <1>8 DEF TypeInv, TypeOK

(* Joining seats the guest, funds the round and renews both presences.     *)
LEMMA JoinTypes ==
  ASSUME TypeInv, NEW a \in Accounts, NEW c \in Codes, NEW k \in Keys, JoinCommand(a, c, k)
  PROVE  TypeInv'
<1> DEFINE r == Join(Load(c))
<1>1. Round(c) # 0
  BY DEF JoinCommand, TypeInv, Started
<1>2. r \in RoomType /\ r.round = Round(c) /\ r.round \in Rounds
  BY <1>1, LoadRoom DEF Join, RoomType, TypeInv, TypeOK
<1>3. SaveRoom(c, r) /\ rounds' = [rounds EXCEPT ![c][r.round] = RoundRow(r, TRUE)]
  BY DEF JoinCommand, Save
<1> HIDE DEF r
<1>4. /\ rooms' \in RoomsType /\ wins' \in [Codes -> [Role -> Nat]]
      /\ rooms'[c].round = r.round /\ rooms'[c].status # "none"
      /\ \A e \in Codes \ {c} : rooms'[e] = rooms[e]
  BY <1>2, <1>3, SaveRows DEF TypeInv, TypeOK
<1>5. rounds' \in [Codes -> [Rounds -> RoundType]]
  BY <1>2, <1>3, RowType, WriteRound DEF TypeInv, TypeOK
<1>6. outbox' \in [Codes -> SUBSET Nat]
  BY <1>4, AnnounceType DEF JoinCommand, TypeInv, TypeOK
<1>7. seats' \in [Codes -> [Role -> Accounts \cup {NoOne}]]
  BY DEF JoinCommand, TypeInv, TypeOK, GameTypeOK
<1>8. GameTypeOK'
  BY <1>4, <1>5, <1>6, <1>7 DEF TypeInv, TypeOK, GameTypeOK, RoomsType
<1>9. /\ wallet' \in [Accounts -> Nat] /\ escrow' \in [Codes -> [Rounds -> Int]]
      /\ staked' \subseteq Codes \X Rounds /\ deadlines' \subseteq DeadlineType
  BY <1>2, FundTypes DEF JoinCommand, TypeInv, TypeOK
<1>10. MoneyTypeOK'
  BY <1>9 DEF JoinCommand, TypeInv, TypeOK, MoneyTypeOK
<1>11. presence' \in [Codes -> [Role -> [gen : Nat, present : BOOLEAN]]]
  <2> DEFINE joined == [p \in Role |-> [gen |-> presence[c][p].gen + 1,
                                        present |-> presence[c][p].present]]
  <2>1. joined \in [Role -> [gen : Nat, present : BOOLEAN]]
    BY DEF TypeInv, TypeOK, LinkTypeOK
  <2>2. presence' = [presence EXCEPT ![c] = joined]
    BY DEF JoinCommand
  <2> HIDE DEF joined
  <2> QED
    BY <2>1, <2>2 DEF TypeInv, TypeOK, LinkTypeOK
<1>12. LinkTypeOK'
  BY <1>9, <1>11 DEF JoinCommand, TypeInv, TypeOK, LinkTypeOK, Receipt
<1>13. Started'
  BY <1>1, <1>2, <1>4, StartedKept DEF JoinCommand
<1> QED
  BY <1>8, <1>10, <1>12, <1>13 DEF TypeInv, TypeOK

(* A move or a request writes one column of the current round.             *)
LEMMA ActionTypes ==
  ASSUME TypeInv, NEW c \in Codes, NEW k \in Keys, NEW required, NEW row \in RoundType,
         RecordRoomAction(c, k, required), rounds' = [rounds EXCEPT ![c][Round(c)] = row]
  PROVE  TypeInv'
<1>1. Round(c) # 0 /\ rooms[c].status # "none"
  BY DEF RecordRoomAction, TypeInv, Started
<1>2. Round(c) \in Rounds
  BY <1>1, LoadRoom DEF TypeInv, TypeOK
<1>3. rounds' \in [Codes -> [Rounds -> RoundType]]
  BY <1>2, WriteRound DEF TypeInv, TypeOK
<1>4. /\ rooms' \in RoomsType /\ outbox' \in [Codes -> SUBSET Nat]
      /\ \A e \in Codes : /\ rooms'[e].status = rooms[e].status
                          /\ rooms'[e].round = rooms[e].round
  BY BumpRows DEF RecordRoomAction, TypeInv, TypeOK
<1>5. GameTypeOK'
  BY <1>3, <1>4 DEF RecordRoomAction, TypeInv, TypeOK, GameTypeOK, RoomsType
<1>6. MoneyTypeOK'
  BY DEF RecordRoomAction, TypeInv, TypeOK, MoneyTypeOK, money
<1>7. LinkTypeOK'
  BY DEF RecordRoomAction, TypeInv, TypeOK, LinkTypeOK, Receipt, connectivity
<1>8. Started'
  BY <1>1, <1>4, StartedKept DEF RecordRoomAction, connectivity, Round
<1> QED
  BY <1>5, <1>6, <1>7, <1>8 DEF TypeInv, TypeOK

(* The row a move leaves.                                                  *)
WithMove(c, p, throw) ==
  [Row(c) EXCEPT !.moves = [Row(c).moves EXCEPT ![p] = throw]]
(* The row a request leaves.                                               *)
WithRequest(c, p) == [Row(c) EXCEPT !.next = Row(c).next \cup {p}]

(* A move leaves a well-typed row.                                         *)
LEMMA MoveRow ==
  ASSUME TypeInv, NEW c \in Codes, Round(c) # 0, NEW p \in Role, NEW throw \in Throws
  PROVE  WithMove(c, p, throw) \in RoundType
<1>1. Row(c) \in RoundType
  BY LoadRoom DEF TypeInv, TypeOK
<1>2. throw \in Throw
  BY ThrowsAssumption
<1>3. [Row(c).moves EXCEPT ![p] = throw] \in [Role -> Throw \cup {NoMove}]
  BY <1>1, <1>2 DEF RoundType
<1> QED
  BY <1>1, <1>3 DEF WithMove, RoundType

(* A request writes one well-typed row.                                    *)
LEMMA RequestRow ==
  ASSUME TypeInv, NEW c \in Codes, Round(c) # 0, NEW p \in Role
  PROVE  /\ WithRequest(c, p) \in RoundType
         /\ [rounds EXCEPT ![c][Round(c)].next = @ \cup {p}] =
              [rounds EXCEPT ![c][Round(c)] = WithRequest(c, p)]
<1>1. Row(c) \in RoundType /\ Round(c) \in Rounds
  BY LoadRoom DEF TypeInv, TypeOK
<1>2. WithRequest(c, p) \in RoundType
  BY <1>1 DEF WithRequest, RoundType
<1>3. rounds \in [Codes -> [Rounds -> RoundType]]
  BY DEF TypeInv, TypeOK, GameTypeOK
<1>4. [rounds EXCEPT ![c][Round(c)].next = @ \cup {p}] =
        [rounds EXCEPT ![c][Round(c)] = WithRequest(c, p)]
  BY <1>1, <1>3 DEF WithRequest, Row
<1> QED
  BY <1>2, <1>4

(* Submitting a move writes one of the throws into the round.              *)
LEMMA SubmitMoveTypes ==
  ASSUME TypeInv, NEW a, NEW c \in Codes, NEW throw \in Throws, NEW k \in Keys,
         SubmitMoveCommand(a, c, throw, k)
  PROVE  TypeInv'
<1>1. PICK p \in Role : /\ RecordRoomAction(c, k, "active")
                        /\ rounds' = [rounds EXCEPT ![c][Round(c)].moves[p] = throw]
  BY DEF SubmitMoveCommand
<1>2. Round(c) # 0
  BY <1>1 DEF RecordRoomAction, TypeInv, Started
<1>3. WithMove(c, p, throw) \in RoundType
  BY <1>2, MoveRow
<1>4. Round(c) \in Rounds /\ rounds \in [Codes -> [Rounds -> RoundType]]
  BY <1>2, LoadRoom DEF TypeInv, TypeOK, GameTypeOK
<1>5. rounds' = [rounds EXCEPT ![c][Round(c)] = WithMove(c, p, throw)]
  BY <1>1, <1>4 DEF WithMove, Row
<1> QED
  BY <1>1, <1>3, <1>5, ActionTypes

(* Requesting the next round adds a seated role to the requests.           *)
LEMMA RequestNextRoundTypes ==
  ASSUME TypeInv, NEW a, NEW c \in Codes, NEW k \in Keys, RequestNextRoundCommand(a, c, k)
  PROVE  TypeInv'
<1>1. PICK p \in Role : /\ RecordRoomAction(c, k, "resolved")
                        /\ rounds' = [rounds EXCEPT ![c][Round(c)].next = @ \cup {p}]
  BY DEF RequestNextRoundCommand
<1>2. Round(c) # 0
  BY <1>1 DEF RecordRoomAction, TypeInv, Started
<1>3. WithRequest(c, p) \in RoundType
  BY <1>2, RequestRow
<1>4. rounds' = [rounds EXCEPT ![c][Round(c)] = WithRequest(c, p)]
  BY <1>1, <1>2, RequestRow
<1> QED
  BY <1>1, <1>3, <1>4, ActionTypes

(* Leaving closes the room and keeps its round as it was loaded.           *)
LEMMA LeaveTypes ==
  ASSUME TypeInv, NEW a, NEW c \in Codes, NEW k \in Keys, LeaveCommand(a, c, k)
  PROVE  TypeInv'
<1> DEFINE r == Leave(Load(c))
<1>1. Round(c) # 0
  BY DEF LeaveCommand, TypeInv, Started
<1>2. /\ r \in RoomType /\ r.round = Round(c) /\ r.round \in Rounds /\ Row(c).funded \in BOOLEAN
  BY <1>1, LoadRoom DEF Leave, RoomType, RoundType, TypeInv, TypeOK
<1>3. SaveRoom(c, r) /\ rounds' = [rounds EXCEPT ![c][r.round] = RoundRow(r, Row(c).funded)]
  BY DEF LeaveCommand, Save
<1> HIDE DEF r
<1>4. /\ rooms' \in RoomsType /\ wins' \in [Codes -> [Role -> Nat]]
      /\ rooms'[c].round = r.round /\ rooms'[c].status # "none"
      /\ \A e \in Codes \ {c} : rooms'[e] = rooms[e]
  BY <1>2, <1>3, SaveRows DEF TypeInv, TypeOK
<1>5. rounds' \in [Codes -> [Rounds -> RoundType]]
  BY <1>2, <1>3, RowType, WriteRound DEF TypeInv, TypeOK
<1>6. outbox' \in [Codes -> SUBSET Nat]
  BY <1>4, AnnounceType DEF LeaveCommand, TypeInv, TypeOK
<1>7. GameTypeOK'
  BY <1>4, <1>5, <1>6 DEF LeaveCommand, TypeInv, TypeOK, GameTypeOK, RoomsType
<1>8. MoneyTypeOK'
  BY DEF LeaveCommand, TypeInv, TypeOK, MoneyTypeOK, money
<1>9. LinkTypeOK'
  BY DEF LeaveCommand, TypeInv, TypeOK, LinkTypeOK, Receipt, connectivity
<1>10. Started'
  BY <1>1, <1>2, <1>4, StartedKept DEF LeaveCommand, connectivity
<1> QED
  BY <1>7, <1>8, <1>9, <1>10 DEF TypeInv, TypeOK

(* Reconciling two committed moves ends the round.                         *)
LEMMA ResolveTypes ==
  ASSUME TypeInv, NEW c \in Codes, ReconcileResolve(c)
  PROVE  TypeInv'
<1>1. Round(c) # 0
  BY DEF ReconcileResolve, ClaimResolve, TypeInv, Started
<1>2. Ends(Load(c), ResolveCommittedMoves(Load(c)))
  BY <1>1, LoadRoom, Endings DEF TypeInv, TypeOK
<1> QED
  BY <1>1, <1>2, EndingTypes DEF ReconcileResolve, OtherDeadlines

(* Advancing inserts and funds the round after the current one.            *)
LEMMA AdvanceTypes ==
  ASSUME TypeInv, NEW c \in Codes, ReconcileAdvance(c)
  PROVE  TypeInv'
<1> DEFINE r == Advance(Load(c))
           n == Round(c) + 1
           old == [Row(c) EXCEPT !.status = "resolved"]
           released == [rounds EXCEPT ![c][Round(c)] = old]
<1>1. Round(c) # 0
  BY DEF ReconcileAdvance, ClaimAdvance, TypeInv, Started
<1>2. Round(c) \in Rounds /\ Load(c) \in RoomType /\ Load(c).round = Round(c) /\ Row(c) \in RoundType
  BY <1>1, LoadRoom DEF TypeInv, TypeOK
<1>3. n \in Rounds
  BY <1>2, BoundsAssumption DEF ReconcileAdvance, Rounds
<1>4. r \in RoomType /\ r.round = n
  <2>1. Load(c).round + 1 \in Nat
    BY <1>2, BoundsAssumption DEF Rounds
  <2>2. [p \in Role |-> NoMove] \in [Role -> Throw \cup {NoMove}]
    OBVIOUS
  <2> QED
    BY <1>2, <2>1, <2>2 DEF Advance, RoomType
<1>5. old \in RoundType
  BY <1>2 DEF RoundType
<1>6. rounds \in [Codes -> [Rounds -> RoundType]]
  BY DEF TypeInv, TypeOK, GameTypeOK
<1>7. rounds' = [released EXCEPT ![c][n] = RoundRow(r, TRUE)]
  BY <1>2, <1>6 DEF ReconcileAdvance, Row
<1>8. RoundRow(r, TRUE) \in RoundType
  BY <1>4, RowType
<1>9. SaveRoom(c, r) /\ FundRound(c, n, {seats[c][p] : p \in Role}) /\ Announce(c)
  BY DEF ReconcileAdvance
<1> HIDE DEF r, n, old
<1>10. released \in [Codes -> [Rounds -> RoundType]]
  BY <1>2, <1>5, <1>6
<1>11. rounds' \in [Codes -> [Rounds -> RoundType]]
  BY <1>3, <1>7, <1>8, <1>10
<1>12. /\ rooms' \in RoomsType /\ wins' \in [Codes -> [Role -> Nat]]
       /\ rooms'[c].round = n /\ rooms'[c].status # "none"
       /\ \A e \in Codes \ {c} : rooms'[e] = rooms[e]
  BY <1>3, <1>4, <1>9, SaveRows DEF TypeInv, TypeOK
<1>13. outbox' \in [Codes -> SUBSET Nat]
  BY <1>9, <1>12, AnnounceType DEF TypeInv, TypeOK
<1>14. GameTypeOK'
  BY <1>11, <1>12, <1>13 DEF ReconcileAdvance, TypeInv, TypeOK, GameTypeOK, RoomsType
<1>15. /\ wallet' \in [Accounts -> Nat] /\ escrow' \in [Codes -> [Rounds -> Int]]
       /\ staked' \subseteq Codes \X Rounds /\ deadlines' \subseteq DeadlineType
  BY <1>3, <1>9, FundTypes DEF TypeInv, TypeOK
<1>16. MoneyTypeOK'
  BY <1>15 DEF ReconcileAdvance, TypeInv, TypeOK, MoneyTypeOK
<1>17. LinkTypeOK'
  BY <1>15 DEF ReconcileAdvance, TypeInv, TypeOK, LinkTypeOK, connectivity
<1>18. n # 0
  BY <1>3 DEF Rounds
<1>19. Started'
  BY <1>12, <1>18, StartedKept DEF ReconcileAdvance, connectivity
<1> QED
  BY <1>14, <1>16, <1>17, <1>19 DEF TypeInv, TypeOK

(* Opening a connection leases it and may make its role present.           *)
LEMMA OpenTypes ==
  ASSUME TypeInv, NEW a \in Accounts, NEW c \in Codes, NEW id \in Conns, OpenConnection(a, c, id)
  PROVE  TypeInv'
<1>1. PICK p \in Role :
        LET seat == presence[c][p]
            gen == IF seat.gen = 0 THEN 1 ELSE seat.gen
        IN
        /\ rooms[c].status # "none"
        /\ conns' = conns \cup {Connection(id, c, p)}
        /\ \/ UNCHANGED <<presence, deadlines, rooms, outbox>>
           \/ /\ presence' = [presence EXCEPT ![c][p] = [gen |-> gen, present |-> TRUE]]
              /\ deadlines' = WithoutGrace(c, p, gen)
              /\ BumpRevision(c)
        /\ UNCHANGED <<seats, wins, rounds, money, receipts, clock>>
  BY DEF OpenConnection
<1>2. Round(c) # 0
  BY <1>1 DEF TypeInv, Started
<1>3. conns' \subseteq ConnectionType
  <2>1. clock + Lease \in Nat
    BY TicksAssumption DEF TypeInv, TypeOK, LinkTypeOK
  <2> QED
    BY <1>1, <2>1 DEF Connection, ConnectionType, TypeInv, TypeOK, LinkTypeOK
<1>4. /\ rooms' \in RoomsType /\ outbox' \in [Codes -> SUBSET Nat]
      /\ \A e \in Codes : /\ rooms'[e].status = rooms[e].status
                          /\ rooms'[e].round = rooms[e].round
  BY <1>1, BumpRows DEF TypeInv, TypeOK, GameTypeOK, RoomsType
<1>5. GameTypeOK'
  BY <1>1, <1>4 DEF TypeInv, TypeOK, GameTypeOK, RoomsType
<1>6. MoneyTypeOK'
  BY <1>1 DEF TypeInv, TypeOK, MoneyTypeOK, money
<1>7. presence' \in [Codes -> [Role -> [gen : Nat, present : BOOLEAN]]]
  <2> DEFINE gen == IF presence[c][p].gen = 0 THEN 1 ELSE presence[c][p].gen
             seat == [gen |-> gen, present |-> TRUE]
  <2>1. presence \in [Codes -> [Role -> [gen : Nat, present : BOOLEAN]]]
    BY DEF TypeInv, TypeOK, LinkTypeOK
  <2>2. seat \in [gen : Nat, present : BOOLEAN]
    BY <2>1
  <2>3. \/ presence' = presence
        \/ presence' = [presence EXCEPT ![c] = [presence[c] EXCEPT ![p] = seat]]
    BY <1>1, <2>1
  <2> HIDE DEF seat
  <2>4. [presence[c] EXCEPT ![p] = seat] \in [Role -> [gen : Nat, present : BOOLEAN]]
    BY <2>1, <2>2
  <2> QED
    BY <2>1, <2>3, <2>4
<1>8. LinkTypeOK'
  BY <1>1, <1>3, <1>7 DEF TypeInv, TypeOK, LinkTypeOK, WithoutGrace
<1>9. Started'
  BY <1>1, <1>2, <1>4, StartedKept DEF Connection, Round
<1> QED
  BY <1>5, <1>6, <1>8, <1>9 DEF TypeInv, TypeOK

(* Renewing a connection only moves its lease.                             *)
LEMMA RenewTypes ==
  ASSUME TypeInv, NEW k \in conns, RenewConnection(k)
  PROVE  TypeInv'
<1>1. clock + Lease \in Nat /\ k \in ConnectionType
  BY TicksAssumption DEF TypeInv, TypeOK, LinkTypeOK
<1>2. conns' \subseteq ConnectionType
  BY <1>1 DEF RenewConnection, Connection, ConnectionType, TypeInv, TypeOK, LinkTypeOK
<1>3. LinkTypeOK'
  BY <1>2 DEF RenewConnection, TypeInv, TypeOK, LinkTypeOK
<1>4. \A l \in conns' : Round(l.room) # 0
  BY DEF RenewConnection, Connection, TypeInv, Started
<1> QED
  BY <1>3, <1>4, QuietTypes DEF RenewConnection

(* Losing a connection may start a grace period of the current round.      *)
LEMMA DisappearTypes ==
  ASSUME TypeInv, NEW k \in conns, NEW at \in Nat, Disappear(k, at)
  PROVE  TypeInv'
<1> DEFINE c == k.room
           p == k.role
           gen == presence[c][p].gen + 1
           seat == [gen |-> gen, present |-> FALSE]
<1>1. c \in Codes /\ p \in Role /\ Round(c) # 0
  BY DEF TypeInv, TypeOK, LinkTypeOK, ConnectionType, Started
<1>2. Round(c) \in Rounds
  BY <1>1, LoadRoom DEF TypeInv, TypeOK
<1>3. presence \in [Codes -> [Role -> [gen : Nat, present : BOOLEAN]]]
  BY DEF TypeInv, TypeOK, LinkTypeOK
<1>4. gen \in Nat /\ seat \in [gen : Nat, present : BOOLEAN]
  BY <1>1, <1>3
<1>5. /\ conns' = conns \ {k}
      /\ UNCHANGED <<seats, wins, rounds, money, receipts, clock>>
      /\ \/ UNCHANGED <<presence, deadlines, rooms, outbox>>
         \/ /\ presence' = [presence EXCEPT ![c] = [presence[c] EXCEPT ![p] = seat]]
            /\ deadlines' = deadlines \cup {DisconnectDeadline(c, p, gen, at + Grace)}
            /\ BumpRevision(c)
  BY <1>1, <1>3 DEF Disappear
<1> HIDE DEF c, p, gen, seat
<1>6. DisconnectDeadline(c, p, gen, at + Grace) \in DeadlineType
  <2>1. at + Grace \in Nat
    BY TicksAssumption
  <2> QED
    BY <1>1, <1>2, <1>4, <2>1 DEF DisconnectDeadline, DeadlineType
<1>7. presence' \in [Codes -> [Role -> [gen : Nat, present : BOOLEAN]]]
  <2>1. [presence[c] EXCEPT ![p] = seat] \in [Role -> [gen : Nat, present : BOOLEAN]]
    BY <1>1, <1>3, <1>4
  <2> QED
    BY <1>1, <1>3, <1>5, <2>1
<1>8. /\ rooms' \in RoomsType /\ outbox' \in [Codes -> SUBSET Nat]
      /\ \A e \in Codes : /\ rooms'[e].status = rooms[e].status
                          /\ rooms'[e].round = rooms[e].round
  BY <1>1, <1>5, BumpRows DEF TypeInv, TypeOK, GameTypeOK, RoomsType
<1>9. GameTypeOK'
  BY <1>5, <1>8 DEF TypeInv, TypeOK, GameTypeOK, RoomsType
<1>10. MoneyTypeOK'
  BY <1>5 DEF TypeInv, TypeOK, MoneyTypeOK, money
<1>11. LinkTypeOK'
  BY <1>5, <1>6, <1>7 DEF TypeInv, TypeOK, LinkTypeOK
<1>12. Started'
  BY <1>1, <1>5, <1>8, StartedKept DEF Round, TypeInv, Started
<1> QED
  BY <1>9, <1>10, <1>11, <1>12 DEF TypeInv, TypeOK

(* Cancelling deadlines changes nothing else.                              *)
LEMMA CancelTypes ==
  ASSUME TypeInv, deadlines' \subseteq deadlines,
         UNCHANGED <<game, money, receipts, connectivity, clock>>
  PROVE  TypeInv'
<1>1. LinkTypeOK'
  BY DEF TypeInv, TypeOK, LinkTypeOK, connectivity
<1>2. \A l \in conns' : Round(l.room) # 0
  BY DEF TypeInv, Started, connectivity
<1> QED
  BY <1>1, <1>2, QuietTypes

(* A deadline settles a round through one of the endings.                  *)
LEMMA SettleDeadlineTypes ==
  ASSUME TypeInv, NEW d \in deadlines, NEW r,
         Round(d.room) # 0 => Ends(Load(d.room), r), SettleDeadline(d, r)
  PROVE  TypeInv'
<1>1. d.room \in Codes
  BY DEF TypeInv, TypeOK, LinkTypeOK, DeadlineType
<1>2. Round(d.room) # 0
  <2>1. PICK e \in DueIn(d.room) : ClaimDeadline(e)
    BY DEF SettleDeadline, ClaimRoom
  <2>2. e.room = d.room /\ rooms[d.room].status # "none"
    BY <2>1 DEF DueIn, ClaimDeadline, ActiveRound
  <2> QED
    BY <1>1, <2>2 DEF TypeInv, Started
<1> QED
  BY <1>1, <1>2, EndingTypes DEF SettleDeadline, OtherDeadlines

(* The deadline worker cancels deadlines or ends a round.                  *)
LEMMA ProcessNextDeadlineTypes ==
  ASSUME TypeInv, ProcessNextDeadline
  PROVE  TypeInv'
<1>1. ASSUME NEW c \in Codes, CancelInapplicable(c) PROVE TypeInv'
  BY <1>1, CancelTypes DEF CancelInapplicable
<1>2. ASSUME NEW d \in deadlines, CancelUnclaimed(d) PROVE TypeInv'
  BY <1>2, CancelTypes DEF CancelUnclaimed
<1>3. ASSUME NEW d \in deadlines, CancelDeadline(d) PROVE TypeInv'
  BY <1>3, CancelTypes DEF CancelDeadline
<1>4. ASSUME NEW d \in deadlines, Round(d.room) # 0
      PROVE  Load(d.room) \in RoomType
  BY <1>4, LoadRoom DEF TypeInv, TypeOK, LinkTypeOK, DeadlineType
<1>5. ASSUME NEW d \in deadlines, ForfeitAbsent(d) PROVE TypeInv'
  <2>1. d.role \in Role
    BY <1>5 DEF ForfeitAbsent, TypeInv, TypeOK, LinkTypeOK, DeadlineType
  <2>2. Round(d.room) # 0 => Ends(Load(d.room), Forfeit(Load(d.room), d.role))
    BY <1>4, <2>1, Endings
  <2> QED
    BY <1>5, <2>2, SettleDeadlineTypes DEF ForfeitAbsent
<1>6. ASSUME NEW d \in deadlines, DrawAbsent(d) PROVE TypeInv'
  BY <1>4, <1>6, Endings, SettleDeadlineTypes DEF DrawAbsent
<1>7. ASSUME NEW d \in deadlines, ResolveIdle(d) PROVE TypeInv'
  BY <1>4, <1>7, Endings, SettleDeadlineTypes DEF ResolveIdle
<1> QED
  BY <1>1, <1>2, <1>3, <1>5, <1>6, <1>7 DEF ProcessNextDeadline

(* Every step of the store keeps the types.                                *)
LEMMA TypeStep ==
  ASSUME TypeInv, [Next]_vars
  PROVE  TypeInv'
<1>1. ASSUME Command PROVE TypeInv'
  BY <1>1, RechargeTypes, CreateTypes, JoinTypes, SubmitMoveTypes, RequestNextRoundTypes,
     LeaveTypes DEF Command
<1>2. ASSUME NEW k \in receipts, CleanupCommandReceipts(k) PROVE TypeInv'
  <2>1. LinkTypeOK' /\ \A l \in conns' : Round(l.room) # 0
    BY <1>2 DEF CleanupCommandReceipts, TypeInv, TypeOK, LinkTypeOK, Started, connectivity
  <2> QED
    BY <1>2, <2>1, QuietTypes DEF CleanupCommandReceipts
<1>3. ASSUME NEW c \in Codes, Reconcile(c) PROVE TypeInv'
  BY <1>3, ResolveTypes, AdvanceTypes DEF Reconcile
<1>4. ASSUME Connect PROVE TypeInv'
  <2>1. ASSUME NEW k \in conns, CloseConnection(k) \/ ReapExpiredConnection(k) PROVE TypeInv'
    <3>1. clock \in Nat /\ k.lease \in Nat
      BY DEF TypeInv, TypeOK, LinkTypeOK, ConnectionType
    <3> QED
      BY <2>1, <3>1, DisappearTypes DEF CloseConnection, ReapExpiredConnection
  <2>2. ASSUME NEW k \in conns, DeleteSession(k) PROVE TypeInv'
    <3>1. LinkTypeOK' /\ \A l \in conns' : Round(l.room) # 0
      BY <2>2 DEF DeleteSession, TypeInv, TypeOK, LinkTypeOK, Started
    <3> QED
      BY <2>2, <3>1, QuietTypes DEF DeleteSession
  <2> QED
    BY <1>4, <2>1, <2>2, OpenTypes, RenewTypes DEF Connect
<1>5. ASSUME Tick PROVE TypeInv'
  <2>1. LinkTypeOK' /\ \A l \in conns' : Round(l.room) # 0
    BY <1>5 DEF Tick, TypeInv, TypeOK, LinkTypeOK, Started, connectivity
  <2> QED
    BY <1>5, <2>1, QuietTypes DEF Tick
<1>6. ASSUME UNCHANGED vars PROVE TypeInv'
  <2>1. LinkTypeOK' /\ \A l \in conns' : Round(l.room) # 0
    BY <1>6 DEF vars, TypeInv, TypeOK, LinkTypeOK, Started, connectivity
  <2> QED
    BY <1>6, <2>1, QuietTypes DEF vars
<1> QED
  BY <1>1, <1>2, <1>3, <1>4, <1>5, <1>6, ProcessNextDeadlineTypes DEF Next

(* An empty database is well typed.                                        *)
LEMMA TypeInit ==
  ASSUME Init
  PROVE  TypeInv
<1>1. NoRound \in RoundType /\ NoRoom.status = "none" /\ NoRoom.round = 0
  BY DEF NoRound, RoundType, NoRoom
<1>2. NoRoom \in [status : {"none", "active", "closed"}, round : 0 .. MaxRound, revision : Nat]
  BY BoundsAssumption DEF NoRoom
<1>3. GameTypeOK
  BY <1>1, <1>2 DEF Init, GameTypeOK
<1>4. MoneyTypeOK
  BY DEF Init, MoneyTypeOK
<1>5. LinkTypeOK
  BY DEF Init, LinkTypeOK
<1>6. Started
  BY <1>1 DEF Init, Started, Round
<1> QED
  BY <1>3, <1>4, <1>5, <1>6 DEF TypeInv, TypeOK

(* The inductive invariant holds in every reachable state.                 *)
LEMMA TypeInvariance == Spec => []TypeInv
BY TypeInit, TypeStep, PTL DEF Spec

(* Every table keeps the ranges of its columns: no transaction of          *)
(* commands.go, reconciliation.go or deadlines.go overdraws a wallet,      *)
(* leaves a round in the status settling or files a result that is none.   *)
THEOREM Typing == Spec => []TypeOK
<1>1. TypeInv => TypeOK
  BY DEF TypeInv
<1> QED
  BY <1>1, TypeInvariance, PTL

-----------------------------------------------------------------------------
(* Every revision a transaction takes has its outbox row.                  *)

(* A room that does not exist has taken no revision.                       *)
Announced(c) ==
  /\ outbox[c] = 1 .. rooms[c].revision
  /\ rooms[c].status = "none" => rooms[c].revision = 0

RevisionInv == \A c \in Codes : Announced(c)

(* What a transaction does to the revision of the room c.                  *)
Takes(c) == /\ rooms'[c].revision = rooms[c].revision + 1
            /\ rooms'[c].status # "none"
            /\ outbox' = [outbox EXCEPT ![c] = @ \cup {rooms'[c].revision}]
            /\ \A d \in Codes \ {c} : rooms'[d] = rooms[d]

(* Taking the next revision with its announcement keeps the outbox whole.  *)
LEMMA TakesRevision ==
  ASSUME TypeInv, RevisionInv, NEW c \in Codes, Takes(c)
  PROVE  RevisionInv'
<1>1. rooms[c].revision \in Nat /\ outbox \in [Codes -> SUBSET Nat]
  BY DEF TypeInv, TypeOK, GameTypeOK
<1>2. outbox'[c] = outbox[c] \cup {rooms'[c].revision}
  BY <1>1 DEF Takes
<1>3. Announced(c)'
  BY <1>1, <1>2 DEF Takes, RevisionInv, Announced
<1>4. \A d \in Codes \ {c} : outbox'[d] = outbox[d]
  BY <1>1 DEF Takes
<1>5. \A d \in Codes \ {c} : Announced(d)'
  BY <1>4 DEF Takes, RevisionInv, Announced
<1> QED
  BY <1>3, <1>5 DEF RevisionInv

(* A step that touches neither revisions nor the outbox.                   *)
LEMMA TakesNone ==
  ASSUME RevisionInv, UNCHANGED <<rooms, outbox>>
  PROVE  RevisionInv'
BY DEF RevisionInv, Announced

(* The three ways the store writes a revision.                             *)
LEMMA SaveTakes ==
  ASSUME TypeInv, NEW c \in Codes, NEW r, SaveRoom(c, r), Announce(c)
  PROVE  Takes(c)
BY DEF SaveRoom, Announce, Takes, TypeInv, TypeOK, GameTypeOK

(* Presence and players' actions bump the revision of a room that exists.  *)
LEMMA BumpTakes ==
  ASSUME TypeInv, NEW c \in Codes, rooms[c].status # "none", BumpRevision(c)
  PROVE  Takes(c)
BY DEF BumpRevision, Announce, Takes, TypeInv, TypeOK, GameTypeOK

(* A new room starts with revision 1.                                      *)
LEMMA CreateTakes ==
  ASSUME TypeInv, RevisionInv, NEW a \in Accounts, NEW c \in Codes, NEW k \in Keys,
         CreateCommand(a, c, k)
  PROVE  Takes(c)
BY DEF CreateCommand, Announce, Takes, TypeInv, TypeOK, GameTypeOK, RevisionInv, Announced

Revised == (\E c \in Codes : Takes(c)) \/ UNCHANGED <<rooms, outbox>>

(* Each command of a player takes one revision of its room, but a recharge.*)
LEMMA CommandRevises ==
  ASSUME TypeInv, RevisionInv, Command
  PROVE  Revised
<1>1. ASSUME NEW a \in Accounts, NEW k \in Keys, NEW amount \in RechargeAmounts,
             RechargeCommand(a, amount, k)
      PROVE  Revised
  BY <1>1 DEF RechargeCommand, game, Revised
<1>2. ASSUME NEW a \in Accounts, NEW k \in Keys, NEW c \in Codes, JoinCommand(a, c, k)
      PROVE  Revised
  BY <1>2, SaveTakes DEF JoinCommand, Save, Revised
<1>3. ASSUME NEW c \in Codes, NEW k \in Keys, NEW required, RecordRoomAction(c, k, required)
      PROVE  Revised
  BY <1>3, BumpTakes DEF RecordRoomAction, Revised
<1>4. ASSUME NEW a \in Accounts, NEW k \in Keys, NEW c \in Codes, NEW throw \in Throws,
             SubmitMoveCommand(a, c, throw, k)
      PROVE  Revised
  BY <1>3, <1>4 DEF SubmitMoveCommand
<1>5. ASSUME NEW a \in Accounts, NEW k \in Keys, NEW c \in Codes, RequestNextRoundCommand(a, c, k)
      PROVE  Revised
  BY <1>3, <1>5 DEF RequestNextRoundCommand
<1>6. ASSUME NEW a \in Accounts, NEW k \in Keys, NEW c \in Codes, LeaveCommand(a, c, k)
      PROVE  Revised
  BY <1>6, SaveTakes DEF LeaveCommand, Save, Revised
<1> QED
  BY <1>1, <1>2, <1>4, <1>5, <1>6, CreateTakes DEF Command, Revised

(* The reconciler and the deadline worker save a room or leave it alone.   *)
LEMMA WorkersRevise ==
  ASSUME TypeInv, (\E c \in Codes : Reconcile(c)) \/ ProcessNextDeadline
  PROVE  Revised
<1>1. ASSUME NEW c \in Codes, ReconcileResolve(c) PROVE Revised
  BY <1>1, SaveTakes DEF ReconcileResolve, Save, Revised
<1>2. ASSUME NEW c \in Codes, ReconcileAdvance(c) PROVE Revised
  BY <1>2, SaveTakes DEF ReconcileAdvance, Revised
<1>3. ASSUME NEW d \in deadlines, NEW r, SettleDeadline(d, r) PROVE Revised
  <2>1. d.room \in Codes
    BY DEF TypeInv, TypeOK, LinkTypeOK, DeadlineType
  <2> QED
    BY <1>3, <2>1, SaveTakes DEF SettleDeadline, Save, Revised
<1>4. ASSUME NEW c \in Codes, CancelInapplicable(c) PROVE Revised
  BY <1>4 DEF CancelInapplicable, game, Revised
<1>5. ASSUME NEW d \in deadlines, CancelUnclaimed(d) \/ CancelDeadline(d) PROVE Revised
  BY <1>5 DEF CancelUnclaimed, CancelDeadline, game, Revised
<1>6. ASSUME NEW d \in deadlines, ForfeitAbsent(d) \/ DrawAbsent(d) \/ ResolveIdle(d)
      PROVE  Revised
  BY <1>3, <1>6 DEF ForfeitAbsent, DrawAbsent, ResolveIdle
<1> QED
  BY <1>1, <1>2, <1>4, <1>5, <1>6 DEF Reconcile, ProcessNextDeadline

(* A player who appears or disappears takes a revision.                    *)
LEMMA ConnectRevises ==
  ASSUME TypeInv, Connect
  PROVE  Revised
<1>1. ASSUME NEW a \in Accounts, NEW c \in Codes, NEW id \in Conns, OpenConnection(a, c, id)
      PROVE  Revised
  BY <1>1, BumpTakes DEF OpenConnection, Revised
<1>2. ASSUME NEW k \in conns, NEW at, Disappear(k, at) PROVE Revised
  <2>1. k.room \in Codes /\ rooms[k.room].status # "none"
    BY DEF TypeInv, TypeOK, LinkTypeOK, ConnectionType, Started, Round
  <2> QED
    BY <1>2, <2>1, BumpTakes DEF Disappear, Revised
<1>3. ASSUME NEW k \in conns, CloseConnection(k) \/ ReapExpiredConnection(k) PROVE Revised
  BY <1>2, <1>3 DEF CloseConnection, ReapExpiredConnection
<1>4. ASSUME NEW k \in conns, RenewConnection(k) \/ DeleteSession(k) PROVE Revised
  BY <1>4 DEF RenewConnection, DeleteSession, game, Revised
<1> QED
  BY <1>1, <1>3, <1>4 DEF Connect

(* So every step takes one revision and announces it, or takes none.       *)
LEMMA StepRevises ==
  ASSUME TypeInv, RevisionInv, [Next]_vars
  PROVE  Revised
<1>1. ASSUME NEW k \in receipts, CleanupCommandReceipts(k) PROVE Revised
  BY <1>1 DEF CleanupCommandReceipts, game, Revised
<1>2. CASE Tick
  BY <1>2 DEF Tick, game, Revised
<1>3. CASE UNCHANGED vars
  BY <1>3 DEF vars, game, Revised
<1> QED
  BY <1>1, <1>2, <1>3, CommandRevises, WorkersRevise, ConnectRevises DEF Next

(* The outbox is whole in every reachable state.                           *)
LEMMA RevisionInvariance == Spec => []RevisionInv
<1>1. Init => RevisionInv
  BY DEF Init, RevisionInv, Announced, NoRoom
<1>2. TypeInv /\ RevisionInv /\ [Next]_vars => RevisionInv'
  BY StepRevises, TakesRevision, TakesNone DEF Revised
<1> QED
  BY <1>1, <1>2, TypeInvariance, PTL DEF Spec

(* BumpRevision, save and AnnounceRevision are called in one transaction:  *)
(* no revision of any room is committed without its outbox row, and no row *)
(* announces a revision that was not committed.                            *)
THEOREM RevisionsAnnounced == Spec => []EveryRevisionAnnounced
<1>1. RevisionInv => EveryRevisionAnnounced
  BY DEF RevisionInv, Announced, EveryRevisionAnnounced
<1> QED
  BY <1>1, RevisionInvariance, PTL

=============================================================================
