---------------------------- MODULE LedgerProofs ----------------------------
(***************************************************************************)
(* The ledger and the rounds of RoomStore agree, for any number of rooms,  *)
(* accounts and connections, any bounds and any timing constants.          *)
(***************************************************************************)
EXTENDS RoomStoreProofs

(* What the ledger says of one round: its escrow, history and business     *)
(* keys are those of the row.                                              *)
FiledAs(c, n) ==
  [room |-> c, round |-> n, host |-> seats[c]["host"], guest |-> seats[c]["guest"],
   result |-> rounds[c][n].result, forfeit |-> rounds[c][n].forfeited # NoRole,
   earnings |-> HouseEarnings(rounds[c][n].result)]

Filed(c, n) == {h \in history : h.room = c /\ h.round = n}

Booked(c, n) ==
  /\ escrow[c][n] = IF Open(c, n) THEN 2 * RoundStake ELSE 0
  /\ Filed(c, n) = IF Finished(c, n) THEN {FiledAs(c, n)} ELSE {}
  /\ <<c, n>> \in settled <=> Finished(c, n)
  /\ <<c, n>> \in staked <=> rounds[c][n].funded

(* What the rows of one room say of its rounds.  A result needs both       *)
(* players, and a room is never without its host.                          *)
Ordered(c, n) ==
  /\ n < Round(c) => Finished(c, n) /\ rounds[c][n].next = Role
  /\ n > Round(c) => rounds[c][n] = NoRound
  /\ Open(c, n) => rooms[c].status = "active" /\ Full(c)
  /\ Finished(c, n) => Full(c)

Hosted(c) == rooms[c].status # "none" => seats[c]["host"] # NoOne

RoomLedger(c) == Hosted(c) /\ \A n \in Rounds : Booked(c, n) /\ Ordered(c, n)

LedgerInv == \A c \in Codes : RoomLedger(c)

-----------------------------------------------------------------------------
(* Frames: what a transaction on one room leaves of the others, and of its *)
(* own room when no coin moves.                                            *)

SameRows(d) == rooms'[d] = rooms[d] /\ seats'[d] = seats[d] /\ rounds'[d] = rounds[d]

SameBooks(d, n) ==
  /\ escrow'[d][n] = escrow[d][n]
  /\ <<d, n>> \in staked' <=> <<d, n>> \in staked
  /\ <<d, n>> \in settled' <=> <<d, n>> \in settled
  /\ Filed(d, n)' = Filed(d, n)

(* A room that is not touched keeps its ledger.                            *)
LEMMA Elsewhere ==
  ASSUME NEW d \in Codes, RoomLedger(d), SameRows(d), \A n \in Rounds : SameBooks(d, n)
  PROVE  RoomLedger(d)'
<1>1. Hosted(d)'
  BY DEF RoomLedger, Hosted, SameRows
<1>2. ASSUME NEW n \in Rounds PROVE Booked(d, n)'
  <2>1. Booked(d, n) /\ SameBooks(d, n)
    BY <1>2 DEF RoomLedger
  <2>2. FiledAs(d, n)' = FiledAs(d, n)
    BY DEF FiledAs, SameRows, HouseEarnings
  <2>3. Open(d, n)' = Open(d, n) /\ Finished(d, n)' = Finished(d, n)
    BY DEF Open, Finished, SameRows
  <2> QED
    BY <2>1, <2>2, <2>3 DEF Booked, SameBooks, SameRows
<1>3. ASSUME NEW n \in Rounds PROVE Ordered(d, n)'
  <2>1. Ordered(d, n)
    BY <1>3 DEF RoomLedger
  <2> QED
    BY <2>1 DEF Ordered, Open, Finished, Full, Round, SameRows
<1> QED
  BY <1>1, <1>2, <1>3 DEF RoomLedger

(* A room whose seats, rounds and outcomes stay keeps its ledger when no   *)
(* coin moves, unless it is closed with a stake open.                      *)
SameOutcome(old, new) ==
  new.result = old.result /\ new.forfeited = old.forfeited /\ new.funded = old.funded

LEMMA SameAccounts ==
  ASSUME LedgerInv, NEW c \in Codes, UNCHANGED <<escrow, staked, settled, history>>,
         rooms'[c].round = rooms[c].round, rooms'[c].status = "none" <=> rooms[c].status = "none",
         seats'[c] = seats[c],
         \A n \in Rounds : n # Round(c) => rounds'[c][n] = rounds[c][n],
         \A n \in Rounds : SameOutcome(rounds[c][n], rounds'[c][n]),
         \A n \in Rounds : Open(c, n) => rooms'[c].status = "active",
         \A d \in Codes \ {c} : SameRows(d)
  PROVE  LedgerInv'
<1>1. RoomLedger(c)
  BY DEF LedgerInv
<1>2. Hosted(c)'
  BY <1>1 DEF RoomLedger, Hosted
<1>3. ASSUME NEW n \in Rounds PROVE Booked(c, n)' /\ Ordered(c, n)'
  <2>1. Booked(c, n) /\ Ordered(c, n)
    BY <1>1, <1>3 DEF RoomLedger
  <2>2. SameOutcome(rounds[c][n], rounds'[c][n])
    BY <1>3
  <2>3. /\ Open(c, n)' = Open(c, n) /\ Finished(c, n)' = Finished(c, n)
        /\ Full(c)' = Full(c) /\ Round(c)' = Round(c)
    BY <2>2 DEF Open, Finished, Full, Round, SameOutcome
  <2>4. FiledAs(c, n)' = FiledAs(c, n)
    BY <2>2 DEF FiledAs, SameOutcome, HouseEarnings
  <2>5. Booked(c, n)'
    BY <2>1, <2>2, <2>3, <2>4 DEF Booked, Filed, SameOutcome
  <2>6. n # Round(c) => rounds'[c][n] = rounds[c][n]
    BY <1>3
  <2>7. ~(n < Round(c) /\ n = Round(c)) /\ ~(n > Round(c) /\ n = Round(c))
    BY <1>3, BoundsAssumption DEF Rounds
  <2>8. Open(c, n) => rooms'[c].status = "active"
    BY <1>3
  <2>9. Ordered(c, n)'
    BY <2>1, <2>3, <2>6, <2>7, <2>8 DEF Ordered
  <2> QED
    BY <2>5, <2>9
<1>4. RoomLedger(c)'
  BY <1>2, <1>3 DEF RoomLedger
<1>5. ASSUME NEW d \in Codes \ {c} PROVE RoomLedger(d)'
  <2>1. RoomLedger(d) /\ SameRows(d)
    BY <1>5 DEF LedgerInv
  <2>2. \A n \in Rounds : SameBooks(d, n)
    BY DEF SameBooks, Filed
  <2> QED
    BY <1>5, <2>1, <2>2, Elsewhere
<1> QED
  BY <1>4, <1>5 DEF LedgerInv

(* A step that writes neither rooms nor coins in escrow.                   *)
LEMMA Untouched ==
  ASSUME LedgerInv, UNCHANGED <<rooms, seats, rounds, escrow, staked, settled, history>>
  PROVE  LedgerInv'
<1>1. ASSUME NEW d \in Codes PROVE RoomLedger(d)'
  <2>1. \A n \in Rounds : SameBooks(d, n)
    BY DEF SameBooks, Filed
  <2>2. SameRows(d) /\ RoomLedger(d)
    BY <1>1 DEF SameRows, LedgerInv
  <2> QED
    BY <1>1, <2>1, <2>2, Elsewhere
<1> QED
  BY <1>1 DEF LedgerInv

(* Saving a room writes its row and the row of its round, and no other.    *)
LEMMA SaveRound ==
  ASSUME TypeInv, NEW c \in Codes, NEW r \in RoomType, r.round \in Rounds,
         NEW funded \in BOOLEAN, Save(c, r, funded)
  PROVE  /\ rooms'[c].round = r.round
         /\ rooms'[c].status = IF r.closed THEN "closed" ELSE "active"
         /\ rounds'[c][r.round] = RoundRow(r, funded)
         /\ \A m \in Rounds : m # r.round => rounds'[c][m] = rounds[c][m]
         /\ \A d \in Codes \ {c} : rooms'[d] = rooms[d] /\ rounds'[d] = rounds[d]
<1> DEFINE row == RoundRow(r, funded)
           n == r.round
<1>1. SaveRoom(c, r) /\ rounds' = [rounds EXCEPT ![c][n] = row]
  BY DEF Save
<1>2. n \in Rounds /\ row \in RoundType
  BY RowType
<1>3. /\ rooms'[c].round = r.round
      /\ rooms'[c].status = IF r.closed THEN "closed" ELSE "active"
      /\ \A d \in Codes \ {c} : rooms'[d] = rooms[d]
  BY <1>1, SaveRows DEF TypeInv, TypeOK
<1> HIDE DEF row, n
<1>4. GameTypeOK /\ rounds \in [Codes -> [Rounds -> RoundType]]
  BY DEF TypeInv, TypeOK, GameTypeOK
<1>5. /\ rounds' \in [Codes -> [Rounds -> RoundType]]
      /\ rounds'[c][n] = row
      /\ \A e \in Codes, m \in Rounds : <<e, m>> # <<c, n>> => rounds'[e][m] = rounds[e][m]
  BY <1>1, <1>2, <1>4, WriteRound
<1>6. \A d \in Codes \ {c} : rounds'[d] = rounds[d]
  BY <1>4, <1>5
<1> QED
  BY <1>3, <1>5, <1>6 DEF row, n

-----------------------------------------------------------------------------
(* Actions that move no coin.                                              *)

(* Taking a revision changes no status, no round and no stake.             *)
LEMMA BumpLedger ==
  ASSUME TypeInv, LedgerInv, NEW c \in Codes, BumpRevision(c),
         UNCHANGED <<seats, rounds, escrow, staked, settled, history>>
  PROVE  LedgerInv'
<1>1. /\ \A e \in Codes : rooms'[e].status = rooms[e].status /\ rooms'[e].round = rooms[e].round
      /\ \A e \in Codes \ {c} : rooms'[e] = rooms[e]
  BY BumpRows DEF TypeInv, TypeOK
<1>2. \A n \in Rounds : Open(c, n) => rooms'[c].status = "active"
  BY <1>1 DEF LedgerInv, RoomLedger, Ordered
<1>3. \A d \in Codes \ {c} : SameRows(d)
  BY <1>1 DEF SameRows
<1>4. \A n \in Rounds : SameOutcome(rounds[c][n], rounds'[c][n])
  BY DEF SameOutcome
<1> QED
  BY <1>1, <1>2, <1>3, <1>4, SameAccounts

(* A move or a request leaves the outcome and the funding of its round.    *)
LEMMA ActionLedger ==
  ASSUME TypeInv, LedgerInv, NEW c \in Codes, NEW k, NEW required, NEW row \in RoundType,
         RecordRoomAction(c, k, required), rounds' = [rounds EXCEPT ![c][Round(c)] = row],
         SameOutcome(Row(c), row)
  PROVE  LedgerInv'
<1>1. Round(c) \in Rounds
  BY LoadRoom DEF RecordRoomAction, TypeInv, TypeOK, Started
<1>2. /\ rounds'[c][Round(c)] = row
      /\ \A e \in Codes, m \in Rounds : <<e, m>> # <<c, Round(c)>> => rounds'[e][m] = rounds[e][m]
      /\ rounds' \in [Codes -> [Rounds -> RoundType]]
  <2>1. rounds \in [Codes -> [Rounds -> RoundType]]
    BY DEF TypeInv, TypeOK, GameTypeOK
  <2> PICK n \in Rounds : n = Round(c)
    BY <1>1
  <2>2. rounds' = [rounds EXCEPT ![c][n] = row]
    OBVIOUS
  <2> QED
    BY <2>1, <2>2
<1>3. /\ \A e \in Codes : rooms'[e].status = rooms[e].status /\ rooms'[e].round = rooms[e].round
      /\ \A e \in Codes \ {c} : rooms'[e] = rooms[e]
  BY BumpRows DEF RecordRoomAction, TypeInv, TypeOK
<1>4. \A n \in Rounds : Open(c, n) => rooms'[c].status = "active"
  BY <1>3 DEF RecordRoomAction
<1>5. \A d \in Codes \ {c} : SameRows(d)
  <2>1. rounds \in [Codes -> [Rounds -> RoundType]]
    BY DEF TypeInv, TypeOK, GameTypeOK
  <2>2. \A d \in Codes \ {c} : rounds'[d] = rounds[d]
    BY <1>2, <2>1
  <2> QED
    BY <1>3, <2>2 DEF SameRows, RecordRoomAction
<1>6. \A n \in Rounds : n # Round(c) => rounds'[c][n] = rounds[c][n]
  BY <1>2
<1>7. \A n \in Rounds : SameOutcome(rounds[c][n], rounds'[c][n])
  BY <1>1, <1>2, <1>6 DEF SameOutcome, Row
<1>8. UNCHANGED <<escrow, staked, settled, history, seats>>
  BY DEF RecordRoomAction, money
<1> QED
  BY <1>3, <1>4, <1>5, <1>6, <1>7, <1>8, SameAccounts

(* SubmitMoveCommand writes a move.                                        *)
LEMMA SubmitMoveLedger ==
  ASSUME TypeInv, LedgerInv, NEW a, NEW c \in Codes, NEW throw \in Throws, NEW k \in Keys,
         SubmitMoveCommand(a, c, throw, k)
  PROVE  LedgerInv'
<1>1. PICK p \in Role : /\ RecordRoomAction(c, k, "active")
                        /\ rounds' = [rounds EXCEPT ![c][Round(c)].moves[p] = throw]
  BY DEF SubmitMoveCommand
<1>2. Round(c) # 0
  BY <1>1 DEF RecordRoomAction, TypeInv, Started
<1>3. WithMove(c, p, throw) \in RoundType
  BY <1>2, MoveRow
<1>4. Round(c) \in Rounds /\ rounds \in [Codes -> [Rounds -> RoundType]]
  BY <1>2, LoadRoom DEF TypeInv, TypeOK, GameTypeOK
<1>5. rounds' = [rounds EXCEPT ![c][Round(c)] = WithMove(c, p, throw)]
  BY <1>1, <1>4 DEF WithMove, Row
<1>6. SameOutcome(Row(c), WithMove(c, p, throw))
  BY <1>4 DEF SameOutcome, WithMove, Row, RoundType
<1> QED
  BY <1>1, <1>3, <1>5, <1>6, ActionLedger

(* RequestNextRoundCommand writes a vote.                                  *)
LEMMA RequestLedger ==
  ASSUME TypeInv, LedgerInv, NEW a, NEW c \in Codes, NEW k \in Keys,
         RequestNextRoundCommand(a, c, k)
  PROVE  LedgerInv'
<1>1. PICK p \in Role : /\ RecordRoomAction(c, k, "resolved")
                        /\ rounds' = [rounds EXCEPT ![c][Round(c)].next = @ \cup {p}]
  BY DEF RequestNextRoundCommand
<1>2. Round(c) # 0
  BY <1>1 DEF RecordRoomAction, TypeInv, Started
<1>3. WithRequest(c, p) \in RoundType
  BY <1>2, RequestRow
<1>4. rounds' = [rounds EXCEPT ![c][Round(c)] = WithRequest(c, p)]
  BY <1>1, <1>2, RequestRow
<1>5. SameOutcome(Row(c), WithRequest(c, p))
  <2>1. Row(c) \in RoundType
    BY <1>2, LoadRoom DEF TypeInv, TypeOK
  <2> QED
    BY <2>1 DEF SameOutcome, WithRequest, RoundType
<1> QED
  BY <1>1, <1>3, <1>4, <1>5, ActionLedger

(* LeaveCommand closes a room whose round is not at stake.                 *)
LEMMA LeaveLedger ==
  ASSUME TypeInv, LedgerInv, NEW a, NEW c \in Codes, NEW k \in Keys, LeaveCommand(a, c, k)
  PROVE  LedgerInv'
<1> DEFINE r == Leave(Load(c))
<1>1. Round(c) # 0
  BY DEF LeaveCommand, TypeInv, Started
<1>2. /\ r \in RoomType /\ r.round = Round(c) /\ r.round \in Rounds /\ Row(c) \in RoundType
      /\ r.result = Row(c).result /\ r.forfeited = Row(c).forfeited
  BY <1>1, LoadRoom DEF Leave, Load, RoomType, RoundType, TypeInv, TypeOK
<1>3. Save(c, r, Row(c).funded) /\ Row(c).funded \in BOOLEAN
  BY <1>2 DEF LeaveCommand, RoundType
<1>4. ~Open(c, Round(c))
  <2>1. Finished(c, Round(c)) \/ ~Full(c)
    BY DEF LeaveCommand, CanLeave, Resolved, Load, Row, Finished, Full
  <2>2. Ordered(c, Round(c))
    BY <1>2 DEF LedgerInv, RoomLedger
  <2> QED
    BY <2>1, <2>2 DEF Ordered, Open, Finished
<1> HIDE DEF r
<1>5. /\ rooms'[c].round = Round(c) /\ rooms'[c].status # "none"
      /\ rounds'[c][Round(c)] = RoundRow(r, Row(c).funded)
      /\ \A m \in Rounds : m # Round(c) => rounds'[c][m] = rounds[c][m]
      /\ \A d \in Codes \ {c} : rooms'[d] = rooms[d] /\ rounds'[d] = rounds[d]
  BY <1>2, <1>3, SaveRound
<1>6. SameOutcome(Row(c), RoundRow(r, Row(c).funded))
  BY <1>2 DEF SameOutcome, RoundRow
<1>7. \A n \in Rounds : ~Open(c, n)
  <2> SUFFICES ASSUME NEW n \in Rounds, n # Round(c)
               PROVE  ~Open(c, n)
    BY <1>4
  <2>1. n < Round(c) \/ n > Round(c)
    BY <1>2, BoundsAssumption DEF Rounds
  <2>2. Ordered(c, n)
    BY DEF LedgerInv, RoomLedger
  <2> QED
    BY <2>1, <2>2 DEF Ordered, Open, Finished, NoRound
<1>8. \A n \in Rounds : SameOutcome(rounds[c][n], rounds'[c][n])
  BY <1>2, <1>5, <1>6 DEF SameOutcome, Row
<1>9. UNCHANGED <<escrow, staked, settled, history, seats>> /\ rooms[c].status # "none"
  BY DEF LeaveCommand, money
<1>10. \A d \in Codes \ {c} : SameRows(d)
  BY <1>5, <1>9 DEF SameRows
<1> QED
  BY <1>5, <1>7, <1>8, <1>9, <1>10, SameAccounts DEF Round

-----------------------------------------------------------------------------
(* What staking and settling one round do to the books.                    *)

OtherBooks(c, n) == \A d \in Codes, m \in Rounds : <<d, m>> # <<c, n>> => SameBooks(d, m)

(* Funding a round that is not funded puts both stakes into its escrow.    *)
LEMMA FundBooks ==
  ASSUME TypeInv, NEW c \in Codes, NEW n \in Rounds, NEW owners,
         ~rounds[c][n].funded, <<c, n>> \notin staked,
         FundRound(c, n, owners), UNCHANGED <<settled, history>>
  PROVE  /\ escrow'[c][n] = escrow[c][n] + 2 * RoundStake
         /\ <<c, n>> \in staked' /\ (<<c, n>> \in settled' <=> <<c, n>> \in settled)
         /\ Filed(c, n)' = Filed(c, n)
         /\ OtherBooks(c, n)
<1>1. StakeBoth(c, n, owners)
  BY DEF FundRound
<1>2. escrow \in [Codes -> [Rounds -> Int]]
  BY DEF TypeInv, TypeOK, MoneyTypeOK
<1>3. /\ escrow'[c][n] = escrow[c][n] + 2 * RoundStake
      /\ \A d \in Codes, m \in Rounds : <<d, m>> # <<c, n>> => escrow'[d][m] = escrow[d][m]
  BY <1>1, <1>2 DEF StakeBoth
<1>4. /\ <<c, n>> \in staked'
      /\ \A d \in Codes, m \in Rounds :
           <<d, m>> # <<c, n>> => (<<d, m>> \in staked' <=> <<d, m>> \in staked)
  BY <1>1 DEF StakeBoth
<1>5. \A d, m : Filed(d, m)' = Filed(d, m)
  BY DEF Filed
<1>6. OtherBooks(c, n)
  BY <1>3, <1>4, <1>5 DEF OtherBooks, SameBooks
<1> QED
  BY <1>3, <1>4, <1>5, <1>6

(* Settling a round that is not settled empties its escrow and files it.   *)
LEMMA SettleBooks ==
  ASSUME TypeInv, NEW c \in Codes, NEW r, r.round \in Rounds,
         Filed(c, r.round) = {}, <<c, r.round>> \notin settled, SettleRound(c, r)
  PROVE  /\ Full(c)
         /\ escrow'[c][r.round] = 0
         /\ <<c, r.round>> \in settled'
         /\ <<c, r.round>> \in staked' <=> <<c, r.round>> \in staked
         /\ Filed(c, r.round)' = {HistoryRow(c, r)}
         /\ OtherBooks(c, r.round)
<1>1. ~HasHistory(c, r.round)
  BY DEF HasHistory, Filed
<1>2. /\ Full(c) /\ escrow[c][r.round] = 2 * RoundStake
      /\ settled' = settled \cup {<<c, r.round>>}
      /\ escrow' = [escrow EXCEPT ![c][r.round] = @ - 2 * RoundStake]
      /\ history' = history \cup {HistoryRow(c, r)}
      /\ UNCHANGED staked
  BY <1>1 DEF SettleRound
<1>3. escrow \in [Codes -> [Rounds -> Int]]
  BY DEF TypeInv, TypeOK, MoneyTypeOK
<1>4. /\ escrow'[c][r.round] = 0
      /\ \A d \in Codes, m \in Rounds :
           <<d, m>> # <<c, r.round>> => escrow'[d][m] = escrow[d][m]
  BY <1>2, <1>3 DEF RoundStake
<1>5. HistoryRow(c, r).room = c /\ HistoryRow(c, r).round = r.round
  BY DEF HistoryRow
<1>6. /\ Filed(c, r.round)' = {HistoryRow(c, r)}
      /\ \A d \in Codes, m \in Rounds : <<d, m>> # <<c, r.round>> => Filed(d, m)' = Filed(d, m)
  <2> DEFINE row == HistoryRow(c, r)
  <2> HIDE DEF row
  <2> QED
    BY <1>2, <1>5 DEF Filed, row
<1>7. OtherBooks(c, r.round)
  BY <1>2, <1>4, <1>6 DEF OtherBooks, SameBooks
<1> QED
  BY <1>2, <1>4, <1>6, <1>7

(* A transaction on the round n of room c leaves the other rooms alone.    *)
LEMMA OneRoom ==
  ASSUME LedgerInv, NEW c \in Codes, NEW n \in Rounds, RoomLedger(c)', OtherBooks(c, n),
         \A d \in Codes \ {c} : SameRows(d)
  PROVE  LedgerInv'
<1>1. ASSUME NEW d \in Codes \ {c} PROVE RoomLedger(d)'
  <2>1. \A m \in Rounds : SameBooks(d, m)
    BY <1>1 DEF OtherBooks
  <2>2. RoomLedger(d) /\ SameRows(d)
    BY <1>1 DEF LedgerInv
  <2> QED
    BY <1>1, <2>1, <2>2, Elsewhere
<1> QED
  BY <1>1 DEF LedgerInv

-----------------------------------------------------------------------------
(* Actions that open, stake, settle and follow rounds.                     *)

(* A new room has a host and a round without a stake.                      *)
LEMMA CreateLedger ==
  ASSUME TypeInv, LedgerInv, NEW a \in Accounts, NEW c \in Codes, NEW k, CreateCommand(a, c, k)
  PROVE  LedgerInv'
<1>1. Round(c) = 0 /\ RoomLedger(c)
  BY DEF CreateCommand, TypeInv, Started, LedgerInv
<1>2. \A n \in Rounds : rounds[c][n] = NoRound
  BY <1>1, BoundsAssumption DEF RoomLedger, Ordered, Rounds
<1>3. /\ rooms'[c] = [status |-> "active", round |-> 1, revision |-> 1]
      /\ \A d \in Codes \ {c} : rooms'[d] = rooms[d]
  BY DEF CreateCommand, TypeInv, TypeOK, GameTypeOK
<1>4. seats'[c]["host"] = a /\ \A d \in Codes \ {c} : seats'[d] = seats[d]
  BY DEF CreateCommand, TypeInv, TypeOK, GameTypeOK, Role
<1>5. 1 \in Rounds /\ rounds \in [Codes -> [Rounds -> RoundType]]
  BY BoundsAssumption DEF Rounds, TypeInv, TypeOK, GameTypeOK
<1>6. /\ \A n \in Rounds : n # 1 => rounds'[c][n] = NoRound
      /\ rounds'[c][1].result = NoResult /\ ~rounds'[c][1].funded
      /\ \A d \in Codes \ {c} : rounds'[d] = rounds[d]
  <2> DEFINE row == [NoRound EXCEPT !.status = "active"]
  <2>1. row.result = NoResult /\ ~row.funded
    BY DEF NoRound
  <2>2. rounds' = [rounds EXCEPT ![c][1] = row]
    BY DEF CreateCommand
  <2> HIDE DEF row
  <2> QED
    BY <1>2, <1>5, <2>1, <2>2
<1>7. UNCHANGED <<escrow, staked, settled, history>>
  BY DEF CreateCommand, money
<1>8. \A d \in Codes, n \in Rounds : SameBooks(d, n)
  BY <1>7 DEF SameBooks, Filed
<1>9. ASSUME NEW n \in Rounds PROVE Booked(c, n)' /\ Ordered(c, n)'
  <2>1. ~Finished(c, n) /\ ~Open(c, n) /\ ~rounds[c][n].funded
    BY <1>2, <1>9 DEF Finished, Open, NoRound
  <2>2. ~Finished(c, n)' /\ ~Open(c, n)' /\ ~rounds'[c][n].funded
    BY <1>6, <1>9 DEF Finished, Open, NoRound
  <2>3. Booked(c, n) /\ SameBooks(c, n)
    BY <1>1, <1>8, <1>9 DEF RoomLedger
  <2>4. Booked(c, n)'
    BY <2>1, <2>2, <2>3 DEF Booked, SameBooks
  <2>5. Round(c)' = 1 /\ ~(n < 1) /\ (n > 1 => n # 1)
    BY <1>3, <1>9 DEF Round, Rounds
  <2> QED
    BY <1>6, <1>9, <2>2, <2>4, <2>5 DEF Ordered
<1>10. RoomLedger(c)'
  <2>1. Hosted(c)'
    BY <1>4, NoOneAssumption DEF Hosted
  <2> QED
    BY <1>9, <2>1 DEF RoomLedger
<1> QED
  BY <1>3, <1>4, <1>5, <1>6, <1>8, <1>10, OneRoom DEF OtherBooks, SameRows

(* The guest's arrival stakes the first round.                             *)
LEMMA JoinLedger ==
  ASSUME TypeInv, LedgerInv, NEW a \in Accounts, NEW c \in Codes, NEW k, JoinCommand(a, c, k)
  PROVE  LedgerInv'
<1> DEFINE r == Join(Load(c))
           owners == {seats[c]["host"], a}
<1>0. Round(c) # 0 /\ Round(c) \in Rounds
  BY LoadRoom DEF JoinCommand, TypeInv, TypeOK, Started
<1> PICK n \in Rounds : n = Round(c)
  BY <1>0
<1>1. n # 0 /\ RoomLedger(c)
  BY <1>0 DEF LedgerInv
<1>2. /\ r \in RoomType /\ r.round = n
      /\ r.result = Row(c).result /\ r.closed = (rooms[c].status = "closed")
  BY <1>1, LoadRoom DEF Join, Load, RoomType, TypeInv, TypeOK
<1>3. ~Full(c) /\ rooms[c].status # "closed"
  BY DEF JoinCommand, CanJoin, Load, Full
<1>4. \A m \in Rounds : /\ ~Finished(c, m) /\ ~Open(c, m) /\ ~rounds[c][m].funded
                         /\ Booked(c, m) /\ Ordered(c, m)
  BY <1>1, <1>3 DEF RoomLedger, Ordered, Open, Finished
<1>5. FundRound(c, n, owners) /\ UNCHANGED <<settled, history>>
  BY DEF JoinCommand
<1>6. Save(c, r, TRUE)
  BY DEF JoinCommand
<1> HIDE DEF r, owners
<1>7. <<c, n>> \notin staked /\ ~rounds[c][n].funded
  BY <1>2, <1>4 DEF Booked
<1>8. /\ escrow'[c][n] = escrow[c][n] + 2 * RoundStake
      /\ <<c, n>> \in staked' /\ (<<c, n>> \in settled' <=> <<c, n>> \in settled)
      /\ Filed(c, n)' = Filed(c, n)
      /\ OtherBooks(c, n)
  BY <1>2, <1>5, <1>7, FundBooks
<1>9. /\ rooms'[c].round = n /\ rooms'[c].status = "active"
      /\ rounds'[c][n] = RoundRow(r, TRUE)
      /\ \A m \in Rounds : m # n => rounds'[c][m] = rounds[c][m]
      /\ \A d \in Codes \ {c} : rooms'[d] = rooms[d] /\ rounds'[d] = rounds[d]
  BY <1>2, <1>3, <1>6, SaveRound
<1>10. rounds'[c][n].result = NoResult /\ rounds'[c][n].funded
  <2>1. Row(c).result = NoResult
    BY <1>2, <1>4 DEF Finished, Row
  <2> QED
    BY <1>2, <1>9, <2>1 DEF RoundRow
<1>11. /\ seats'[c]["host"] = seats[c]["host"] /\ seats'[c]["guest"] = a
       /\ \A d \in Codes \ {c} : seats'[d] = seats[d]
  BY DEF JoinCommand, TypeInv, TypeOK, GameTypeOK, Role
<1>12. seats[c]["host"] # NoOne
  BY <1>1 DEF RoomLedger, Hosted, JoinCommand
<1>13. Full(c)'
  BY <1>11, <1>12, NoOneAssumption DEF Full, Role
<1>14. Booked(c, n)'
  <2>1. Booked(c, n) /\ ~Finished(c, n) /\ ~Open(c, n)
    BY <1>2, <1>4
  <2>2. Open(c, n)' /\ ~Finished(c, n)'
    BY <1>10 DEF Open, Finished
  <2>3. escrow[c][n] = 0
    BY <2>1 DEF Booked
  <2> QED
    BY <1>8, <1>10, <2>1, <2>2, <2>3 DEF Booked, RoundStake
<1>15. ASSUME NEW m \in Rounds, m # n PROVE Booked(c, m)' /\ ~Open(c, m)' /\ ~Finished(c, m)'
  <2>1. rounds'[c][m] = rounds[c][m] /\ SameBooks(c, m)
    BY <1>8, <1>9, <1>15 DEF OtherBooks
  <2>2. Booked(c, m) /\ ~Open(c, m) /\ ~Finished(c, m)
    BY <1>4, <1>15
  <2> QED
    BY <2>1, <2>2 DEF Booked, SameBooks, Open, Finished
<1>16. ASSUME NEW m \in Rounds PROVE Ordered(c, m)'
  <2>1. ~(m < n)
    BY <1>4, <1>16 DEF Ordered
  <2>2. m > n => rounds'[c][m] = NoRound
    BY <1>4, <1>9, <1>16 DEF Ordered
  <2>3. Round(c)' = n
    BY <1>9 DEF Round
  <2> QED
    BY <1>9, <1>13, <2>1, <2>2, <2>3 DEF Ordered
<1>17. RoomLedger(c)'
  <2>1. Hosted(c)'
    BY <1>11, <1>12 DEF Hosted
  <2> QED
    BY <1>14, <1>15, <1>16, <2>1 DEF RoomLedger
<1>18. \A d \in Codes \ {c} : SameRows(d)
  BY <1>9, <1>11 DEF SameRows
<1> QED
  BY <1>2, <1>8, <1>17, <1>18, OneRoom

(* Whoever ends the open round of an active room pays it and files it.     *)
LEMMA EndingLedger ==
  ASSUME TypeInv, LedgerInv, NEW c \in Codes, Round(c) # 0, NEW r, Ends(Load(c), r),
         rooms[c].status = "active", Row(c).funded, Row(c).result = NoResult,
         Save(c, r, TRUE), SettleRound(c, r), UNCHANGED seats
  PROVE  LedgerInv'
<1>1. /\ Round(c) \in Rounds /\ r \in RoomType /\ r.round = Round(c) /\ r.result \in Result
      /\ ~r.closed
  BY LoadRoom DEF Ends, Load, TypeInv, TypeOK
<1> PICK n \in Rounds : n = Round(c)
  BY <1>1
<1>2. RoomLedger(c) /\ \A m \in Rounds : Booked(c, m) /\ Ordered(c, m)
  BY DEF LedgerInv, RoomLedger
<1>3. Open(c, n) /\ ~Finished(c, n)
  BY DEF Open, Finished, Row
<1>4. Filed(c, n) = {} /\ <<c, n>> \notin settled /\ <<c, n>> \in staked
  BY <1>2, <1>3 DEF Booked, Open
<1>5. /\ Full(c) /\ escrow'[c][n] = 0
      /\ <<c, n>> \in settled' /\ <<c, n>> \in staked'
      /\ Filed(c, n)' = {HistoryRow(c, r)}
      /\ OtherBooks(c, n)
  BY <1>1, <1>4, SettleBooks
<1>6. /\ rooms'[c].round = n /\ rooms'[c].status = "active"
      /\ rounds'[c][n] = RoundRow(r, TRUE)
      /\ \A m \in Rounds : m # n => rounds'[c][m] = rounds[c][m]
      /\ \A d \in Codes \ {c} : rooms'[d] = rooms[d] /\ rounds'[d] = rounds[d]
  <2>1. TRUE \in BOOLEAN /\ r.round \in Rounds
    BY <1>1
  <2>2. /\ rooms'[c].round = r.round
        /\ rooms'[c].status = IF r.closed THEN "closed" ELSE "active"
        /\ rounds'[c][r.round] = RoundRow(r, TRUE)
        /\ \A m \in Rounds : m # r.round => rounds'[c][m] = rounds[c][m]
        /\ \A d \in Codes \ {c} : rooms'[d] = rooms[d] /\ rounds'[d] = rounds[d]
    BY <1>1, <2>1, SaveRound
  <2> QED
    BY <1>1, <2>2
<1>7. /\ rounds'[c][n].result = r.result /\ rounds'[c][n].forfeited = r.forfeited
      /\ rounds'[c][n].funded /\ r.result # NoResult
  BY <1>1, <1>6 DEF RoundRow, Result, NoResult, Draw
<1>8. Full(c)' /\ Round(c)' = n /\ Finished(c, n)' /\ ~Open(c, n)'
  BY <1>5, <1>6, <1>7 DEF Full, Round, Finished, Open
<1>9. Booked(c, n)'
  <2>1. HistoryRow(c, r) = FiledAs(c, n)'
    BY <1>1, <1>7 DEF HistoryRow, FiledAs, HouseEarnings
  <2> QED
    BY <1>5, <1>7, <1>8, <2>1 DEF Booked
<1>10. ASSUME NEW m \in Rounds, m # n PROVE Booked(c, m)' /\ Ordered(c, m)'
  <2>1. rounds'[c][m] = rounds[c][m] /\ SameBooks(c, m) /\ Booked(c, m) /\ Ordered(c, m)
    BY <1>2, <1>5, <1>6, <1>10 DEF OtherBooks
  <2>2. Open(c, m)' = Open(c, m) /\ Finished(c, m)' = Finished(c, m)
    BY <2>1 DEF Open, Finished
  <2>3. FiledAs(c, m)' = FiledAs(c, m)
    BY <2>1 DEF FiledAs, HouseEarnings
  <2>4. Booked(c, m)'
    BY <2>1, <2>2, <2>3 DEF Booked, SameBooks
  <2>5. Ordered(c, m)'
    BY <1>6, <1>8, <2>1, <2>2 DEF Ordered
  <2> QED
    BY <2>4, <2>5
<1>11. Ordered(c, n)'
  BY <1>8, BoundsAssumption DEF Ordered, Rounds
<1>12. RoomLedger(c)'
  <2>1. Hosted(c)'
    BY <1>2 DEF RoomLedger, Hosted
  <2> QED
    BY <1>9, <1>10, <1>11, <2>1 DEF RoomLedger
<1>13. \A d \in Codes \ {c} : SameRows(d)
  BY <1>6 DEF SameRows
<1> QED
  BY <1>5, <1>12, <1>13, OneRoom

(* Advancing leaves a finished round behind and stakes the next.           *)
LEMMA AdvanceLedger ==
  ASSUME TypeInv, LedgerInv, NEW c \in Codes, ReconcileAdvance(c)
  PROVE  LedgerInv'
<1> DEFINE r == Advance(Load(c))
           old == [Row(c) EXCEPT !.status = "resolved"]
           owners == {seats[c][p] : p \in Role}
<1>1. Round(c) # 0 /\ Round(c) \in Rounds /\ Row(c) \in RoundType
  BY LoadRoom DEF ReconcileAdvance, ClaimAdvance, TypeInv, TypeOK, Started
<1> PICK m \in Rounds : m = Round(c)
  BY <1>1
<1> PICK n \in Rounds : n = m + 1
  BY <1>1, BoundsAssumption DEF ReconcileAdvance, Rounds
<1>2. n > m /\ (\A i \in Rounds : /\ i < n => i < m \/ i = m
                                  /\ i > n => i > m
                                  /\ i # n /\ i # m => i < m \/ i > n)
  BY BoundsAssumption DEF Rounds
<1>3. RoomLedger(c) /\ \A i \in Rounds : Booked(c, i) /\ Ordered(c, i)
  BY DEF LedgerInv, RoomLedger
<1>4. /\ old.result = Row(c).result /\ old.forfeited = Row(c).forfeited
      /\ old.funded = Row(c).funded /\ old.next = Row(c).next
  BY <1>1 DEF RoundType
<1>5. Finished(c, m) /\ Row(c).next = Role /\ Full(c)
  BY DEF ReconcileAdvance, ClaimAdvance, CanAdvance, Resolved, Load, Finished, Row, Full
<1>6. rounds[c][n] = NoRound /\ ~rounds[c][n].funded /\ <<c, n>> \notin staked
  <2>1. Ordered(c, n) /\ Booked(c, n) /\ n > Round(c)
    BY <1>2, <1>3
  <2>2. rounds[c][n] = NoRound
    BY <2>1 DEF Ordered
  <2> QED
    BY <2>1, <2>2 DEF Booked, NoRound
<1>7. r.result = NoResult /\ ~r.closed /\ r.round = n /\ r \in RoomType
  <2>1. Load(c) \in RoomType /\ Load(c).round = m /\ Load(c).closed = (rooms[c].status = "closed")
    BY <1>1, LoadRoom DEF Load, TypeInv, TypeOK
  <2>2. [p \in Role |-> NoMove] \in [Role -> Throw \cup {NoMove}]
    OBVIOUS
  <2>3. Load(c).round + 1 = n /\ n \in Nat /\ rooms[c].status = "active"
    BY <2>1, BoundsAssumption DEF Rounds, ReconcileAdvance, ClaimAdvance
  <2> QED
    BY <2>1, <2>2, <2>3 DEF Advance, RoomType
<1>8. /\ FundRound(c, n, owners) /\ UNCHANGED <<settled, history, seats>>
      /\ SaveRoom(c, r)
  BY DEF ReconcileAdvance
<1>9. /\ rounds'[c][n] = RoundRow(r, TRUE) /\ rounds'[c][m] = old
      /\ \A i \in Rounds : i # n /\ i # m => rounds'[c][i] = rounds[c][i]
      /\ \A d \in Codes \ {c} : rounds'[d] = rounds[d]
  <2>1. rounds \in [Codes -> [Rounds -> RoundType]]
    BY DEF TypeInv, TypeOK, GameTypeOK
  <2> DEFINE released == [rounds EXCEPT ![c][m] = old]
             new == RoundRow(r, TRUE)
  <2>2. rounds' = [released EXCEPT ![c][n] = new]
    BY <2>1 DEF ReconcileAdvance, Row
  <2>3. old \in RoundType
    BY <1>1 DEF RoundType
  <2>4. m # n
    BY <1>2, BoundsAssumption DEF Rounds
  <2> HIDE DEF r, old, new
  <2>5. /\ released \in [Codes -> [Rounds -> RoundType]] /\ released[c][m] = old
        /\ \A i \in Rounds : i # m => released[c][i] = rounds[c][i]
        /\ \A d \in Codes \ {c} : released[d] = rounds[d]
    BY <2>1, <2>3
  <2> HIDE DEF released
  <2>6. /\ rounds'[c][n] = new /\ \A i \in Rounds : i # n => rounds'[c][i] = released[c][i]
        /\ \A d \in Codes \ {c} : rounds'[d] = released[d]
    BY <2>2, <2>5
  <2> QED
    BY <2>4, <2>5, <2>6 DEF new
<1> HIDE DEF r, old, owners
<1>10. /\ escrow'[c][n] = escrow[c][n] + 2 * RoundStake
       /\ <<c, n>> \in staked' /\ (<<c, n>> \in settled' <=> <<c, n>> \in settled)
       /\ Filed(c, n)' = Filed(c, n)
       /\ OtherBooks(c, n)
  BY <1>6, <1>8, FundBooks
<1>11. /\ rooms'[c].round = n /\ rooms'[c].status = "active"
       /\ \A d \in Codes \ {c} : rooms'[d] = rooms[d]
  BY <1>7, <1>8, SaveRows DEF TypeInv, TypeOK
<1>12. /\ Round(c)' = n /\ Full(c)' /\ Open(c, n)' /\ ~Finished(c, n)'
       /\ rounds'[c][n].funded
  BY <1>5, <1>7, <1>8, <1>9, <1>11 DEF Round, Full, Open, Finished, RoundRow
<1>13. Booked(c, n)'
  <2>1. Booked(c, n) /\ ~Finished(c, n) /\ ~Open(c, n)
    BY <1>3, <1>6 DEF Open, Finished, NoRound
  <2>2. escrow[c][n] = 0
    BY <2>1 DEF Booked
  <2> QED
    BY <1>10, <1>12, <2>1, <2>2 DEF Booked, RoundStake
<1>14. ASSUME NEW i \in Rounds, i # n
       PROVE  /\ SameOutcome(rounds[c][i], rounds'[c][i])
              /\ rounds'[c][i].next = rounds[c][i].next
              /\ i # m => rounds'[c][i] = rounds[c][i]
  BY <1>4, <1>9, <1>14 DEF SameOutcome, Row
<1>15. ASSUME NEW i \in Rounds, i # n PROVE Booked(c, i)' /\ Ordered(c, i)'
  <2>1. SameOutcome(rounds[c][i], rounds'[c][i]) /\ SameBooks(c, i) /\ Booked(c, i) /\ Ordered(c, i)
    BY <1>3, <1>10, <1>14, <1>15 DEF OtherBooks
  <2>2. Open(c, i)' = Open(c, i) /\ Finished(c, i)' = Finished(c, i)
    BY <2>1 DEF Open, Finished, SameOutcome
  <2>3. FiledAs(c, i)' = FiledAs(c, i)
    BY <1>8, <2>1 DEF FiledAs, HouseEarnings, SameOutcome
  <2>4. Booked(c, i)'
    BY <2>1, <2>2, <2>3 DEF Booked, SameBooks, SameOutcome
  <2>5. i < n => Finished(c, i)' /\ rounds'[c][i].next = Role
    BY <1>2, <1>5, <1>14, <1>15, <2>1, <2>2 DEF Ordered, Row
  <2>6. i > n => rounds'[c][i] = NoRound
    <3>1. i > n => i > m /\ i # m
      BY <1>2, <1>15, BoundsAssumption DEF Rounds
    <3> QED
      BY <1>14, <1>15, <2>1, <3>1 DEF Ordered
  <2> QED
    BY <1>11, <1>12, <2>4, <2>5, <2>6 DEF Ordered
<1>16. Ordered(c, n)'
  BY <1>11, <1>12, BoundsAssumption DEF Ordered, Rounds
<1>17. RoomLedger(c)'
  <2>1. Hosted(c)'
    BY <1>5, <1>8 DEF Hosted, Full, Role
  <2> QED
    BY <1>13, <1>15, <1>16, <2>1 DEF RoomLedger
<1>18. \A d \in Codes \ {c} : SameRows(d)
  BY <1>8, <1>9, <1>11 DEF SameRows
<1> QED
  BY <1>10, <1>17, <1>18, OneRoom

-----------------------------------------------------------------------------
(* Every step keeps the ledger.                                            *)

(* The commands of players.                                                *)
LEMMA CommandLedger ==
  ASSUME TypeInv, LedgerInv, Command
  PROVE  LedgerInv'
<1>1. ASSUME NEW a \in Accounts, NEW k \in Keys, NEW amount \in RechargeAmounts,
             RechargeCommand(a, amount, k)
      PROVE  LedgerInv'
  BY <1>1, Untouched DEF RechargeCommand, game
<1> QED
  BY <1>1, CreateLedger, JoinLedger, SubmitMoveLedger, RequestLedger, LeaveLedger DEF Command

(* The reconciler resolves a round with two moves, or starts the next.     *)
LEMMA ReconcileLedger ==
  ASSUME TypeInv, LedgerInv, NEW c \in Codes, Reconcile(c)
  PROVE  LedgerInv'
<1>1. CASE ReconcileResolve(c)
  <2>1. Round(c) # 0 /\ Row(c).funded /\ rooms[c].status = "active"
    BY <1>1 DEF ReconcileResolve, ClaimResolve, TypeInv, Started
  <2>2. Ends(Load(c), ResolveCommittedMoves(Load(c)))
    BY <2>1, LoadRoom, Endings DEF TypeInv, TypeOK
  <2>3. Row(c).result = NoResult
    BY <1>1 DEF ReconcileResolve, CanResolveCommittedMoves, CanResolve, Resolved, Load
  <2> QED
    BY <1>1, <2>1, <2>2, <2>3, EndingLedger DEF ReconcileResolve
<1> QED
  BY <1>1, AdvanceLedger DEF Reconcile

(* A deadline that settles a round found it open.                          *)
LEMMA SettleDeadlineLedger ==
  ASSUME TypeInv, LedgerInv, NEW d \in deadlines, NEW r,
         Round(d.room) # 0 => Ends(Load(d.room), r),
         CanResolve(Load(d.room), Round(d.room)), SettleDeadline(d, r)
  PROVE  LedgerInv'
<1>1. d.room \in Codes
  BY DEF TypeInv, TypeOK, LinkTypeOK, DeadlineType
<1>2. rooms[d.room].status = "active" /\ Row(d.room).funded
  BY DEF SettleDeadline, ClaimRoom, DueIn, ClaimDeadline, ActiveRound
<1>3. Round(d.room) # 0
  BY <1>1, <1>2 DEF TypeInv, Started
<1>4. Row(d.room).result = NoResult
  BY DEF CanResolve, Resolved, Load
<1> QED
  BY <1>1, <1>2, <1>3, <1>4, EndingLedger DEF SettleDeadline

(* The deadline worker cancels deadlines or settles the open round.        *)
LEMMA ProcessNextDeadlineLedger ==
  ASSUME TypeInv, LedgerInv, ProcessNextDeadline
  PROVE  LedgerInv'
<1>1. ASSUME NEW c \in Codes, CancelInapplicable(c) PROVE LedgerInv'
  BY <1>1, Untouched DEF CancelInapplicable, game, money
<1>2. ASSUME NEW d \in deadlines, CancelUnclaimed(d) \/ CancelDeadline(d) PROVE LedgerInv'
  BY <1>2, Untouched DEF CancelUnclaimed, CancelDeadline, game, money
<1>3. ASSUME NEW d \in deadlines, Round(d.room) # 0
      PROVE  Load(d.room) \in RoomType
  BY <1>3, LoadRoom DEF TypeInv, TypeOK, LinkTypeOK, DeadlineType
<1>4. ASSUME NEW d \in deadlines, ForfeitAbsent(d) PROVE LedgerInv'
  <2>1. d.role \in Role
    BY <1>4 DEF ForfeitAbsent, TypeInv, TypeOK, LinkTypeOK, DeadlineType
  <2>2. Round(d.room) # 0 => Ends(Load(d.room), Forfeit(Load(d.room), d.role))
    BY <1>3, <2>1, Endings
  <2> QED
    BY <1>4, <2>2, SettleDeadlineLedger DEF ForfeitAbsent, CanForfeit
<1>5. ASSUME NEW d \in deadlines, DrawAbsent(d) PROVE LedgerInv'
  BY <1>3, <1>5, Endings, SettleDeadlineLedger DEF DrawAbsent, CanResolveDeadlineDraw
<1>6. ASSUME NEW d \in deadlines, ResolveIdle(d) PROVE LedgerInv'
  BY <1>3, <1>6, Endings, SettleDeadlineLedger DEF ResolveIdle, CanResolveInactivity
<1> QED
  BY <1>1, <1>2, <1>4, <1>5, <1>6 DEF ProcessNextDeadline

(* Connections, leases and presence move no coin.                          *)
LEMMA ConnectLedger ==
  ASSUME TypeInv, LedgerInv, Connect
  PROVE  LedgerInv'
<1>1. ASSUME NEW a \in Accounts, NEW c \in Codes, NEW id \in Conns, OpenConnection(a, c, id)
      PROVE  LedgerInv'
  BY <1>1, BumpLedger, Untouched DEF OpenConnection, money
<1>2. ASSUME NEW k \in conns, NEW at, Disappear(k, at) PROVE LedgerInv'
  <2>1. k.room \in Codes
    BY DEF TypeInv, TypeOK, LinkTypeOK, ConnectionType
  <2> QED
    BY <1>2, <2>1, BumpLedger, Untouched DEF Disappear, money
<1>3. ASSUME NEW k \in conns, CloseConnection(k) \/ ReapExpiredConnection(k) PROVE LedgerInv'
  BY <1>2, <1>3 DEF CloseConnection, ReapExpiredConnection
<1>4. ASSUME NEW k \in conns, RenewConnection(k) \/ DeleteSession(k) PROVE LedgerInv'
  BY <1>4, Untouched DEF RenewConnection, DeleteSession, game, money
<1> QED
  BY <1>1, <1>3, <1>4 DEF Connect

(* Every step of Next.                                                     *)
LEMMA LedgerStep ==
  ASSUME TypeInv, LedgerInv, [Next]_vars
  PROVE  LedgerInv'
<1>1. ASSUME NEW k \in receipts, CleanupCommandReceipts(k) PROVE LedgerInv'
  BY <1>1, Untouched DEF CleanupCommandReceipts, game, money
<1>2. CASE Tick
  BY <1>2, Untouched DEF Tick, game, money
<1>3. CASE UNCHANGED vars
  BY <1>3, Untouched DEF vars, game, money
<1> QED
  BY <1>1, <1>2, <1>3, CommandLedger, ReconcileLedger, ConnectLedger, ProcessNextDeadlineLedger
     DEF Next

(* An empty database has an empty ledger.                                  *)
LEMMA LedgerInit ==
  ASSUME Init
  PROVE  LedgerInv
<1> SUFFICES ASSUME NEW c \in Codes
             PROVE  RoomLedger(c)
  BY DEF LedgerInv
<1>1. rooms[c].status = "none" /\ Round(c) = 0
  BY DEF Init, NoRoom, Round
<1>2. ASSUME NEW n \in Rounds PROVE Booked(c, n) /\ Ordered(c, n)
  <2>1. rounds[c][n] = NoRound /\ ~Open(c, n) /\ ~Finished(c, n) /\ ~rounds[c][n].funded
    BY <1>2 DEF Init, NoRound, Open, Finished
  <2>2. ~(n < Round(c))
    BY <1>1, <1>2 DEF Rounds
  <2>3. Booked(c, n)
    BY <1>2, <2>1 DEF Init, Booked, Filed
  <2> QED
    BY <2>1, <2>2, <2>3 DEF Ordered
<1> QED
  BY <1>1, <1>2 DEF RoomLedger, Hosted

(* The ledger invariant holds in every reachable state.                    *)
LEMMA LedgerInvariance == Spec => []LedgerInv
<1>1. TypeInv /\ LedgerInv /\ [Next]_vars => LedgerInv'
  BY LedgerStep
<1> QED
  BY <1>1, LedgerInit, TypeInvariance, PTL DEF Spec

-----------------------------------------------------------------------------
(* fundRound and settleRound, whoever calls them and in whatever order,    *)
(* keep both stakes of a round in its escrow exactly while it is open.     *)
THEOREM StakesInEscrow == Spec => []EscrowHoldsStakes
<1>1. LedgerInv => EscrowHoldsStakes
  BY DEF LedgerInv, RoomLedger, Booked, EscrowHoldsStakes
<1> QED
  BY <1>1, LedgerInvariance, PTL

(* The races of moves, forfeits, draws and timeouts settle a round once:   *)
(* its history row and its settlement are those of the result on its row.  *)
THEOREM SettledOnce == Spec => []SettlementMatchesRound
<1>1. LedgerInv => SettlementMatchesRound
  <2> SUFFICES ASSUME LedgerInv, NEW c \in Codes, NEW n \in Rounds
               PROVE  /\ Filed(c, n) = IF ~Finished(c, n) THEN {} ELSE {FiledAs(c, n)}
                      /\ <<c, n>> \in settled <=> Finished(c, n)
                      /\ <<c, n>> \in staked <=> rounds[c][n].funded
    BY DEF SettlementMatchesRound, Filed, FiledAs
  <2>1. Booked(c, n)
    BY DEF LedgerInv, RoomLedger
  <2> QED
    BY <2>1 DEF Booked
<1> QED
  BY <1>1, LedgerInvariance, PTL

(* AdvanceCommittedNextRound and LeaveCommand leave no round of a room     *)
(* open but the current one of an active room with two players.            *)
THEOREM RoundsInOrder == Spec => []OneOpenRound
<1>1. LedgerInv => OneOpenRound
  BY DEF LedgerInv, RoomLedger, Ordered, OneOpenRound
<1> QED
  BY <1>1, LedgerInvariance, PTL

-----------------------------------------------------------------------------
(* What a transaction may never do to a room: revise what was played, or   *)
(* change what players see without a new revision.                         *)

(* A round that is played has no result, and a funded round without a      *)
(* result is played.                                                       *)
Labelled(row) ==
  /\ row.status = "active" => row.result = NoResult
  /\ row.funded /\ row.result = NoResult => row.status = "active"

LabelInv == \A c \in Codes, n \in Rounds : Labelled(rounds[c][n])

(* A round row keeps its moves, and everything once it has a result.       *)
Keeps(old, new) ==
  /\ Labelled(old) => Labelled(new)
  /\ \A p \in Role : old.moves[p] # NoMove => new.moves[p] = old.moves[p]
  /\ old.result # NoResult => /\ new.result = old.result
                              /\ new.forfeited = old.forfeited
                              /\ new.moves = old.moves

KeepsAll ==
  /\ history \subseteq history'
  /\ \A c \in Codes, n \in Rounds : Keeps(rounds[c][n], rounds'[c][n])

(* What a player can see of a room.                                        *)
Seen(c) == <<rooms[c], seats[c], wins[c], rounds[c], presence[c]["host"].present,
             presence[c]["guest"].present>>

(* A step that shows something new of the room c alone, if of any.         *)
Shows(c) == /\ rooms'[c].revision > rooms[c].revision
            /\ \A d \in Codes \ {c} : Seen(d)' = Seen(d)

Honest == KeepsAll /\ ((\E c \in Codes : Shows(c)) \/ \A d \in Codes : Seen(d)' = Seen(d))

-----------------------------------------------------------------------------
(* A step that writes nothing of what was played or is seen.               *)
LEMMA Unseen ==
  ASSUME UNCHANGED <<rooms, seats, wins, rounds, history>>,
         \A d \in Codes, p \in Role : presence'[d][p].present = presence[d][p].present
  PROVE  Honest
BY DEF Honest, KeepsAll, Keeps, Labelled, Seen, Role

(* A step that writes one row of one room and takes a revision of it.      *)
LEMMA RowWritten ==
  ASSUME TypeInv, NEW c \in Codes, NEW n \in Rounds, NEW row \in RoundType,
         Keeps(rounds[c][n], row), rounds' = [rounds EXCEPT ![c][n] = row],
         history \subseteq history',
         rooms'[c].revision > rooms[c].revision,
         \A d \in Codes \ {c} :
           /\ rooms'[d] = rooms[d] /\ seats'[d] = seats[d] /\ wins'[d] = wins[d]
           /\ \A p \in Role : presence'[d][p].present = presence[d][p].present
  PROVE  Honest
<1>1. /\ rounds'[c][n] = row
      /\ \A d \in Codes, m \in Rounds : <<d, m>> # <<c, n>> => rounds'[d][m] = rounds[d][m]
  <2>1. rounds \in [Codes -> [Rounds -> RoundType]]
    BY DEF TypeInv, TypeOK, GameTypeOK
  <2> QED
    BY <2>1
<1>2. \A d \in Codes \ {c} : rounds'[d] = rounds[d]
  BY DEF TypeInv, TypeOK, GameTypeOK
<1>3. ASSUME NEW d \in Codes, NEW m \in Rounds PROVE Keeps(rounds[d][m], rounds'[d][m])
  <2>1. CASE d = c /\ m = n
    BY <1>1, <2>1
  <2>2. CASE ~(d = c /\ m = n)
    BY <1>1, <2>2 DEF Keeps, Labelled
  <2> QED
    BY <2>1, <2>2
<1>4. Shows(c)
  BY <1>2 DEF Shows, Seen, Role
<1> QED
  BY <1>3, <1>4 DEF Honest, KeepsAll

(* save, of a room that keeps what was played in the current round.        *)
LEMMA SaveHonest ==
  ASSUME TypeInv, NEW c \in Codes, NEW r \in RoomType, r.round \in Rounds,
         NEW funded \in BOOLEAN, Save(c, r, funded),
         Keeps(rounds[c][r.round], RoundRow(r, funded)), history \subseteq history',
         \A d \in Codes \ {c} :
           /\ seats'[d] = seats[d]
           /\ \A p \in Role : presence'[d][p].present = presence[d][p].present
  PROVE  Honest
<1> DEFINE row == RoundRow(r, funded)
           n == r.round
<1>1. SaveRoom(c, r) /\ rounds' = [rounds EXCEPT ![c][n] = row]
  BY DEF Save
<1>2. row \in RoundType
  BY RowType
<1>3. rooms'[c].revision = rooms[c].revision + 1 /\ \A d \in Codes \ {c} : rooms'[d] = rooms[d]
  BY <1>1, SaveRows DEF TypeInv, TypeOK
<1>4. \A d \in Codes \ {c} : wins'[d] = wins[d]
  BY <1>1 DEF SaveRoom, TypeInv, TypeOK, GameTypeOK
<1>5. rooms'[c].revision > rooms[c].revision
  BY <1>3 DEF TypeInv, TypeOK, GameTypeOK
<1>6. Keeps(rounds[c][n], row) /\ n \in Rounds
  OBVIOUS
<1> HIDE DEF row, n
<1> QED
  BY <1>1, <1>2, <1>3, <1>4, <1>5, <1>6, RowWritten

-----------------------------------------------------------------------------
(* A new room gets a first round that did not exist.                       *)
LEMMA CreateHonest ==
  ASSUME TypeInv, RevisionInv, LedgerInv, NEW a \in Accounts, NEW c \in Codes, NEW k \in Keys,
         CreateCommand(a, c, k)
  PROVE  Honest
<1> DEFINE row == [NoRound EXCEPT !.status = "active"]
<1>1. rounds[c][1] = NoRound /\ 1 \in Rounds
  BY BoundsAssumption
  DEF CreateCommand, TypeInv, Started, LedgerInv, RoomLedger, Ordered, Rounds, Round
<1>2. row \in RoundType /\ Keeps(NoRound, row)
  BY DEF NoRound, RoundType, Keeps, Labelled
<1>3. rounds' = [rounds EXCEPT ![c][1] = row]
  BY DEF CreateCommand
<1>4. rooms'[c].revision > rooms[c].revision /\ \A d \in Codes \ {c} : rooms'[d] = rooms[d]
  BY CreateTakes DEF Takes, TypeInv, TypeOK, GameTypeOK
<1>5. /\ UNCHANGED <<wins, presence, history>>
      /\ \A d \in Codes \ {c} : seats'[d] = seats[d]
  BY DEF CreateCommand, money, connectivity, TypeInv, TypeOK, GameTypeOK
<1> HIDE DEF row
<1> QED
  BY <1>1, <1>2, <1>3, <1>4, <1>5, RowWritten

(* The guest's arrival leaves the moves and the result of the round.       *)
LEMMA JoinHonest ==
  ASSUME TypeInv, NEW a \in Accounts, NEW c \in Codes, NEW k \in Keys, JoinCommand(a, c, k)
  PROVE  Honest
<1> DEFINE r == Join(Load(c))
<1> USE DEF TypeInv
<1>1. Round(c) # 0
  BY DEF JoinCommand, Started
<1>2. /\ r \in RoomType /\ r.round = Round(c) /\ r.round \in Rounds /\ Row(c) \in RoundType
      /\ r.result = Row(c).result /\ r.forfeited = Row(c).forfeited /\ r.moves = Row(c).moves
  BY <1>1, LoadRoom DEF Join, Load, RoomType, RoundType, TypeOK
<1>3. Save(c, r, TRUE) /\ TRUE \in BOOLEAN /\ history' = history
  BY DEF JoinCommand
<1>4. \A d \in Codes \ {c} : seats'[d] = seats[d] /\ presence'[d] = presence[d]
  BY DEF JoinCommand, TypeOK, GameTypeOK, LinkTypeOK
<1> HIDE DEF r
<1>5. Keeps(rounds[c][r.round], RoundRow(r, TRUE))
  BY <1>2 DEF Keeps, Labelled, Resolved, RoundRow, Row
<1> QED
  BY <1>2, <1>3, <1>4, <1>5, SaveHonest

(* recordRoomAction adds a move where there was none, in an open round.    *)
LEMMA SubmitMoveHonest ==
  ASSUME TypeInv, LabelInv, NEW a, NEW c \in Codes, NEW throw \in Throws, NEW k \in Keys,
         SubmitMoveCommand(a, c, throw, k)
  PROVE  Honest
<1> USE DEF TypeInv
<1>1. PICK p \in Role : /\ RecordRoomAction(c, k, "active") /\ NewMove(c, p)
                        /\ rounds' = [rounds EXCEPT ![c][Round(c)].moves[p] = throw]
  BY DEF SubmitMoveCommand
<1>2. Round(c) # 0
  BY <1>1 DEF RecordRoomAction, Started
<1>3. WithMove(c, p, throw) \in RoundType
  BY <1>2, MoveRow
<1>4. Round(c) \in Rounds /\ rounds \in [Codes -> [Rounds -> RoundType]]
  BY <1>2, LoadRoom DEF TypeOK, GameTypeOK
<1>5. rounds' = [rounds EXCEPT ![c][Round(c)] = WithMove(c, p, throw)]
  BY <1>1, <1>4 DEF WithMove, Row
<1>6. Row(c).result = NoResult
  BY <1>1, <1>4 DEF RecordRoomAction, LabelInv, Labelled, Row
<1>7. Keeps(rounds[c][Round(c)], WithMove(c, p, throw))
  BY <1>1, <1>4, <1>6 DEF Keeps, Labelled, WithMove, Row, NewMove, RoundType
<1>8. /\ rooms'[c].revision > rooms[c].revision
      /\ \A d \in Codes \ {c} : rooms'[d] = rooms[d]
      /\ UNCHANGED <<seats, wins, history, presence>>
  BY <1>1, BumpRows DEF RecordRoomAction, money, connectivity, TypeOK, GameTypeOK
<1> QED
  BY <1>3, <1>4, <1>5, <1>7, <1>8, RowWritten

(* A request for the next round leaves what was played.                    *)
LEMMA RequestHonest ==
  ASSUME TypeInv, NEW a, NEW c \in Codes, NEW k \in Keys, RequestNextRoundCommand(a, c, k)
  PROVE  Honest
<1> USE DEF TypeInv
<1>1. PICK p \in Role : /\ RecordRoomAction(c, k, "resolved")
                        /\ rounds' = [rounds EXCEPT ![c][Round(c)].next = @ \cup {p}]
  BY DEF RequestNextRoundCommand
<1>2. Round(c) # 0
  BY <1>1 DEF RecordRoomAction, Started
<1>3. WithRequest(c, p) \in RoundType
  BY <1>2, RequestRow
<1>4. rounds' = [rounds EXCEPT ![c][Round(c)] = WithRequest(c, p)]
  BY <1>1, <1>2, RequestRow
<1>5. Round(c) \in Rounds /\ Row(c) \in RoundType
  BY <1>2, LoadRoom DEF TypeOK
<1>6. Keeps(rounds[c][Round(c)], WithRequest(c, p))
  BY <1>5 DEF Keeps, Labelled, WithRequest, Row, RoundType
<1>7. /\ rooms'[c].revision > rooms[c].revision
      /\ \A d \in Codes \ {c} : rooms'[d] = rooms[d]
      /\ UNCHANGED <<seats, wins, history, presence>>
  BY <1>1, BumpRows DEF RecordRoomAction, money, connectivity, TypeOK, GameTypeOK
<1> QED
  BY <1>3, <1>4, <1>5, <1>6, <1>7, RowWritten

(* Leaving closes the room and leaves what was played.                     *)
LEMMA LeaveHonest ==
  ASSUME TypeInv, NEW a, NEW c \in Codes, NEW k \in Keys, LeaveCommand(a, c, k)
  PROVE  Honest
<1> DEFINE r == Leave(Load(c))
<1> USE DEF TypeInv
<1>1. Round(c) # 0
  BY DEF LeaveCommand, Started
<1>2. /\ r \in RoomType /\ r.round = Round(c) /\ r.round \in Rounds /\ Row(c) \in RoundType
      /\ r.result = Row(c).result /\ r.forfeited = Row(c).forfeited /\ r.moves = Row(c).moves
  BY <1>1, LoadRoom DEF Leave, Load, RoomType, RoundType, TypeOK
<1>3. /\ Save(c, r, Row(c).funded) /\ Row(c).funded \in BOOLEAN
      /\ UNCHANGED <<seats, presence, history>>
  BY <1>2 DEF LeaveCommand, money, connectivity, RoundType
<1> HIDE DEF r
<1>4. Keeps(rounds[c][r.round], RoundRow(r, Row(c).funded))
  BY <1>2 DEF Keeps, Labelled, Resolved, RoundRow, Row
<1> QED
  BY <1>2, <1>3, <1>4, SaveHonest

(* A round is ended only while it has no result, with the moves it has.    *)
LEMMA EndingHonest ==
  ASSUME TypeInv, NEW c \in Codes, Round(c) # 0, NEW r, Ends(Load(c), r),
         Row(c).result = NoResult, Save(c, r, TRUE), SettleRound(c, r),
         UNCHANGED <<seats, connectivity>>
  PROVE  Honest
<1>1. /\ r \in RoomType /\ r.round = Round(c) /\ r.round \in Rounds
      /\ r.moves = Row(c).moves
  <2>1. Load(c).moves = Row(c).moves
    BY DEF Load
  <2> QED
    BY <2>1, LoadRoom DEF Ends, TypeInv, TypeOK
<1>2. Keeps(rounds[c][r.round], RoundRow(r, TRUE))
  BY <1>1 DEF Keeps, Labelled, Resolved, RoundRow, Row
<1>3. history \subseteq history'
  BY DEF SettleRound, money
<1> QED
  BY <1>1, <1>2, <1>3, SaveHonest DEF connectivity

(* The next round is one that did not exist; the old one keeps its result. *)
LEMMA AdvanceHonest ==
  ASSUME TypeInv, LedgerInv, NEW c \in Codes, ReconcileAdvance(c)
  PROVE  Honest
<1> DEFINE r == Advance(Load(c))
           old == [Row(c) EXCEPT !.status = "resolved"]
           new == RoundRow(r, TRUE)
<1> USE DEF TypeInv
<1>1. Round(c) # 0 /\ Round(c) \in Rounds /\ Row(c) \in RoundType
  BY LoadRoom DEF ReconcileAdvance, ClaimAdvance, TypeOK, Started
<1> PICK m \in Rounds : m = Round(c)
  BY <1>1
<1> PICK n \in Rounds : n = m + 1
  BY <1>1, BoundsAssumption DEF ReconcileAdvance, Rounds
<1>2. rounds[c][n] = NoRound
  BY BoundsAssumption DEF LedgerInv, RoomLedger, Ordered, Rounds
<1>3. rounds' = [[rounds EXCEPT ![c][m] = old] EXCEPT ![c][n] = new]
  BY DEF ReconcileAdvance, Row, TypeOK, GameTypeOK
<1>4. Keeps(Row(c), old)
  <2>1. Row(c).result # NoResult
    BY DEF ReconcileAdvance, CanAdvance, Resolved, Load
  <2> QED
    BY <1>1, <2>1 DEF Keeps, Labelled, RoundType
<1>5. Keeps(NoRound, new)
  <2>1. \A s : RoundRow(s, TRUE).status = "active" <=> RoundRow(s, TRUE).result = NoResult
    BY DEF RoundRow, Resolved
  <2> QED
    BY <2>1 DEF Keeps, Labelled, NoRound
<1>6. r \in RoomType /\ r.round \in Rounds
  <2>1. Load(c) \in RoomType /\ Load(c).round = m
    BY <1>1, LoadRoom DEF TypeOK
  <2>2. [p \in Role |-> NoMove] \in [Role -> Throw \cup {NoMove}]
    OBVIOUS
  <2>3. Load(c).round + 1 = n /\ n \in Nat
    BY <2>1, BoundsAssumption DEF Rounds
  <2> QED
    BY <2>1, <2>2, <2>3 DEF Advance, RoomType
<1>7. SaveRoom(c, r) /\ UNCHANGED <<seats, history, presence>>
  BY DEF ReconcileAdvance, connectivity
<1> HIDE DEF r, old, new
<1>8. /\ rooms'[c].revision = rooms[c].revision + 1
      /\ \A d \in Codes \ {c} : rooms'[d] = rooms[d] /\ wins'[d] = wins[d]
  BY <1>6, <1>7, SaveRows DEF SaveRoom, TypeOK, GameTypeOK
<1>9. rooms'[c].revision > rooms[c].revision
  BY <1>8 DEF TypeOK, GameTypeOK
<1>10. \A d \in Codes \ {c} : rounds'[d] = rounds[d]
  BY <1>3 DEF TypeOK, GameTypeOK
<1>11. Keeps(rounds[c][n], rounds'[c][n]) /\ (m # n => Keeps(rounds[c][m], rounds'[c][m]))
  BY <1>2, <1>3, <1>4, <1>5 DEF Row, TypeOK, GameTypeOK
<1>12. \A i \in Rounds \ {n, m} : rounds'[c][i] = rounds[c][i]
  BY <1>3 DEF TypeOK, GameTypeOK
<1>13. ASSUME NEW d \in Codes, NEW i \in Rounds PROVE Keeps(rounds[d][i], rounds'[d][i])
  <2>1. CASE d = c /\ i \in {n, m}
    BY <1>11, <2>1
  <2>2. CASE ~(d = c /\ i \in {n, m})
    BY <1>10, <1>12, <2>2 DEF Keeps, Labelled
  <2> QED
    BY <2>1, <2>2
<1>14. Shows(c)
  BY <1>7, <1>8, <1>9, <1>10 DEF Shows, Seen
<1> QED
  BY <1>7, <1>13, <1>14 DEF Honest, KeepsAll

(* The reconciler ends an open round or starts the next one.               *)
LEMMA ReconcileHonest ==
  ASSUME TypeInv, LedgerInv, NEW c \in Codes, Reconcile(c)
  PROVE  Honest
<1>1. CASE ReconcileResolve(c)
  <2>1. Round(c) # 0 /\ Row(c).result = NoResult
    BY <1>1 DEF ReconcileResolve, ClaimResolve, CanResolveCommittedMoves, CanResolve, Resolved,
               Load, TypeInv, Started
  <2>2. Ends(Load(c), ResolveCommittedMoves(Load(c)))
    BY <2>1, LoadRoom, Endings DEF TypeInv, TypeOK
  <2> QED
    BY <1>1, <2>1, <2>2, EndingHonest DEF ReconcileResolve
<1> QED
  BY <1>1, AdvanceHonest DEF Reconcile

(* A deadline ends a round that is open.                                   *)
LEMMA SettleDeadlineHonest ==
  ASSUME TypeInv, NEW d \in deadlines, NEW r, Round(d.room) # 0 => Ends(Load(d.room), r),
         CanResolve(Load(d.room), Round(d.room)), SettleDeadline(d, r)
  PROVE  Honest
<1>1. d.room \in Codes
  BY DEF TypeInv, TypeOK, LinkTypeOK, DeadlineType
<1>2. Round(d.room) # 0
  BY <1>1 DEF SettleDeadline, ClaimRoom, DueIn, ClaimDeadline, ActiveRound, TypeInv, Started
<1>3. Row(d.room).result = NoResult
  BY DEF CanResolve, Resolved, Load
<1> QED
  BY <1>1, <1>2, <1>3, EndingHonest DEF SettleDeadline

(* The deadline worker ends one open round or drops deadlines.             *)
LEMMA ProcessNextDeadlineHonest ==
  ASSUME TypeInv, ProcessNextDeadline
  PROVE  Honest
<1>1. ASSUME UNCHANGED <<game, money, connectivity>> PROVE Honest
  BY <1>1, Unseen DEF game, money, connectivity
<1>2. ASSUME NEW d \in deadlines, Round(d.room) # 0
      PROVE  Load(d.room) \in RoomType
  BY <1>2, LoadRoom DEF TypeInv, TypeOK, LinkTypeOK, DeadlineType
<1>3. ASSUME NEW d \in deadlines, ForfeitAbsent(d) PROVE Honest
  <2>1. d.role \in Role
    BY <1>3 DEF ForfeitAbsent, TypeInv, TypeOK, LinkTypeOK, DeadlineType
  <2>2. Round(d.room) # 0 => Ends(Load(d.room), Forfeit(Load(d.room), d.role))
    BY <1>2, <2>1, Endings
  <2> QED
    BY <1>3, <2>2, SettleDeadlineHonest DEF ForfeitAbsent, CanForfeit
<1>4. ASSUME NEW d \in deadlines, DrawAbsent(d) PROVE Honest
  BY <1>2, <1>4, Endings, SettleDeadlineHonest DEF DrawAbsent, CanResolveDeadlineDraw
<1>5. ASSUME NEW d \in deadlines, ResolveIdle(d) PROVE Honest
  BY <1>2, <1>5, Endings, SettleDeadlineHonest DEF ResolveIdle, CanResolveInactivity
<1> QED
  BY <1>1, <1>3, <1>4, <1>5
  DEF ProcessNextDeadline, CancelInapplicable, CancelUnclaimed, CancelDeadline

(* Presence of one role of one room changes with a revision of that room.  *)
LEMMA PresenceHonest ==
  ASSUME TypeInv, NEW c \in Codes, NEW p \in Role, NEW seat,
         presence' = [presence EXCEPT ![c][p] = seat], BumpRevision(c),
         UNCHANGED <<seats, wins, rounds, history>>
  PROVE  Honest
<1>1. \A d \in Codes \ {c} : presence'[d] = presence[d]
  BY DEF TypeInv, TypeOK, LinkTypeOK
<1>2. /\ rooms'[c].revision > rooms[c].revision
      /\ \A d \in Codes \ {c} : rooms'[d] = rooms[d]
  BY BumpRows DEF TypeInv, TypeOK, GameTypeOK
<1> QED
  BY <1>1, <1>2 DEF Honest, KeepsAll, Keeps, Labelled, Shows, Seen

(* Connections show a player's absence or return, or nothing.              *)
LEMMA ConnectHonest ==
  ASSUME TypeInv, Connect
  PROVE  Honest
<1>1. ASSUME UNCHANGED <<rooms, seats, wins, rounds, history, presence>> PROVE Honest
  BY <1>1, Unseen
<1>2. ASSUME NEW a \in Accounts, NEW c \in Codes, NEW id \in Conns, OpenConnection(a, c, id)
      PROVE  Honest
  BY <1>1, <1>2, PresenceHonest DEF OpenConnection, money
<1>3. ASSUME NEW k \in conns, NEW at, Disappear(k, at) PROVE Honest
  <2>1. k.room \in Codes /\ k.role \in Role
    BY DEF TypeInv, TypeOK, LinkTypeOK, ConnectionType
  <2> QED
    BY <1>1, <1>3, <2>1, PresenceHonest DEF Disappear, money
<1>4. ASSUME NEW k \in conns, RenewConnection(k) \/ DeleteSession(k) PROVE Honest
  BY <1>1, <1>4 DEF RenewConnection, DeleteSession, game, money
<1> QED
  BY <1>2, <1>3, <1>4 DEF Connect, CloseConnection, ReapExpiredConnection

(* Every transaction, of whichever kind.                                   *)
LEMMA StepHonest ==
  ASSUME TypeInv, RevisionInv, LedgerInv, LabelInv, [Next]_vars
  PROVE  Honest
<1>1. ASSUME UNCHANGED <<game, history, connectivity>> PROVE Honest
  BY <1>1, Unseen DEF game, connectivity
<1>2. CASE Command
  <2>1. ASSUME NEW a \in Accounts, NEW k \in Keys, NEW amount \in RechargeAmounts,
               RechargeCommand(a, amount, k)
        PROVE  Honest
    BY <1>1, <2>1 DEF RechargeCommand
  <2> QED
    BY <1>2, <2>1, CreateHonest, JoinHonest, SubmitMoveHonest, RequestHonest, LeaveHonest
    DEF Command
<1>3. ASSUME (\E k \in receipts : CleanupCommandReceipts(k)) \/ Tick \/ UNCHANGED vars
      PROVE  Honest
  BY <1>1, <1>3 DEF CleanupCommandReceipts, Tick, vars, money
<1> QED
  BY <1>2, <1>3, ReconcileHonest, ConnectHonest, ProcessNextDeadlineHonest DEF Next

(* Every reachable round is labelled so.                                   *)
LEMMA LabelInvariance == Spec => []LabelInv
<1>1. Init => LabelInv
  BY DEF Init, LabelInv, Labelled, NoRound
<1>2. TypeInv /\ RevisionInv /\ LedgerInv /\ LabelInv /\ [Next]_vars => LabelInv'
  BY StepHonest DEF Honest, KeepsAll, Keeps, LabelInv
<1> QED
  BY <1>1, <1>2, TypeInvariance, RevisionInvariance, LedgerInvariance, PTL DEF Spec

(* Whatever the order of moves, requests, deadlines and reconciliation, no *)
(* transaction replaces a committed move, revises a result, adds a move to *)
(* a round that has one, or rewrites the history.                          *)
THEOREM OutcomesStand == Spec => OutcomeImmutable
<1>1. TypeInv /\ RevisionInv /\ LedgerInv /\ LabelInv /\ [Next]_vars =>
        [/\ history \subseteq history'
         /\ \A c \in Codes, n \in Rounds :
              LET old == rounds[c][n]
                  new == rounds'[c][n]
              IN
              /\ \A p \in Role : old.moves[p] # NoMove => new.moves[p] = old.moves[p]
              /\ Finished(c, n) => /\ new.result = old.result
                                   /\ new.forfeited = old.forfeited
                                   /\ new.moves = old.moves]_vars
  BY StepHonest DEF Honest, KeepsAll, Keeps, Labelled, Finished
<1> QED
  BY <1>1, TypeInvariance, RevisionInvariance, LedgerInvariance, LabelInvariance, PTL
  DEF Spec, OutcomeImmutable

(* A browser that ignores frames of the revision it shows misses nothing:  *)
(* every transaction that changes what it would show takes a revision.     *)
THEOREM NothingUnseen == Spec => VisibleChangeBumpsRevision
<1>1. TypeInv /\ RevisionInv /\ LedgerInv /\ LabelInv /\ [Next]_vars =>
        [\A c \in Codes :
           \/ rooms'[c].revision > rooms[c].revision
           \/ /\ rooms'[c] = rooms[c] /\ seats'[c] = seats[c] /\ wins'[c] = wins[c]
              /\ rounds'[c] = rounds[c]
              /\ \A p \in Role : presence'[c][p].present = presence[c][p].present]_vars
  BY StepHonest DEF Honest, Shows, Seen, Role
<1> QED
  BY <1>1, TypeInvariance, RevisionInvariance, LedgerInvariance, LabelInvariance, PTL
  DEF Spec, VisibleChangeBumpsRevision

=============================================================================
