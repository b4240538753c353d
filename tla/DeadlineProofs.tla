--------------------------- MODULE DeadlineProofs ---------------------------
(***************************************************************************)
(* The deadlines of RoomStore fit the rounds and the presence they were    *)
(* made for, for any number of rooms, accounts and connections and any     *)
(* grace period, inactivity limit and lease.                               *)
(***************************************************************************)
EXTENDS LedgerProofs

(* The inactivity deadline of a round is pending.                          *)
Timing(c, n) == \E d \in deadlines : d.room = c /\ d.round = n /\ d.kind = "inactivity"

(* An open round is timed until both moves are in, and no other round is.  *)
Clocked(c, n) ==
  /\ Open(c, n) => Timing(c, n) \/ BothMoved(c, n)
  /\ Timing(c, n) => Open(c, n)

(* Grace periods belong to generations that have been.  Those of the       *)
(* current round are of absent players; only in the first round may one be *)
(* left of an older generation, from before the guest arrived.             *)
Graced(d) ==
  LET seat == presence[d.room][d.role] IN
  /\ 0 < d.gen /\ d.gen <= seat.gen
  /\ d.round = Round(d.room) /\ d.gen = seat.gen => ~seat.present
  /\ d.round = Round(d.room) /\ d.round > 1 => d.gen = seat.gen

(* No deadline is of a round to come.                                      *)
Placed(d) == d.round <= Round(d.room) /\ (d.kind = "disconnect" => Graced(d))

DeadlineInv ==
  /\ \A c \in Codes, n \in Rounds : Clocked(c, n)
  /\ \A d \in deadlines : Placed(d)

(* What the store keeps, all together.                                     *)
StoreInv == TypeInv /\ RevisionInv /\ LedgerInv /\ LabelInv /\ DeadlineInv

(* What every step but a forfeit does.                                     *)
Unforfeited ==
  \A c \in Codes, n \in Rounds : rounds[c][n].forfeited = NoRole => rounds'[c][n].forfeited = NoRole

-----------------------------------------------------------------------------
(* Frames.                                                                 *)

(* A row whose outcome stays and whose moves only come.                    *)
Kin(old, new) ==
  /\ SameOutcome(old, new)
  /\ \A p \in Role : old.moves[p] # NoMove => new.moves[p] = old.moves[p]

(* The columns of a deadline.                                              *)
LEMMA DeadlineColumns ==
  ASSUME TypeInv, NEW d \in deadlines
  PROVE  /\ d.room \in Codes /\ d.round \in Rounds /\ d.gen \in Nat /\ d.due \in Nat
         /\ d.kind \in {"disconnect", "inactivity"}
         /\ d.kind = "disconnect" => d.role \in Role
BY DEF TypeInv, TypeOK, LinkTypeOK, DeadlineType

(* A round that keeps its outcome, its moves and its timer.                *)
LEMMA Steady ==
  ASSUME DeadlineInv, NEW c \in Codes, NEW n \in Rounds, Kin(rounds[c][n], rounds'[c][n]),
         Timing(c, n)' <=> Timing(c, n)
  PROVE  Clocked(c, n)'
<1>1. Clocked(c, n) /\ (Open(c, n)' <=> Open(c, n))
  BY DEF DeadlineInv, Kin, SameOutcome, Open
<1>2. BothMoved(c, n) => BothMoved(c, n)'
  BY DEF Kin, BothMoved
<1> QED
  BY <1>1, <1>2 DEF Clocked

(* Commands that touch neither deadlines nor presence nor outcomes.        *)
LEMMA KinTimely ==
  ASSUME StoreInv, UNCHANGED <<deadlines, presence>>,
         \A c \in Codes, n \in Rounds : Kin(rounds[c][n], rounds'[c][n]),
         \A c \in Codes : Round(c) # 0 => Round(c)' = Round(c)
  PROVE  DeadlineInv' /\ Unforfeited
<1>1. ASSUME NEW c \in Codes, NEW n \in Rounds PROVE Clocked(c, n)'
  <2>1. Timing(c, n)' <=> Timing(c, n)
    BY DEF Timing
  <2> QED
    BY <2>1, Steady DEF StoreInv
<1>2. ASSUME NEW d \in deadlines PROVE Placed(d)'
  <2>1. Placed(d) /\ d.room \in Codes /\ d.round \in Rounds
    BY DeadlineColumns DEF StoreInv, DeadlineInv
  <2>2. Round(d.room)' = Round(d.room)
    BY <2>1 DEF Placed, Rounds
  <2> QED
    BY <2>1, <2>2 DEF Placed, Graced
<1> QED
  BY <1>1, <1>2 DEF DeadlineInv, Unforfeited, Kin, SameOutcome

(* A command that writes one row of a room and keeps its outcome.          *)
LEMMA RowTimely ==
  ASSUME StoreInv, NEW c \in Codes, NEW n \in Rounds, NEW row \in RoundType,
         Kin(rounds[c][n], row), rounds' = [rounds EXCEPT ![c][n] = row],
         UNCHANGED <<deadlines, presence>>,
         \A d \in Codes : Round(d) # 0 => Round(d)' = Round(d)
  PROVE  DeadlineInv' /\ Unforfeited
<1>1. /\ rounds'[c][n] = row
      /\ \A d \in Codes, m \in Rounds : <<d, m>> # <<c, n>> => rounds'[d][m] = rounds[d][m]
  <2>1. rounds \in [Codes -> [Rounds -> RoundType]]
    BY DEF StoreInv, TypeInv, TypeOK, GameTypeOK
  <2> QED
    BY <2>1
<1>2. ASSUME NEW d \in Codes, NEW m \in Rounds PROVE Kin(rounds[d][m], rounds'[d][m])
  <2>1. CASE d = c /\ m = n
    BY <1>1, <2>1
  <2>2. CASE ~(d = c /\ m = n)
    BY <1>1, <2>2 DEF Kin, SameOutcome
  <2> QED
    BY <2>1, <2>2
<1> QED
  BY <1>2, KinTimely

(* FundRound starts the timer of its round, and no other.                  *)
LEMMA TimerStarts ==
  ASSUME NEW c, NEW n, deadlines' = deadlines \cup {InactivityDeadline(c, n)}
  PROVE  /\ Timing(c, n)'
         /\ \A d \in Codes, m \in Rounds :
              <<d, m>> # <<c, n>> => (Timing(d, m)' <=> Timing(d, m))
         /\ \A d \in deadlines' :
              d \in deadlines \/ (d.room = c /\ d.round = n /\ d.kind = "inactivity")
<1>1. PICK timer : timer = InactivityDeadline(c, n)
  OBVIOUS
<1>2. timer.room = c /\ timer.round = n /\ timer.kind = "inactivity"
  BY <1>1 DEF InactivityDeadline
<1>3. deadlines' = deadlines \cup {timer}
  BY <1>1
<1>4. Timing(c, n)'
  BY <1>2, <1>3 DEF Timing
<1>5. ASSUME NEW d \in Codes, NEW m \in Rounds, <<d, m>> # <<c, n>>
      PROVE  Timing(d, m)' <=> Timing(d, m)
  BY <1>2, <1>3, <1>5 DEF Timing
<1>6. \A d \in deadlines' : d \in deadlines \/ (d.room = c /\ d.round = n /\ d.kind = "inactivity")
  BY <1>2, <1>3
<1> QED
  BY <1>4, <1>5, <1>6

-----------------------------------------------------------------------------
(* The commands of players.                                                *)

(* A new room has no deadline.                                             *)
LEMMA CreateTimely ==
  ASSUME StoreInv, NEW a \in Accounts, NEW c \in Codes, NEW k \in Keys, CreateCommand(a, c, k)
  PROVE  DeadlineInv' /\ Unforfeited
<1> DEFINE row == [NoRound EXCEPT !.status = "active"]
<1>1. Round(c) = 0 /\ rounds[c][1] = NoRound /\ 1 \in Rounds
  BY BoundsAssumption
  DEF CreateCommand, StoreInv, TypeInv, Started, LedgerInv, RoomLedger, Ordered, Rounds, Round
<1>2. row \in RoundType /\ Kin(NoRound, row)
  BY DEF NoRound, RoundType, Kin, SameOutcome
<1>3. rounds' = [rounds EXCEPT ![c][1] = row] /\ UNCHANGED <<deadlines, presence>>
  BY DEF CreateCommand, connectivity
<1>4. \A d \in Codes : Round(d) # 0 => Round(d)' = Round(d)
  BY <1>1 DEF CreateCommand, Round, StoreInv, TypeInv, TypeOK, GameTypeOK
<1> HIDE DEF row
<1> QED
  BY <1>1, <1>2, <1>3, <1>4, RowTimely

(* A move joins those of an open round.                                    *)
LEMMA SubmitMoveTimely ==
  ASSUME StoreInv, NEW a, NEW c \in Codes, NEW throw \in Throws, NEW k \in Keys,
         SubmitMoveCommand(a, c, throw, k)
  PROVE  DeadlineInv' /\ Unforfeited
<1> USE DEF StoreInv, TypeInv
<1>1. PICK p \in Role : /\ RecordRoomAction(c, k, "active") /\ NewMove(c, p)
                        /\ rounds' = [rounds EXCEPT ![c][Round(c)].moves[p] = throw]
  BY DEF SubmitMoveCommand
<1>2. Round(c) # 0
  BY <1>1 DEF RecordRoomAction, Started
<1>3. WithMove(c, p, throw) \in RoundType
  BY <1>2, MoveRow
<1>4. Round(c) \in Rounds /\ rounds \in [Codes -> [Rounds -> RoundType]]
  BY <1>2, LoadRoom DEF TypeOK, GameTypeOK
<1>5. rounds' = [rounds EXCEPT ![c][Round(c)] = WithMove(c, p, throw)]
  BY <1>1, <1>4 DEF WithMove, Row
<1>6. Kin(rounds[c][Round(c)], WithMove(c, p, throw))
  BY <1>1, <1>4 DEF Kin, SameOutcome, WithMove, Row, NewMove, RoundType
<1>7. UNCHANGED <<deadlines, presence>> /\ \A d \in Codes : Round(d)' = Round(d)
  BY <1>1, BumpRows DEF RecordRoomAction, connectivity, TypeOK, Round
<1> QED
  BY <1>3, <1>4, <1>5, <1>6, <1>7, RowTimely

(* A request changes neither moves nor outcome.                            *)
LEMMA RequestTimely ==
  ASSUME StoreInv, NEW a, NEW c \in Codes, NEW k \in Keys, RequestNextRoundCommand(a, c, k)
  PROVE  DeadlineInv' /\ Unforfeited
<1> USE DEF StoreInv, TypeInv
<1>1. PICK p \in Role : /\ RecordRoomAction(c, k, "resolved")
                        /\ rounds' = [rounds EXCEPT ![c][Round(c)].next = @ \cup {p}]
  BY DEF RequestNextRoundCommand
<1>2. Round(c) # 0
  BY <1>1 DEF RecordRoomAction, Started
<1>3. /\ WithRequest(c, p) \in RoundType
      /\ rounds' = [rounds EXCEPT ![c][Round(c)] = WithRequest(c, p)]
  BY <1>1, <1>2, RequestRow
<1>4. Round(c) \in Rounds /\ Row(c) \in RoundType
  BY <1>2, LoadRoom DEF TypeOK
<1>5. Kin(rounds[c][Round(c)], WithRequest(c, p))
  BY <1>4 DEF Kin, SameOutcome, WithRequest, Row, RoundType
<1>6. UNCHANGED <<deadlines, presence>> /\ \A d \in Codes : Round(d)' = Round(d)
  BY <1>1, BumpRows DEF RecordRoomAction, connectivity, TypeOK, Round
<1> QED
  BY <1>3, <1>4, <1>5, <1>6, RowTimely

(* Leaving writes back the round as it was.                                *)
LEMMA LeaveTimely ==
  ASSUME StoreInv, NEW a, NEW c \in Codes, NEW k \in Keys, LeaveCommand(a, c, k)
  PROVE  DeadlineInv' /\ Unforfeited
<1> DEFINE r == Leave(Load(c))
<1> USE DEF StoreInv, TypeInv
<1>1. Round(c) # 0
  BY DEF LeaveCommand, Started
<1>2. /\ r \in RoomType /\ r.round = Round(c) /\ r.round \in Rounds /\ Row(c) \in RoundType
      /\ r.result = Row(c).result /\ r.forfeited = Row(c).forfeited /\ r.moves = Row(c).moves
  BY <1>1, LoadRoom DEF Leave, Load, RoomType, RoundType, TypeOK
<1>3. /\ Save(c, r, Row(c).funded) /\ Row(c).funded \in BOOLEAN
      /\ UNCHANGED <<presence, deadlines>>
  BY <1>2 DEF LeaveCommand, connectivity, RoundType
<1> HIDE DEF r
<1>4. /\ rounds' = [rounds EXCEPT ![c][Round(c)] = RoundRow(r, Row(c).funded)]
      /\ RoundRow(r, Row(c).funded) \in RoundType
  BY <1>2, <1>3, RowType DEF Save
<1>5. Kin(rounds[c][Round(c)], RoundRow(r, Row(c).funded))
  BY <1>2 DEF Kin, SameOutcome, RoundRow, Row
<1>6. \A d \in Codes : Round(d)' = Round(d)
  BY <1>2, <1>3, SaveRound DEF Round
<1> QED
  BY <1>2, <1>4, <1>5, <1>6, <1>3, RowTimely

(* The guest's arrival funds the first round and starts its timer; grace   *)
(* periods that run are of earlier generations from now on.                *)
LEMMA JoinTimely ==
  ASSUME StoreInv, NEW a \in Accounts, NEW c \in Codes, NEW k \in Keys, JoinCommand(a, c, k)
  PROVE  DeadlineInv' /\ Unforfeited
<1> DEFINE r == Join(Load(c))
<1> USE DEF StoreInv, TypeInv
<1>1. Round(c) # 0 /\ Round(c) \in Rounds
  BY LoadRoom DEF JoinCommand, TypeOK, Started
<1> PICK n \in Rounds : n = Round(c)
  BY <1>1
<1>2. /\ r \in RoomType /\ r.round = n /\ Row(c) \in RoundType
      /\ r.result = Row(c).result /\ r.forfeited = Row(c).forfeited /\ r.moves = Row(c).moves
  BY <1>1, LoadRoom DEF Join, Load, RoomType, RoundType, TypeOK
<1>3. ~Full(c) /\ RoomLedger(c)
  BY DEF JoinCommand, CanJoin, Load, Full, LedgerInv
<1>4. \A m \in Rounds : ~Finished(c, m)
  BY <1>3 DEF RoomLedger, Ordered
<1>5. ~(n > 1)
  <2> SUFFICES ASSUME n > 1 PROVE FALSE
    OBVIOUS
  <2>1. 1 \in Rounds /\ 1 < Round(c)
    BY BoundsAssumption DEF Rounds
  <2> QED
    BY <1>3, <1>4, <2>1 DEF RoomLedger, Ordered
<1>6. Save(c, r, TRUE) /\ TRUE \in BOOLEAN
  BY DEF JoinCommand
<1> HIDE DEF r
<1>7. /\ rounds'[c][n] = RoundRow(r, TRUE)
      /\ \A m \in Rounds : m # n => rounds'[c][m] = rounds[c][m]
      /\ \A d \in Codes \ {c} : rounds'[d] = rounds[d]
      /\ \A d \in Codes : Round(d)' = Round(d)
  BY <1>2, <1>6, SaveRound DEF Round
<1>8. deadlines' = deadlines \cup {InactivityDeadline(c, n)}
  BY DEF JoinCommand, FundRound
<1>9. /\ \A d \in Codes \ {c} : presence'[d] = presence[d]
      /\ \A p \in Role : presence'[c][p].gen = presence[c][p].gen + 1 /\ presence[c][p].gen \in Nat
  BY DEF JoinCommand, TypeOK, LinkTypeOK
<1>10. Clocked(c, n)'
  <2>1. Open(c, n)'
    BY <1>2, <1>4, <1>7 DEF Open, Finished, RoundRow, Row
  <2>2. Timing(c, n)'
    BY <1>8, TimerStarts
  <2> QED
    BY <2>1, <2>2 DEF Clocked
<1>11. ASSUME NEW d \in Codes, NEW m \in Rounds, <<d, m>> # <<c, n>> PROVE Clocked(d, m)'
  <2>1. Kin(rounds[d][m], rounds'[d][m])
    BY <1>7, <1>11 DEF Kin, SameOutcome
  <2>2. Timing(d, m)' <=> Timing(d, m)
    BY <1>8, <1>11, TimerStarts
  <2> QED
    BY <2>1, <2>2, Steady
<1>12. ASSUME NEW d \in deadlines PROVE Placed(d)'
  <2>1. /\ Placed(d) /\ d.room \in Codes /\ d.round \in Rounds /\ d.gen \in Nat
        /\ d.kind = "disconnect" => d.role \in Role
    BY DeadlineColumns DEF DeadlineInv
  <2>2. CASE d.room # c
    BY <1>7, <1>9, <2>1, <2>2 DEF Placed, Graced
  <2>3. CASE d.room = c
    <3>1. ~(d.round > 1)
      BY <1>5, <2>1, <2>3 DEF Placed, Rounds
    <3>2. d.kind = "disconnect" =>
            0 < d.gen /\ d.gen <= presence'[c][d.role].gen /\ d.gen # presence'[c][d.role].gen
      BY <1>9, <2>1, <2>3 DEF Placed, Graced
    <3> QED
      BY <1>7, <2>1, <2>3, <3>1, <3>2 DEF Placed, Graced
  <2> QED
    BY <2>2, <2>3
<1>13. \A d \in deadlines' : Placed(d)'
  <2> SUFFICES ASSUME NEW d \in deadlines', d \notin deadlines PROVE Placed(d)'
    BY <1>12
  <2>1. d.room = c /\ d.round = n /\ d.kind = "inactivity"
    BY <1>8, TimerStarts
  <2> QED
    BY <1>7, <2>1, BoundsAssumption DEF Placed, Rounds
<1>14. Unforfeited
  <2> SUFFICES ASSUME NEW d \in Codes, NEW m \in Rounds, rounds[d][m].forfeited = NoRole
               PROVE  rounds'[d][m].forfeited = NoRole
    BY DEF Unforfeited
  <2>1. CASE d = c /\ m = n
    BY <1>2, <1>7, <2>1 DEF RoundRow, Row
  <2>2. CASE ~(d = c /\ m = n)
    BY <1>7, <2>2
  <2> QED
    BY <2>1, <2>2
<1>15. \A d \in Codes, m \in Rounds : Clocked(d, m)'
  BY <1>10, <1>11
<1> QED
  BY <1>13, <1>14, <1>15 DEF DeadlineInv

-----------------------------------------------------------------------------
(* The ends of rounds.                                                     *)

(* An open round is the current one of an active room, and both play it.   *)
LEMMA OpenIsCurrent ==
  ASSUME StoreInv, NEW c \in Codes, NEW n \in Rounds, Open(c, n)
  PROVE  /\ n = Round(c) /\ rooms[c].status = "active" /\ Full(c)
         /\ Row(c).status = "active" /\ Row(c).funded /\ Row(c).result = NoResult
<1>1. Ordered(c, n) /\ Labelled(rounds[c][n])
  BY DEF StoreInv, LedgerInv, RoomLedger, LabelInv
<1>2. ~(n < Round(c)) /\ ~(n > Round(c))
  BY <1>1 DEF Ordered, Open, Finished, NoRound
<1>3. Round(c) \in Nat /\ n \in Nat
  BY BoundsAssumption DEF StoreInv, TypeInv, TypeOK, GameTypeOK, Round, Rounds
<1>4. n = Round(c)
  BY <1>2, <1>3
<1> QED
  BY <1>1, <1>4 DEF Ordered, Open, Labelled, Row

(* The timer of a round runs only while it is open.                        *)
LEMMA TimerOpen ==
  ASSUME StoreInv, NEW d \in deadlines, d.kind = "inactivity"
  PROVE  Open(d.room, d.round)
<1>1. d.room \in Codes /\ d.round \in Rounds
  BY DeadlineColumns DEF StoreInv
<1>2. Timing(d.room, d.round)
  BY DEF Timing
<1> QED
  BY <1>1, <1>2 DEF StoreInv, DeadlineInv, Clocked

(* Ending a round drops its deadlines, and only late grace periods besides.*)
LEMMA EndingTimely ==
  ASSUME StoreInv, NEW c \in Codes, Round(c) # 0, NEW r, Ends(Load(c), r), Save(c, r, TRUE),
         NEW late, \A d \in late : d.room = c, deadlines' = OtherDeadlines(c) \ late,
         UNCHANGED connectivity
  PROVE  /\ DeadlineInv'
         /\ \A d \in Codes, m \in Rounds :
              <<d, m>> # <<c, Round(c)>> => rounds'[d][m] = rounds[d][m]
         /\ rounds'[c][Round(c)].forfeited = r.forfeited
<1> USE DEF StoreInv, TypeInv
<1>1. r \in RoomType /\ r.round = Round(c) /\ Round(c) \in Rounds /\ r.result \in Result
  BY LoadRoom DEF Ends, TypeOK
<1> PICK n \in Rounds : n = Round(c)
  BY <1>1
<1>2. /\ rounds'[c][n] = RoundRow(r, TRUE)
      /\ \A m \in Rounds : m # n => rounds'[c][m] = rounds[c][m]
      /\ \A d \in Codes \ {c} : rounds'[d] = rounds[d]
      /\ \A d \in Codes : Round(d)' = Round(d)
  <2>1. TRUE \in BOOLEAN /\ r.round \in Rounds
    BY <1>1
  <2> QED
    BY <1>1, <2>1, SaveRound, ZenonT(30) DEF Round
<1>3. \A d \in deadlines' : d \in deadlines /\ ~(d.room = c /\ d.round = n)
  BY DEF OtherDeadlines
<1>4. ASSUME NEW d \in deadlines, d.kind = "inactivity", d \notin deadlines'
      PROVE  d.room = c /\ d.round = n
  <2>1. d.room = c
    BY <1>4 DEF OtherDeadlines
  <2> QED
    BY <1>4, <2>1, DeadlineColumns, TimerOpen, OpenIsCurrent
<1>5. Clocked(c, n)'
  <2>1. ~Open(c, n)'
    <3>1. r.result # NoResult
      BY <1>1 DEF Result, Draw, NoResult
    <3> QED
      BY <1>2, <3>1 DEF Open, RoundRow
  <2>2. ~Timing(c, n)'
    BY <1>3 DEF Timing
  <2> QED
    BY <2>1, <2>2 DEF Clocked
<1>6. ASSUME NEW d \in Codes, NEW m \in Rounds, <<d, m>> # <<c, n>> PROVE Clocked(d, m)'
  <2>1. Kin(rounds[d][m], rounds'[d][m])
    BY <1>2, <1>6 DEF Kin, SameOutcome
  <2>2. Timing(d, m)' <=> Timing(d, m)
    BY <1>3, <1>4, <1>6 DEF Timing
  <2> QED
    BY <2>1, <2>2, Steady
<1>7. ASSUME NEW d \in deadlines' PROVE Placed(d)'
  <2>1. d \in deadlines
    BY <1>3
  <2>2. Placed(d) /\ Round(d.room)' = Round(d.room)
    BY <1>2, <2>1, DeadlineColumns DEF DeadlineInv
  <2> QED
    BY <2>2 DEF Placed, Graced, connectivity
<1>8. \A d \in Codes, m \in Rounds : Clocked(d, m)'
  BY <1>5, <1>6
<1> QED
  BY <1>2, <1>7, <1>8 DEF DeadlineInv, RoundRow

(* The next round starts with its timer, and no grace period is older.     *)
LEMMA AdvanceTimely ==
  ASSUME StoreInv, NEW c \in Codes, ReconcileAdvance(c)
  PROVE  DeadlineInv' /\ Unforfeited
<1> DEFINE r == Advance(Load(c))
           old == [Row(c) EXCEPT !.status = "resolved"]
           new == RoundRow(r, TRUE)
<1> USE DEF StoreInv, TypeInv
<1>1. Round(c) # 0 /\ Round(c) \in Rounds /\ Row(c) \in RoundType
  BY LoadRoom DEF ReconcileAdvance, ClaimAdvance, TypeOK, Started
<1> PICK m \in Rounds : m = Round(c)
  BY <1>1
<1> PICK n \in Rounds : n = m + 1
  BY <1>1, BoundsAssumption DEF ReconcileAdvance, Rounds
<1>2. n > m /\ n # m /\ n \in Nat /\ m \in Nat
  BY BoundsAssumption DEF Rounds
<1>3. rounds[c][n] = NoRound
  BY <1>2 DEF LedgerInv, RoomLedger, Ordered
<1>4. rounds' = [[rounds EXCEPT ![c][m] = old] EXCEPT ![c][n] = new]
  BY DEF ReconcileAdvance, Row, TypeOK, GameTypeOK
<1>5. Kin(Row(c), old)
  BY <1>1 DEF Kin, SameOutcome, RoundType
<1>6. new.funded /\ new.result = NoResult /\ new.forfeited = NoRole
  <2>1. Load(c) \in RoomType
    BY <1>1, LoadRoom DEF TypeOK
  <2>2. r.result = NoResult /\ r.forfeited = NoRole
    BY <2>1 DEF Advance, RoomType
  <2> HIDE DEF r
  <2> QED
    BY <2>2 DEF RoundRow
<1>7. r \in RoomType /\ r.round = n
  <2>1. Load(c) \in RoomType /\ Load(c).round = m
    BY <1>1, LoadRoom DEF TypeOK
  <2>2. [p \in Role |-> NoMove] \in [Role -> Throw \cup {NoMove}]
    OBVIOUS
  <2>3. Load(c).round + 1 = n
    BY <2>1
  <2> QED
    BY <1>2, <2>1, <2>2, <2>3 DEF Advance, RoomType
<1>8. SaveRoom(c, r) /\ presence' = presence
  BY DEF ReconcileAdvance, connectivity
<1>9. deadlines' = deadlines \cup {InactivityDeadline(c, n)}
  BY DEF ReconcileAdvance, FundRound
<1> HIDE DEF r, old, new
<1>10. Round(c)' = n /\ \A d \in Codes \ {c} : Round(d)' = Round(d)
  BY <1>7, <1>8, SaveRows DEF TypeOK, Round
<1>11. /\ rounds'[c][n] = new /\ rounds'[c][m] = old
       /\ \A i \in Rounds \ {n, m} : rounds'[c][i] = rounds[c][i]
       /\ \A d \in Codes \ {c} : rounds'[d] = rounds[d]
  BY <1>2, <1>4 DEF TypeOK, GameTypeOK
<1>12. ASSUME NEW d \in Codes, NEW i \in Rounds, <<d, i>> # <<c, n>>
       PROVE  Kin(rounds[d][i], rounds'[d][i])
  <2>1. CASE d = c /\ i = m
    BY <1>5, <1>11, <2>1 DEF Row
  <2>2. CASE ~(d = c /\ i = m)
    BY <1>11, <1>12, <2>2 DEF Kin, SameOutcome
  <2> QED
    BY <2>1, <2>2
<1>13. Clocked(c, n)'
  <2>1. Timing(c, n)'
    BY <1>9, TimerStarts
  <2> QED
    BY <1>6, <1>11, <2>1 DEF Clocked, Open
<1>14. ASSUME NEW d \in Codes, NEW i \in Rounds, <<d, i>> # <<c, n>> PROVE Clocked(d, i)'
  <2>1. Timing(d, i)' <=> Timing(d, i)
    BY <1>9, <1>14, TimerStarts
  <2> QED
    BY <1>12, <1>14, <2>1, Steady
<1>15. ASSUME NEW d \in deadlines PROVE Placed(d)'
  <2>1. Placed(d) /\ d.room \in Codes /\ d.round \in Rounds /\ d.round \in Nat
    BY DeadlineColumns, BoundsAssumption DEF DeadlineInv, Rounds
  <2>2. CASE d.room = c
    BY <1>2, <1>8, <1>10, <2>1, <2>2 DEF Placed, Graced
  <2>3. CASE d.room # c
    BY <1>8, <1>10, <2>1, <2>3 DEF Placed, Graced
  <2> QED
    BY <2>2, <2>3
<1>16. \A d \in deadlines' : Placed(d)'
  <2> SUFFICES ASSUME NEW d \in deadlines', d \notin deadlines PROVE Placed(d)'
    BY <1>15
  <2>1. d.room = c /\ d.round = n /\ d.kind = "inactivity"
    BY <1>9, TimerStarts
  <2> QED
    BY <1>2, <1>10, <2>1 DEF Placed
<1>17. Unforfeited
  <2> SUFFICES ASSUME NEW d \in Codes, NEW i \in Rounds, rounds[d][i].forfeited = NoRole
               PROVE  rounds'[d][i].forfeited = NoRole
    BY DEF Unforfeited
  <2>1. CASE d = c /\ i = n
    BY <1>6, <1>11, <2>1
  <2>2. CASE ~(d = c /\ i = n)
    BY <1>12, <2>2 DEF Kin, SameOutcome
  <2> QED
    BY <2>1, <2>2
<1>18. \A d \in Codes, i \in Rounds : Clocked(d, i)'
  BY <1>13, <1>14
<1> QED
  BY <1>16, <1>17, <1>18 DEF DeadlineInv

(* Two committed moves end the round without a forfeit.                    *)
LEMMA ResolveTimely ==
  ASSUME StoreInv, NEW c \in Codes, ReconcileResolve(c)
  PROVE  DeadlineInv' /\ Unforfeited
<1> DEFINE r == ResolveCommittedMoves(Load(c))
<1> USE DEF StoreInv, TypeInv
<1>1. Round(c) # 0
  BY DEF ReconcileResolve, ClaimResolve, Started
<1>2. Load(c) \in RoomType /\ Load(c).forfeited = Row(c).forfeited
  BY <1>1, LoadRoom DEF Load, TypeOK
<1>3. Ends(Load(c), r) /\ r.forfeited = Row(c).forfeited
  BY <1>2, Endings, ResultOfThrows, AwardRoom DEF ResolveCommittedMoves
<1> PICK late : late = {}
  OBVIOUS
<1>4. /\ Save(c, r, TRUE) /\ deadlines' = OtherDeadlines(c) \ late /\ UNCHANGED connectivity
      /\ \A d \in late : d.room = c
  BY DEF ReconcileResolve
<1> HIDE DEF r
<1>5. /\ DeadlineInv'
      /\ \A d \in Codes, m \in Rounds : <<d, m>> # <<c, Round(c)>> => rounds'[d][m] = rounds[d][m]
      /\ rounds'[c][Round(c)].forfeited = r.forfeited
  BY <1>1, <1>3, <1>4, EndingTimely
<1>6. Unforfeited
  <2> SUFFICES ASSUME NEW d \in Codes, NEW m \in Rounds, rounds[d][m].forfeited = NoRole
               PROVE  rounds'[d][m].forfeited = NoRole
    BY DEF Unforfeited
  <2>1. CASE d = c /\ m = Round(c)
    BY <1>3, <1>5, <2>1 DEF Row
  <2>2. CASE ~(d = c /\ m = Round(c))
    BY <1>5, <2>2
  <2> QED
    BY <2>1, <2>2
<1> QED
  BY <1>5, <1>6

-----------------------------------------------------------------------------
(* Connections.                                                            *)

(* The rounds of a step that only moves presence and grace periods.        *)
LEMMA PresenceTimely ==
  ASSUME StoreInv, rounds' = rounds, \A d \in Codes : Round(d)' = Round(d),
         \A c \in Codes, n \in Rounds : Timing(c, n)' <=> Timing(c, n),
         \A d \in deadlines' : Placed(d)'
  PROVE  DeadlineInv' /\ Unforfeited
<1>1. \A c \in Codes, n \in Rounds : Kin(rounds[c][n], rounds'[c][n])
  BY DEF Kin, SameOutcome
<1> QED
  BY <1>1, Steady DEF StoreInv, DeadlineInv, Unforfeited

(* A return cancels the grace period of this absence, in this round.       *)
LEMMA OpenTimely ==
  ASSUME StoreInv, NEW a \in Accounts, NEW c \in Codes, NEW id \in Conns, OpenConnection(a, c, id)
  PROVE  DeadlineInv' /\ Unforfeited
<1> USE DEF StoreInv, TypeInv
<1>1. CASE UNCHANGED <<presence, deadlines, rooms>>
  <2>1. \A d \in Codes, n \in Rounds : Kin(rounds[d][n], rounds'[d][n])
    BY DEF OpenConnection, Kin, SameOutcome
  <2> QED
    BY <1>1, <2>1, KinTimely DEF Round
<1>2. CASE ~UNCHANGED <<presence, deadlines, rooms>>
  <2> PICK p \in Role :
        LET seat == presence[c][p]
            gen == IF seat.gen = 0 THEN 1 ELSE seat.gen
        IN
        /\ presence' = [presence EXCEPT ![c][p] = [gen |-> gen, present |-> TRUE]]
        /\ deadlines' = WithoutGrace(c, p, gen)
        /\ BumpRevision(c)
    BY <1>2 DEF OpenConnection
  <2> DEFINE gen == IF presence[c][p].gen = 0 THEN 1 ELSE presence[c][p].gen
  <2>1. \A d \in Codes : Round(d)' = Round(d)
    BY BumpRows DEF TypeOK, Round
  <2>2. /\ \A d \in Codes, q \in Role : <<d, q>> # <<c, p>> => presence'[d][q] = presence[d][q]
        /\ presence'[c][p].gen = gen /\ presence[c][p].gen \in Nat
    BY DEF TypeOK, LinkTypeOK
  <2>3. \A d \in deadlines' : d \in deadlines
    BY DEF WithoutGrace
  <2>4. ASSUME NEW d \in deadlines' PROVE Placed(d)'
    <3>1. Placed(d) /\ d.room \in Codes /\ (d.kind = "disconnect" => d.role \in Role)
      BY <2>3, DeadlineColumns DEF DeadlineInv
    <3>2. CASE d.kind # "disconnect" \/ <<d.room, d.role>> # <<c, p>>
      BY <2>1, <2>2, <3>1, <3>2 DEF Placed, Graced
    <3>3. CASE d.kind = "disconnect" /\ d.room = c /\ d.role = p
      <4>1. 0 < d.gen /\ d.gen <= presence[c][p].gen /\ d.gen \in Nat
        BY <2>3, <3>1, <3>3, DeadlineColumns DEF Placed, Graced
      <4>2. gen = presence[c][p].gen
        BY <2>2, <4>1
      <4>3. ~(d.round = Round(c) /\ d.gen = gen)
        BY <3>3 DEF WithoutGrace
      <4> QED
        BY <2>1, <2>2, <3>1, <3>3, <4>1, <4>2, <4>3 DEF Placed, Graced
    <3> QED
      BY <3>2, <3>3
  <2>5. \A d \in Codes, n \in Rounds : Timing(d, n)' <=> Timing(d, n)
    BY DEF Timing, WithoutGrace
  <2>6. rounds' = rounds
    BY DEF OpenConnection
  <2> QED
    BY <2>1, <2>4, <2>5, <2>6, PresenceTimely
<1> QED
  BY <1>1, <1>2

(* The columns of a grace period.                                          *)
LEMMA GraceColumns ==
  ASSUME NEW c, NEW p, NEW gen, NEW due, NEW grace, grace = DisconnectDeadline(c, p, gen, due)
  PROVE  /\ grace.room = c /\ grace.round = Round(c) /\ grace.kind = "disconnect"
         /\ grace.role = p /\ grace.gen = gen
BY DEF DisconnectDeadline

(* Losing the last connection starts the grace period of a new generation. *)
LEMMA DisappearTimely ==
  ASSUME StoreInv, NEW k \in conns, NEW at, Disappear(k, at)
  PROVE  DeadlineInv' /\ Unforfeited
<1> DEFINE c == k.room
           p == k.role
<1> USE DEF StoreInv, TypeInv
<1>1. c \in Codes /\ p \in Role
  BY DEF TypeOK, LinkTypeOK, ConnectionType
<1>2. CASE UNCHANGED <<presence, deadlines, rooms>>
  <2>1. \A d \in Codes, n \in Rounds : Kin(rounds[d][n], rounds'[d][n])
    BY DEF Disappear, Kin, SameOutcome
  <2> QED
    BY <1>2, <2>1, KinTimely DEF Round
<1>3. CASE ~UNCHANGED <<presence, deadlines, rooms>>
  <2> DEFINE gen == presence[c][p].gen + 1
  <2>1. /\ presence[c][p].present
        /\ presence' = [presence EXCEPT ![c][p] = [gen |-> gen, present |-> FALSE]]
        /\ deadlines' = deadlines \cup {DisconnectDeadline(c, p, gen, at + Grace)}
        /\ BumpRevision(c)
    BY <1>3 DEF Disappear
  <2>2. \A d \in Codes : Round(d)' = Round(d)
    BY <1>1, <2>1, BumpRows DEF TypeOK, Round
  <2>3. /\ \A d \in Codes, q \in Role : <<d, q>> # <<c, p>> => presence'[d][q] = presence[d][q]
        /\ presence'[c][p] = [gen |-> gen, present |-> FALSE] /\ presence[c][p].gen \in Nat
    BY <1>1, <2>1 DEF TypeOK, LinkTypeOK
  <2>4. ASSUME NEW d \in deadlines PROVE Placed(d)'
    <3>1. /\ Placed(d) /\ d.room \in Codes /\ d.gen \in Nat
          /\ d.kind = "disconnect" => d.role \in Role
      BY DeadlineColumns DEF DeadlineInv
    <3>2. CASE d.kind # "disconnect"
      BY <2>2, <3>1, <3>2 DEF Placed
    <3>4. CASE d.kind = "disconnect" /\ <<d.room, d.role>> # <<c, p>>
      <4>1. presence'[d.room][d.role] = presence[d.room][d.role]
        BY <2>3, <3>1, <3>4
      <4>2. Round(d.room)' = Round(d.room)
        BY <2>2, <3>1
      <4> QED
        BY <3>1, <4>1, <4>2 DEF Placed, Graced
    <3>3. CASE d.kind = "disconnect" /\ d.room = c /\ d.role = p
      <4>1. 0 < d.gen /\ d.gen <= presence[c][p].gen
        BY <3>1, <3>3 DEF Placed, Graced
      <4>2. d.gen < gen
        BY <2>3, <3>1, <4>1
      <4>3. ~(d.round = Round(c) /\ d.round > 1)
        BY <2>1, <3>1, <3>3 DEF Placed, Graced
      <4> QED
        BY <2>2, <2>3, <3>1, <3>3, <4>1, <4>2, <4>3 DEF Placed, Graced
    <3> QED
      BY <3>2, <3>3, <3>4
  <2> PICK grace : grace = DisconnectDeadline(c, p, gen, at + Grace)
    OBVIOUS
  <2>5. /\ grace.room = c /\ grace.round = Round(c) /\ grace.kind = "disconnect"
        /\ grace.role = p /\ grace.gen = gen
    BY GraceColumns
  <2>6. deadlines' = deadlines \cup {grace}
    BY <2>1, ZenonT(30)
  <2>7. Placed(grace)'
    <3>1. Round(c) \in Nat
      BY <1>1, BoundsAssumption DEF TypeOK, GameTypeOK, Round
    <3>2. grace.round = Round(grace.room)' /\ grace.round <= Round(grace.room)'
      BY <1>1, <2>2, <2>5, <3>1
    <3>3. gen \in Nat /\ 0 < gen
      BY <2>3
    <3>4. presence'[grace.room][grace.role] = [gen |-> grace.gen, present |-> FALSE]
      <4> HIDE DEF gen, c, p
      <4> QED
        BY <2>3, <2>5
    <3>5. 0 < grace.gen /\ grace.gen <= grace.gen
      <4> HIDE DEF gen, c, p
      <4> QED
        BY <2>5, <3>3
    <3>6. /\ presence'[grace.room][grace.role].gen = grace.gen
          /\ ~presence'[grace.room][grace.role].present
      BY <3>4
    <3> QED
      BY <3>2, <3>5, <3>6 DEF Placed, Graced
  <2>8. \A d \in Codes, n \in Rounds : Timing(d, n)' <=> Timing(d, n)
    BY <2>5, <2>6 DEF Timing
  <2>9. rounds' = rounds
    BY DEF Disappear
  <2>10. \A d \in deadlines' : Placed(d)'
    BY <2>4, <2>6, <2>7
  <2> QED
    BY <2>2, <2>8, <2>9, <2>10, PresenceTimely
<1> QED
  BY <1>2, <1>3

(* Every step of a connection.                                             *)
LEMMA ConnectTimely ==
  ASSUME StoreInv, Connect
  PROVE  DeadlineInv' /\ Unforfeited
<1>1. ASSUME NEW k \in conns, RenewConnection(k) \/ DeleteSession(k)
      PROVE  DeadlineInv' /\ Unforfeited
  <2>1. UNCHANGED <<rounds, rooms, presence, deadlines>>
    BY <1>1 DEF RenewConnection, DeleteSession, game
  <2> QED
    BY <2>1, KinTimely DEF Kin, SameOutcome, Round
<1> QED
  BY <1>1, OpenTimely, DisappearTimely DEF Connect, CloseConnection, ReapExpiredConnection

-----------------------------------------------------------------------------
(* The deadline worker.                                                    *)

(* A claimed room plays an open round.                                     *)
LEMMA ClaimedOpen ==
  ASSUME StoreInv, NEW e \in deadlines, ClaimDeadline(e)
  PROVE  /\ e.room \in Codes /\ Round(e.room) \in Rounds /\ Open(e.room, Round(e.room))
         /\ rooms[e.room].status = "active" /\ Row(e.room).funded /\ ~Resolved(Load(e.room))
<1> USE DEF StoreInv
<1>1. e.room \in Codes /\ e.round \in Rounds /\ e.round = Round(e.room)
  BY DeadlineColumns DEF ClaimDeadline, ActiveRound
<1>2. Row(e.room).result = NoResult
  BY <1>1 DEF ClaimDeadline, ActiveRound, LabelInv, Labelled, Row
<1> QED
  BY <1>1, <1>2 DEF ClaimDeadline, ActiveRound, Open, Row, Resolved, Load

(* So the timer of that round always applies.                              *)
LEMMA TimerApplies ==
  ASSUME NEW c, rooms[c].status = "active", Row(c).funded, ~Resolved(Load(c)),
         NEW d, d.room = c, d.kind = "inactivity"
  PROVE  Applicable(d)
BY DEF Applicable

(* Deadlines are cancelled, but no timer of a round that needs it.         *)
LEMMA CancelTimely ==
  ASSUME StoreInv, UNCHANGED <<game, presence>>, deadlines' \subseteq deadlines,
         \A d \in deadlines : d.kind = "inactivity" /\ d \notin deadlines'
                                => BothMoved(d.room, d.round)
  PROVE  DeadlineInv' /\ Unforfeited
<1>1. ASSUME NEW c \in Codes, NEW n \in Rounds PROVE Clocked(c, n)'
  <2>1. Timing(c, n) => Timing(c, n)' \/ BothMoved(c, n)
    BY DEF Timing
  <2>2. Timing(c, n)' => Timing(c, n)
    BY DEF Timing
  <2>3. (Open(c, n)' <=> Open(c, n)) /\ (BothMoved(c, n)' <=> BothMoved(c, n))
    BY DEF game, Open, BothMoved
  <2> QED
    BY <2>1, <2>2, <2>3 DEF StoreInv, DeadlineInv, Clocked
<1>2. \A d \in deadlines' : Placed(d)'
  BY DEF StoreInv, DeadlineInv, Placed, Graced, game, Round
<1>3. Unforfeited
  BY DEF game, Unforfeited
<1> QED
  BY <1>1, <1>2, <1>3 DEF DeadlineInv

(* What is passed over on the way to an applicable deadline applies not.   *)
LEMMA SkippedNotTimers ==
  ASSUME StoreInv, NEW d \in deadlines, ClaimRoom(d.room), NextApplicable(d),
         NEW e \in Skipped(d)
  PROVE  e \in deadlines /\ e.room = d.room /\ e.kind # "inactivity"
<1>1. e \in deadlines /\ e.room = d.room /\ ~Applicable(e)
  BY DEF Skipped, DueIn, NextApplicable
<1>2. rooms[d.room].status = "active" /\ Row(d.room).funded /\ ~Resolved(Load(d.room))
  BY ClaimedOpen DEF ClaimRoom, DueIn
<1> QED
  BY <1>1, <1>2, TimerApplies

(* A candidate is cancelled unclaimed only when its round is over.         *)
LEMMA CancelUnclaimedTimely ==
  ASSUME StoreInv, NEW d \in deadlines, CancelUnclaimed(d)
  PROVE  DeadlineInv' /\ Unforfeited
<1>1. d.kind # "inactivity"
  <2> SUFFICES ASSUME d.kind = "inactivity" PROVE FALSE
    OBVIOUS
  <2>1. d.room \in Codes /\ d.round \in Rounds /\ Open(d.room, d.round)
    BY DeadlineColumns, TimerOpen DEF StoreInv
  <2>2. ActiveRound(d)
    BY <2>1, OpenIsCurrent DEF ActiveRound
  <2> QED
    BY <2>2 DEF CancelUnclaimed
<1> QED
  BY <1>1, CancelTimely DEF CancelUnclaimed, connectivity

(* A claimed room without an applicable deadline has no timer that is due. *)
LEMMA CancelInapplicableTimely ==
  ASSUME StoreInv, NEW c \in Codes, CancelInapplicable(c)
  PROVE  DeadlineInv' /\ Unforfeited
<1>1. rooms[c].status = "active" /\ Row(c).funded /\ ~Resolved(Load(c))
  BY ClaimedOpen DEF CancelInapplicable, ClaimRoom, DueIn
<1>2. \A d \in DueIn(c) : d.kind # "inactivity"
  BY <1>1, TimerApplies DEF CancelInapplicable, DueIn
<1>3. deadlines' = deadlines \ DueIn(c) /\ UNCHANGED <<game, presence>>
  BY DEF CancelInapplicable, connectivity
<1> QED
  BY <1>2, <1>3, CancelTimely

(* The timer is cancelled when both moves are in.                          *)
LEMMA CancelDeadlineTimely ==
  ASSUME StoreInv, NEW d \in deadlines, CancelDeadline(d)
  PROVE  DeadlineInv' /\ Unforfeited
<1>1. ASSUME d.kind = "inactivity" PROVE BothMoved(d.room, d.round)
  <2>1. /\ d.room \in Codes /\ d.round \in Rounds /\ Open(d.room, d.round)
    BY <1>1, DeadlineColumns, TimerOpen DEF StoreInv
  <2>2. /\ d.round = Round(d.room) /\ rooms[d.room].status = "active" /\ Full(d.room)
        /\ Row(d.room).result = NoResult
    BY <2>1, OpenIsCurrent
  <2>3. CanResolve(Load(d.room), Round(d.room))
    BY <2>2 DEF CanResolve, Resolved, Load, Full
  <2>4. Submitted(Load(d.room)) = Role
    BY <1>1, <2>3 DEF CancelDeadline, CanResolveInactivity
  <2> QED
    BY <2>2, <2>4 DEF Submitted, Load, BothMoved, Row
<1>2. deadlines' = deadlines \ (Skipped(d) \cup {d}) /\ UNCHANGED <<game, presence>>
  BY DEF CancelDeadline, connectivity
<1>3. \A e \in Skipped(d) : e.kind # "inactivity"
  BY SkippedNotTimers DEF CancelDeadline
<1> QED
  BY <1>1, <1>2, <1>3, CancelTimely

(* A deadline that ends the round.                                         *)
LEMMA SettleDeadlineTimely ==
  ASSUME StoreInv, NEW d \in deadlines, NEW r, Round(d.room) # 0 => Ends(Load(d.room), r),
         SettleDeadline(d, r)
  PROVE  /\ DeadlineInv'
         /\ d.room \in Codes /\ Round(d.room) \in Rounds
         /\ \A c \in Codes, m \in Rounds :
              <<c, m>> # <<d.room, Round(d.room)>> => rounds'[c][m] = rounds[c][m]
         /\ rounds'[d.room][Round(d.room)].forfeited = r.forfeited
<1>1. /\ d.room \in Codes /\ Round(d.room) \in Rounds /\ Round(d.room) # 0
  BY ClaimedOpen DEF SettleDeadline, ClaimRoom, DueIn, Rounds
<1> PICK late : late = Skipped(d)
  OBVIOUS
<1>2. \A e \in late : e.room = d.room
  BY DEF Skipped, DueIn
<1>3. /\ Save(d.room, r, TRUE) /\ deadlines' = OtherDeadlines(d.room) \ late
      /\ UNCHANGED connectivity /\ Ends(Load(d.room), r)
  BY <1>1 DEF SettleDeadline
<1> QED
  BY <1>1, <1>2, <1>3, EndingTimely

(* The deadline worker, unless it makes a player forfeit.                  *)
LEMMA ProcessNextDeadlineTimely ==
  ASSUME StoreInv, ProcessNextDeadline
  PROVE  DeadlineInv' /\ (Unforfeited \/ \E d \in deadlines : ForfeitAbsent(d))
<1> USE DEF StoreInv, TypeInv
<1>1. ASSUME NEW d \in deadlines, Round(d.room) # 0
      PROVE  Load(d.room) \in RoomType
  BY <1>1, LoadRoom DEF TypeOK, LinkTypeOK, DeadlineType
<1>2. ASSUME NEW d \in deadlines, ForfeitAbsent(d) PROVE DeadlineInv'
  <2>1. d.role \in Role
    BY <1>2, DeadlineColumns DEF ForfeitAbsent
  <2>2. Round(d.room) # 0 => Ends(Load(d.room), Forfeit(Load(d.room), d.role))
    BY <1>1, <2>1, Endings
  <2> QED
    BY <1>2, <2>2, SettleDeadlineTimely DEF ForfeitAbsent
<1>3. ASSUME NEW d \in deadlines, NEW result \in Result, NEW r, r = Award(Load(d.room), result),
             Round(d.room) # 0 => Ends(Load(d.room), r), SettleDeadline(d, r)
      PROVE  DeadlineInv' /\ Unforfeited
  <2>1. /\ DeadlineInv'
        /\ d.room \in Codes /\ Round(d.room) \in Rounds
        /\ \A c \in Codes, m \in Rounds :
             <<c, m>> # <<d.room, Round(d.room)>> => rounds'[c][m] = rounds[c][m]
        /\ rounds'[d.room][Round(d.room)].forfeited = r.forfeited
    BY <1>3, SettleDeadlineTimely
  <2>2. r.forfeited = Row(d.room).forfeited
    <3>1. Load(d.room) \in RoomType /\ Load(d.room).forfeited = Row(d.room).forfeited
      BY <1>1, <2>1 DEF Load, Rounds
    <3> QED
      BY <1>3, <3>1, AwardRoom
  <2>3. ASSUME NEW c \in Codes, NEW m \in Rounds, rounds[c][m].forfeited = NoRole
        PROVE  rounds'[c][m].forfeited = NoRole
    <3>1. CASE c = d.room /\ m = Round(d.room)
      BY <2>1, <2>2, <2>3, <3>1 DEF Row
    <3>2. CASE ~(c = d.room /\ m = Round(d.room))
      BY <2>1, <2>3, <3>2
    <3> QED
      BY <3>1, <3>2
  <2> QED
    BY <2>1, <2>3 DEF Unforfeited
<1>4. Draw \in Result /\ \A p : WinFor(p) \in Result
  BY DEF WinFor, Result
<1>5. ASSUME NEW d \in deadlines, DrawAbsent(d) PROVE DeadlineInv' /\ Unforfeited
  <2>1. Round(d.room) # 0 => Ends(Load(d.room), ResolveDeadlineDraw(Load(d.room)))
    BY <1>1, Endings
  <2>2. SettleDeadline(d, ResolveDeadlineDraw(Load(d.room)))
    BY <1>5 DEF DrawAbsent
  <2> QED
    BY <1>3, <1>4, <2>1, <2>2 DEF ResolveDeadlineDraw
<1>6. ASSUME NEW d \in deadlines, ResolveIdle(d) PROVE DeadlineInv' /\ Unforfeited
  <2>1. Round(d.room) # 0 => Ends(Load(d.room), ResolveInactivity(Load(d.room)))
    BY <1>1, Endings
  <2>2. SettleDeadline(d, ResolveInactivity(Load(d.room)))
    BY <1>6 DEF ResolveIdle
  <2>3. \E result \in Result :
          ResolveInactivity(Load(d.room)) = Award(Load(d.room), result)
    BY <1>4 DEF ResolveInactivity
  <2> QED
    BY <1>3, <2>1, <2>2, <2>3
<1> QED
  BY <1>2, <1>5, <1>6, CancelInapplicableTimely, CancelUnclaimedTimely, CancelDeadlineTimely
  DEF ProcessNextDeadline

-----------------------------------------------------------------------------
(* Every transaction, of whichever kind.                                   *)
LEMMA StepTimely ==
  ASSUME StoreInv, [Next]_vars
  PROVE  DeadlineInv' /\ (Unforfeited \/ \E d \in deadlines : ForfeitAbsent(d))
<1>1. ASSUME UNCHANGED <<rooms, rounds, presence, deadlines>>
      PROVE  DeadlineInv' /\ Unforfeited
  BY <1>1, KinTimely DEF Kin, SameOutcome, Round
<1>2. CASE Command
  <2>1. ASSUME NEW a \in Accounts, NEW k \in Keys, NEW amount \in RechargeAmounts,
               RechargeCommand(a, amount, k)
        PROVE  DeadlineInv' /\ Unforfeited
    BY <1>1, <2>1 DEF RechargeCommand, game, connectivity
  <2> QED
    BY <1>2, <2>1, CreateTimely, JoinTimely, SubmitMoveTimely, RequestTimely, LeaveTimely
    DEF Command
<1>3. ASSUME (\E k \in receipts : CleanupCommandReceipts(k)) \/ Tick \/ UNCHANGED vars
      PROVE  DeadlineInv' /\ Unforfeited
  BY <1>1, <1>3 DEF CleanupCommandReceipts, Tick, vars, game, connectivity
<1> QED
  BY <1>2, <1>3, ResolveTimely, AdvanceTimely, ConnectTimely, ProcessNextDeadlineTimely
  DEF Next, Reconcile

(* Every reachable deadline fits its round.                                *)
LEMMA StoreInvariance == Spec => []StoreInv
<1>1. Init => DeadlineInv
  BY DEF Init, DeadlineInv, Clocked, Open, NoRound, Timing
<1>2. TypeInv /\ RevisionInv /\ LedgerInv /\ LabelInv /\ DeadlineInv /\ [Next]_vars => DeadlineInv'
  BY StepTimely DEF StoreInv
<1>3. TypeInv /\ RevisionInv /\ LedgerInv /\ LabelInv /\ DeadlineInv => StoreInv
  BY DEF StoreInv
<1> QED
  BY <1>1, <1>2, <1>3, TypeInvariance, RevisionInvariance, LedgerInvariance, LabelInvariance, PTL
  DEF Spec

(* fundRound and the transactions that end rounds never leave stakes in    *)
(* escrow without a timer or two moves, nor a timer without stakes.        *)
THEOREM TimerTracksRound == Spec => []InactivityTracksRound
<1>1. StoreInv => InactivityTracksRound
  BY DEF StoreInv, DeadlineInv, Clocked, Timing, InactivityTracksRound, BothMoved
<1> QED
  BY <1>1, StoreInvariance, PTL

(* OpenConnection cancels every grace period of the absence it ends, so    *)
(* none of the current generation runs against a present player.           *)
THEOREM GraceForAbsent == Spec => []GraceOnlyForAbsent
<1>1. StoreInv => GraceOnlyForAbsent
  BY DEF StoreInv, DeadlineInv, Placed, Graced, GraceOnlyForAbsent
<1> QED
  BY <1>1, StoreInvariance, PTL

(* The deadline that is applied is of the current round: another one could *)
(* only come before it if it did not apply, and then the round is the      *)
(* first.                                                                  *)
LEMMA ForfeitCurrent ==
  ASSUME StoreInv, NEW d \in deadlines, d.kind = "disconnect", ClaimRoom(d.room), NextApplicable(d)
  PROVE  d.round = Round(d.room)
<1> USE DEF StoreInv
<1>1. PICK e \in deadlines : e.room = d.room /\ ClaimDeadline(e) /\ Due(e)
  BY DEF ClaimRoom, DueIn
<1>2. /\ e.room \in Codes /\ e.round \in Rounds /\ e.due \in Nat
      /\ d.room \in Codes /\ d.round \in Rounds /\ d.due \in Nat /\ e.round = Round(d.room)
      /\ e.kind \in {"disconnect", "inactivity"} /\ e.round \in Nat /\ d.round \in Nat
      /\ e.kind = "disconnect" => e.role \in Role
  BY <1>1, DeadlineColumns, BoundsAssumption DEF ClaimDeadline, ActiveRound, Rounds
<1>3. /\ rooms[e.room].status = "active" /\ Row(e.room).funded /\ ~Resolved(Load(e.room))
  BY <1>1, ClaimedOpen
<1>4. CASE Applicable(e)
  <2>1. ~Before(e, d) /\ ~Before(d, e)
    BY <1>1, <1>4 DEF ClaimDeadline, Candidate, NextApplicable, DueIn
  <2>2. e.due = d.due
    BY <1>2, <2>1 DEF Before
  <2>3. e.kind = "disconnect"
    BY <1>2, <2>1, <2>2 DEF Before
  <2>4. ~(e.round < d.round) /\ ~(d.round < e.round)
    BY <1>1, <2>1, <2>2, <2>3 DEF Before
  <2> QED
    BY <1>2, <2>4
<1>5. CASE ~Applicable(e)
  <2>1. e.kind = "disconnect"
    BY <1>2, <1>3, <1>5, TimerApplies
  <2>2. Graced(e) /\ Placed(d)
    BY <2>1 DEF DeadlineInv, Placed
  <2>3. presence[e.room][e.role] \in [gen : Nat, present : BOOLEAN]
    BY <1>2, <2>1 DEF TypeInv, TypeOK, LinkTypeOK
  <2>4. ~(e.round > 1)
    <3> SUFFICES ASSUME e.round > 1 PROVE FALSE
      OBVIOUS
    <3>1. e.gen = presence[e.room][e.role].gen /\ ~presence[e.room][e.role].present
      BY <1>1, <1>2, <2>2 DEF Graced
    <3>2. presence[e.room][e.role] = [gen |-> e.gen, present |-> FALSE]
      BY <2>3, <3>1
    <3> QED
      BY <1>3, <1>5, <3>2 DEF Applicable
  <2> QED
    BY <1>2, <2>2, <2>4 DEF Placed, Rounds
<1> QED
  BY <1>4, <1>5

(* A forfeit is of the absent player named by a grace period that ran out. *)
LEMMA ForfeitFair ==
  ASSUME StoreInv, NEW d \in deadlines, ForfeitAbsent(d), NEW c \in Codes, NEW n \in Rounds,
         NEW p \in Role, rounds[c][n].forfeited = NoRole, rounds'[c][n].forfeited = p
  PROVE  /\ n = Round(c)
         /\ ~presence[c][p].present /\ ~Live(c, p, clock) /\ Live(c, Opponent(p), clock)
         /\ d.kind = "disconnect" /\ d.room = c /\ d.round = n
         /\ d.role = p /\ d.gen = presence[c][p].gen /\ d.due <= clock
<1> USE DEF StoreInv, TypeInv
<1> DEFINE r == Forfeit(Load(d.room), d.role)
<1>1. d.kind = "disconnect" /\ d.role \in Role
  BY DeadlineColumns DEF ForfeitAbsent
<1>2. Round(d.room) # 0 => Load(d.room) \in RoomType
  BY LoadRoom, DeadlineColumns DEF TypeOK
<1>3. Round(d.room) # 0 => Ends(Load(d.room), r)
  BY <1>1, <1>2, Endings
<1>4. SettleDeadline(d, r)
  BY DEF ForfeitAbsent
<1>5. /\ d.room \in Codes /\ Round(d.room) \in Rounds
      /\ \A e \in Codes, m \in Rounds :
           <<e, m>> # <<d.room, Round(d.room)>> => rounds'[e][m] = rounds[e][m]
      /\ rounds'[d.room][Round(d.room)].forfeited = r.forfeited
  <2> HIDE DEF r
  <2> QED
    BY <1>3, <1>4, SettleDeadlineTimely
<1>6. r.forfeited = d.role
  <2>1. Load(d.room) \in RoomType
    BY <1>2, <1>5 DEF Rounds
  <2> DEFINE won == Award(Load(d.room), WinFor(Opponent(d.role)))
  <2>2. won \in RoomType
    BY <2>1, AwardRoom DEF WinFor, Result
  <2>3. r = [won EXCEPT !.forfeited = d.role]
    BY DEF Forfeit
  <2> HIDE DEF won
  <2> QED
    BY <2>2, <2>3 DEF RoomType
<1> HIDE DEF r
<1>7. p # NoRole
  BY DEF Role, NoRole
<1>8. c = d.room /\ n = Round(c)
  BY <1>5, <1>7
<1>9. p = d.role
  BY <1>5, <1>6, <1>8
<1>10. d.round = Round(c)
  BY <1>1, <1>4, <1>8, ForfeitCurrent DEF SettleDeadline
<1>11. presence[c][p] = [gen |-> d.gen, present |-> FALSE] /\ d.due <= clock
  BY <1>1, <1>4, <1>8, <1>9 DEF SettleDeadline, NextApplicable, Applicable, Due
<1> QED
  BY <1>1, <1>8, <1>9, <1>10, <1>11 DEF ForfeitAbsent

(* ProcessNextDeadline gives a round away only against a player who has no *)
(* live connection, to one who has, when a grace period of that very       *)
(* absence, in that round, has run out.                                    *)
THEOREM ForfeitsAreFair == Spec => ForfeitOnlyAbsent
<1>1. StoreInv /\ [Next]_vars =>
        [\A c \in Codes, n \in Rounds, p \in Role :
           rounds[c][n].forfeited = NoRole /\ rounds'[c][n].forfeited = p =>
             /\ n = Round(c)
             /\ ~presence[c][p].present /\ ~Live(c, p, clock)
             /\ Live(c, Opponent(p), clock)
             /\ \E d \in deadlines : /\ d.kind = "disconnect" /\ d.room = c /\ d.round = n
                                     /\ d.role = p /\ d.gen = presence[c][p].gen
                                     /\ d.due <= clock]_vars
  <2> SUFFICES ASSUME StoreInv, [Next]_vars, NEW c \in Codes, NEW n \in Rounds, NEW p \in Role,
                      rounds[c][n].forfeited = NoRole, rounds'[c][n].forfeited = p
               PROVE  /\ n = Round(c)
                      /\ ~presence[c][p].present /\ ~Live(c, p, clock)
                      /\ Live(c, Opponent(p), clock)
                      /\ \E d \in deadlines : /\ d.kind = "disconnect" /\ d.room = c /\ d.round = n
                                              /\ d.role = p /\ d.gen = presence[c][p].gen
                                              /\ d.due <= clock
    OBVIOUS
  <2>1. p # NoRole
    BY DEF Role, NoRole
  <2>2. PICK d \in deadlines : ForfeitAbsent(d)
    BY <2>1, StepTimely DEF Unforfeited
  <2> QED
    BY <2>2, ForfeitFair
<1> QED
  BY <1>1, StoreInvariance, PTL DEF Spec, ForfeitOnlyAbsent
=============================================================================
