--------------------------- MODULE PromiseProofs ---------------------------
(***************************************************************************)
(* RoomStore implements PaidRounds, for any number of rooms, accounts and  *)
(* connections: every transaction is a recharge, one stake, one payment or *)
(* nothing, as far as money goes.  And no coin is made or lost: the sums   *)
(* over the tables balance, and the wins on the seats are those filed.     *)
(***************************************************************************)
EXTENDS LedgerProofs, FiniteSetTheorems

(* A room seats two different accounts, first its host, and a result is    *)
(* only ever given to a round that was paid for.                           *)
Matched(c) ==
  /\ Full(c) => seats[c]["host"] # seats[c]["guest"]
  /\ Round(c) = 0 => seats[c]["guest"] = NoOne
  /\ \A n \in Rounds : Finished(c, n) => rounds[c][n].funded

MatchInv == \A c \in Codes : Matched(c)

PromiseInv == TypeInv /\ LedgerInv /\ MatchInv

-----------------------------------------------------------------------------
(* The pot of a round, and what a step does to it.                         *)

Pot(c, n) ==
  IF <<c, n>> \notin staked
  THEN [host |-> NoOne, guest |-> NoOne, outcome |-> "unplayed"]
  ELSE [host |-> seats[c]["host"], guest |-> seats[c]["guest"],
        outcome |-> IF <<c, n>> \in settled THEN rounds[c][n].result ELSE "open"]

(* The pot of one round.                                                   *)
LEMMA PotOf ==
  ASSUME NEW c \in Codes, NEW n \in Rounds
  PROVE  Pots[c][n] = Pot(c, n)
BY DEF Pots, Pot

(* When no pot changes, the promise sees nothing.                          *)
LEMMA PotsKept ==
  ASSUME \A d \in Codes, m \in Rounds : Pot(d, m)' = Pot(d, m)
  PROVE  Pots' = Pots
<1>1. Pots = [d \in Codes |-> [m \in Rounds |-> Pot(d, m)]]
  BY DEF Pots, Pot
<1>2. Pots' = [d \in Codes |-> [m \in Rounds |-> Pot(d, m)']]
  BY DEF Pots, Pot
<1> HIDE DEF Pot
<1> QED
  BY <1>1, <1>2

(* When one pot changes, the promise sees that one.                        *)
LEMMA PotWritten ==
  ASSUME NEW c \in Codes, NEW n \in Rounds, NEW pot, Pot(c, n)' = pot,
         \A d \in Codes, m \in Rounds : <<d, m>> # <<c, n>> => Pot(d, m)' = Pot(d, m)
  PROVE  Pots' = [Pots EXCEPT ![c][n] = pot]
<1>1. Pots = [d \in Codes |-> [m \in Rounds |-> Pot(d, m)]]
  BY DEF Pots, Pot
<1>2. Pots' = [d \in Codes |-> [m \in Rounds |-> Pot(d, m)']]
  BY DEF Pots, Pot
<1> HIDE DEF Pot
<1>3. \A d \in Codes : d # c => Pots'[d] = Pots[d]
  BY <1>1, <1>2
<1>4. Pots'[c] = [Pots[c] EXCEPT ![n] = pot]
  BY <1>1, <1>2
<1> QED
  BY <1>1, <1>2, <1>3, <1>4

(* The empty database is the initial state of the promise.                 *)
LEMMA PromiseInit ==
  ASSUME Init
  PROVE  Promise!Init
<1>1. Pots = [c \in Codes |-> [n \in 1 .. MaxRound |->
               [host |-> NoOne, guest |-> NoOne, outcome |-> "unplayed"]]]
  BY DEF Init, Pots, Rounds
<1> QED
  BY <1>1 DEF Init, Promise!Init, Promise!Unplayed

(* A step that moves no coin and decides nothing.                          *)
Quiet ==
  /\ UNCHANGED <<wallet, house, staked, settled>>
  /\ \A d \in Codes : /\ \A m \in Rounds : SameOutcome(rounds[d][m], rounds'[d][m])
                      /\ \/ seats'[d] = seats[d] /\ (Round(d)' = 0 => Round(d) = 0)
                         \/ Round(d) = 0 /\ Round(d)' # 0 /\ seats'[d]["guest"] = seats[d]["guest"]

(* A room without a round has nothing staked or finished.                  *)
LEMMA Unplayed ==
  ASSUME LedgerInv, NEW d \in Codes, Round(d) = 0, NEW m \in Rounds
  PROVE  <<d, m>> \notin staked /\ ~Finished(d, m)
<1>1. rounds[d][m] = NoRound
  BY BoundsAssumption DEF LedgerInv, RoomLedger, Ordered, Rounds
<1> QED
  BY <1>1 DEF LedgerInv, RoomLedger, Booked, NoRound, Finished

(* A quiet transaction is a stutter of the promise.                        *)
LEMMA QuietStep ==
  ASSUME PromiseInv, Quiet
  PROVE  UNCHANGED Promise!vars /\ MatchInv'
<1>1. ASSUME NEW d \in Codes, NEW m \in Rounds PROVE Pot(d, m)' = Pot(d, m)
  <2>1. CASE seats'[d] = seats[d]
    BY <2>1 DEF Quiet, SameOutcome, Pot
  <2>2. CASE Round(d) = 0
    BY <2>2, Unplayed DEF PromiseInv, Quiet, Pot
  <2> QED
    BY <2>1, <2>2 DEF Quiet
<1>2. Pots' = Pots
  BY <1>1, PotsKept
<1>3. ASSUME NEW d \in Codes PROVE Matched(d)'
  <2>1. Matched(d) /\ \A m \in Rounds : SameOutcome(rounds[d][m], rounds'[d][m])
    BY DEF PromiseInv, MatchInv, Quiet
  <2>2. \A m \in Rounds : Finished(d, m)' => rounds'[d][m].funded
    BY <2>1 DEF Matched, SameOutcome, Finished
  <2>3. CASE seats'[d] = seats[d] /\ (Round(d)' = 0 => Round(d) = 0)
    BY <2>1, <2>2, <2>3 DEF Matched, Full
  <2>4. CASE Round(d) = 0 /\ Round(d)' # 0 /\ seats'[d]["guest"] = seats[d]["guest"]
    BY <2>1, <2>2, <2>4 DEF Matched, Full, Role
  <2> QED
    BY <2>3, <2>4 DEF Quiet
<1> QED
  BY <1>2, <1>3 DEF Quiet, MatchInv, Promise!vars

(* A recharge adds to one wallet.                                          *)
LEMMA RechargeStep ==
  ASSUME PromiseInv, NEW a \in Accounts, NEW amount \in RechargeAmounts, NEW k \in Keys,
         RechargeCommand(a, amount, k)
  PROVE  Promise!Recharge /\ MatchInv'
<1>1. wallet \in [Accounts -> Nat] /\ amount \in Nat /\ amount > 0
  BY AmountsAssumption DEF PromiseInv, TypeInv, TypeOK, MoneyTypeOK
<1>2. wallet' = [wallet EXCEPT ![a] = @ + amount]
  BY DEF RechargeCommand
<1>3. wallet'[a] = wallet[a] + amount /\ wallet[a] \in Nat
  BY <1>1, <1>2
<1>4. wallet'[a] > wallet[a] /\ wallet' = [wallet EXCEPT ![a] = wallet'[a]]
  BY <1>1, <1>2, <1>3
<1>5. UNCHANGED <<house, staked, settled, seats, rounds, rooms>>
  BY DEF RechargeCommand, game
<1>6. Pots' = Pots
  BY <1>5 DEF Pots
<1>7. MatchInv'
  BY <1>5 DEF PromiseInv, MatchInv, Matched, Full, Finished, Round
<1> QED
  BY <1>4, <1>5, <1>6, <1>7 DEF Promise!Recharge

-----------------------------------------------------------------------------
(* A stake: what fundRound does for the round n of the room c.             *)

Others(c, n) ==
  /\ \A d \in Codes \ {c} : seats'[d] = seats[d] /\ Round(d)' = Round(d)
  /\ \A d \in Codes, m \in Rounds :
       <<d, m>> # <<c, n>> => SameOutcome(rounds[d][m], rounds'[d][m])

Staking(c, n, host, guest) ==
  /\ host \in Accounts /\ guest \in Accounts /\ host # guest
  /\ <<c, n>> \notin staked
  /\ \A m \in Rounds : <<c, m>> \in staked => seats'[c] = seats[c]
  /\ n > 1 => seats'[c] = seats[c] /\ n - 1 \in Rounds /\ Finished(c, n - 1)
  /\ Afford({host, guest}) /\ StakeBoth(c, n, {host, guest}) /\ UNCHANGED <<house, settled>>
  /\ seats'[c]["host"] = host /\ seats'[c]["guest"] = guest /\ Round(c)' # 0
  /\ rounds'[c][n].result = NoResult
  /\ Others(c, n)

(* A stake opens one pot, for the two players who paid.                    *)
LEMMA StakingPots ==
  ASSUME PromiseInv, NEW c \in Codes, NEW n \in Rounds, NEW host, NEW guest,
         Staking(c, n, host, guest)
  PROVE  Pots' = [Pots EXCEPT ![c][n] = [host |-> host, guest |-> guest, outcome |-> "open"]]
<1>1. staked' = staked \cup {<<c, n>>} /\ settled' = settled
  BY DEF Staking, StakeBoth
<1>2. <<c, n>> \notin settled
  <2>1. Booked(c, n) /\ Matched(c)
    BY DEF PromiseInv, LedgerInv, RoomLedger, MatchInv
  <2> QED
    BY <2>1 DEF Booked, Matched, Staking
<1>3. Pot(c, n)' = [host |-> host, guest |-> guest, outcome |-> "open"]
  BY <1>1, <1>2 DEF Pot, Staking
<1>4. ASSUME NEW d \in Codes, NEW m \in Rounds, <<d, m>> # <<c, n>>
      PROVE  Pot(d, m)' = Pot(d, m)
  <2>1. (<<d, m>> \in staked' <=> <<d, m>> \in staked) /\ rounds'[d][m].result = rounds[d][m].result
    BY <1>1, <1>4 DEF Staking, Others, SameOutcome
  <2>2. <<d, m>> \in staked => seats'[d] = seats[d]
    BY DEF Staking, Others
  <2> QED
    BY <1>1, <2>1, <2>2 DEF Pot
<1> QED
  BY <1>3, <1>4, PotWritten

(* A stake leaves two different players in the room, and every other round *)
(* as it was.                                                              *)
LEMMA StakingMatch ==
  ASSUME PromiseInv, NEW c \in Codes, NEW n \in Rounds, NEW host, NEW guest,
         Staking(c, n, host, guest)
  PROVE  MatchInv'
<1>1. ASSUME NEW d \in Codes, NEW m \in Rounds, Finished(d, m)'
      PROVE  rounds'[d][m].funded
  <2>1. <<d, m>> # <<c, n>>
    BY <1>1 DEF Staking, Finished
  <2> QED
    BY <1>1, <2>1 DEF Staking, Others, SameOutcome, Finished, PromiseInv, MatchInv, Matched
<1>2. ASSUME NEW d \in Codes \ {c} PROVE Matched(d)'
  <2>1. Matched(d) /\ seats'[d] = seats[d] /\ Round(d)' = Round(d)
    BY <1>2 DEF PromiseInv, MatchInv, Staking, Others
  <2> QED
    BY <1>1, <2>1 DEF Matched, Full
<1>3. Matched(c)'
  BY <1>1 DEF Matched, Staking
<1> QED
  BY <1>2, <1>3 DEF MatchInv

(* fundRound's two debits are the promise's stake.                         *)
LEMMA StakingStep ==
  ASSUME PromiseInv, NEW c \in Codes, NEW n \in Rounds, NEW host, NEW guest,
         Staking(c, n, host, guest)
  PROVE  Promise!Stake(c, n) /\ MatchInv'
<1>1. /\ host \in Accounts /\ guest \in Accounts /\ host # guest
      /\ wallet \in [Accounts -> Nat]
  BY DEF Staking, PromiseInv, TypeInv, TypeOK, MoneyTypeOK
<1>2. wallet[host] >= 50 /\ wallet[guest] >= 50
  BY DEF Staking, Afford, RoundStake
<1>3. wallet' = [wallet EXCEPT ![host] = @ - 50, ![guest] = @ - 50]
  <2>1. wallet' = [a \in Accounts |-> IF a \in {host, guest} THEN wallet[a] - 50 ELSE wallet[a]]
    BY DEF Staking, StakeBoth, RoundStake
  <2> QED
    BY <1>1, <2>1
<1>4. Pots[c][n] = [host |-> NoOne, guest |-> NoOne, outcome |-> "unplayed"]
  BY PotOf DEF Staking, Pot
<1>5. Promise!Follows(c, n, host, guest)
  <2> SUFFICES ASSUME n > 1
               PROVE  /\ Pots[c][n - 1].outcome \in {"draw", "player_one_wins", "player_two_wins"}
                      /\ Pots[c][n - 1].host = host /\ Pots[c][n - 1].guest = guest
    BY DEF Promise!Follows, Promise!Outcomes
  <2>1. n - 1 \in Rounds /\ Finished(c, n - 1) /\ seats'[c] = seats[c]
    BY DEF Staking
  <2> DEFINE m == n - 1
  <2> HIDE DEF m
  <2>2. m \in Rounds /\ Finished(c, m)
    BY <2>1 DEF m
  <2>3. <<c, m>> \in staked /\ <<c, m>> \in settled
    BY <2>2 DEF PromiseInv, LedgerInv, RoomLedger, Booked, MatchInv, Matched
  <2>4. rounds[c][m].result \in Result
    BY <2>2 DEF PromiseInv, TypeInv, TypeOK, GameTypeOK, RoundType, Finished
  <2>5. Pots[c][m] = [host |-> host, guest |-> guest, outcome |-> rounds[c][m].result]
    BY <2>1, <2>2, <2>3, PotOf DEF Pot, Staking
  <2> QED
    BY <2>4, <2>5 DEF Result, Draw, m
<1>6. Pots' = [Pots EXCEPT ![c][n] = [host |-> host, guest |-> guest, outcome |-> "open"]]
  BY StakingPots
<1>7. house' = house
  BY DEF Staking
<1>8. Promise!Stake(c, n)
  BY <1>1, <1>2, <1>3, <1>4, <1>5, <1>6, <1>7 DEF Promise!Stake, Promise!Unplayed
<1> QED
  BY <1>8, StakingMatch

-----------------------------------------------------------------------------
(* A payment: what settleRound does for the room r that ends a round.      *)

(* Two credits to two wallets, one of which may be nothing.                *)
LEMMA Credited ==
  ASSUME wallet \in [Accounts -> Nat], NEW host \in Accounts, NEW guest \in Accounts, host # guest,
         NEW one \in Nat, NEW two \in Nat,
         wallet' = [a \in Accounts |-> wallet'[a]],
         wallet'[host] = wallet[host] + one, wallet'[guest] = wallet[guest] + two,
         \A a \in Accounts \ {host, guest} : wallet'[a] = wallet[a]
  PROVE  /\ wallet' = [wallet EXCEPT ![host] = @ + one, ![guest] = @ + two]
         /\ two = 0 => wallet' = [wallet EXCEPT ![host] = @ + one]
         /\ one = 0 => wallet' = [wallet EXCEPT ![guest] = @ + two]
<1>1. wallet' = [wallet EXCEPT ![host] = @ + one, ![guest] = @ + two]
  OBVIOUS
<1>2. ASSUME two = 0 PROVE wallet' = [wallet EXCEPT ![host] = @ + one]
  <2>1. wallet'[guest] = wallet[guest]
    BY <1>2
  <2> QED
    BY <2>1
<1>3. ASSUME one = 0 PROVE wallet' = [wallet EXCEPT ![guest] = @ + two]
  <2>1. wallet'[host] = wallet[host]
    BY <1>3
  <2> QED
    BY <2>1
<1> QED
  BY <1>1, <1>2, <1>3

(* settleRound's credits are the promise's payment for the result.         *)
LEMMA PayingStep ==
  ASSUME PromiseInv, NEW c \in Codes, Round(c) # 0, NEW r, Ends(Load(c), r),
         rooms[c].status = "active", Row(c).funded, Row(c).result = NoResult,
         Save(c, r, TRUE), SettleRound(c, r), UNCHANGED seats
  PROVE  (\E n \in Rounds : Promise!Pay(c, n)) /\ MatchInv'
<1> DEFINE host == seats[c]["host"]
           guest == seats[c]["guest"]
<1>1. /\ Round(c) \in Rounds /\ r \in RoomType /\ r.round = Round(c) /\ r.result \in Result
  BY LoadRoom DEF Ends, Load, PromiseInv, TypeInv, TypeOK
<1> PICK n \in Rounds : n = Round(c)
  BY <1>1
<1>2. Booked(c, n) /\ Matched(c)
  BY DEF PromiseInv, LedgerInv, RoomLedger, MatchInv
<1>3. /\ Filed(c, n) = {} /\ <<c, n>> \notin settled /\ <<c, n>> \in staked
      /\ ~HasHistory(c, n)
  BY <1>2 DEF Booked, Open, Finished, Row, Filed, HasHistory
<1>4. /\ Full(c)
      /\ settled' = settled \cup {<<c, n>>} /\ UNCHANGED staked
      /\ wallet' = [a \in Accounts |->
            CASE Seated(c, a, "host") -> wallet[a] + Payout(r.result, "host")
              [] Seated(c, a, "guest") -> wallet[a] + Payout(r.result, "guest")
              [] OTHER -> wallet[a]]
      /\ house' = house + HouseEarnings(r.result)
  BY <1>1, <1>3 DEF SettleRound
<1>5. /\ rooms'[c].round = n
      /\ rounds'[c][n] = RoundRow(r, TRUE)
      /\ \A m \in Rounds : m # n => rounds'[c][m] = rounds[c][m]
      /\ \A d \in Codes \ {c} : rooms'[d] = rooms[d] /\ rounds'[d] = rounds[d]
  <2>1. TypeInv /\ TRUE \in BOOLEAN /\ r.round \in Rounds
    BY <1>1 DEF PromiseInv
  <2>2. /\ rooms'[c].round = r.round
        /\ rounds'[c][r.round] = RoundRow(r, TRUE)
        /\ \A m \in Rounds : m # r.round => rounds'[c][m] = rounds[c][m]
        /\ \A d \in Codes \ {c} : rooms'[d] = rooms[d] /\ rounds'[d] = rounds[d]
    BY <1>1, <2>1, SaveRound
  <2> QED
    BY <1>1, <2>2
<1>6. rounds'[c][n].result = r.result /\ rounds'[c][n].funded
  BY <1>5 DEF RoundRow
<1>7. /\ wallet \in [Accounts -> Nat] /\ house \in Nat
      /\ host \in Accounts /\ guest \in Accounts /\ host # guest
  BY <1>2, <1>4 DEF Full, Role, Matched, PromiseInv, TypeInv, TypeOK, MoneyTypeOK, GameTypeOK
<1>8. MatchInv'
  <2>1. ASSUME NEW d \in Codes, NEW m \in Rounds, Finished(d, m)'
        PROVE  rounds'[d][m].funded
    <3>1. CASE d = c /\ m = n
      BY <1>6, <3>1
    <3>2. CASE ~(d = c /\ m = n)
      BY <1>5, <2>1, <3>2 DEF Finished, PromiseInv, MatchInv, Matched
    <3> QED
      BY <3>1, <3>2
  <2>2. ASSUME NEW d \in Codes PROVE Matched(d)'
    <3>1. Matched(d) /\ Round(d)' = Round(d)
      BY <1>5 DEF Round, PromiseInv, MatchInv
    <3> QED
      BY <2>1, <3>1 DEF Matched, Full
  <2> QED
    BY <2>2 DEF MatchInv
<1>9. Pots[c][n] = [host |-> host, guest |-> guest, outcome |-> "open"]
  BY <1>3, PotOf DEF Pot
<1>10. Pots' = [Pots EXCEPT ![c][n].outcome = r.result]
  <2> DEFINE pot == [host |-> host, guest |-> guest, outcome |-> r.result]
  <2>1. Pot(c, n)' = pot
    BY <1>3, <1>4, <1>6 DEF Pot
  <2>2. ASSUME NEW d \in Codes, NEW m \in Rounds, <<d, m>> # <<c, n>>
        PROVE  Pot(d, m)' = Pot(d, m)
    <3>1. rounds'[d][m] = rounds[d][m]
      BY <1>5, <2>2
    <3> QED
      BY <1>4, <2>2, <3>1 DEF Pot
  <2>3. Pots' = [Pots EXCEPT ![c][n] = pot]
    BY <2>1, <2>2, PotWritten
  <2>4. pot = [Pots[c][n] EXCEPT !.outcome = r.result]
    BY <1>9
  <2> HIDE DEF pot
  <2> QED
    BY <2>3, <2>4
<1> HIDE DEF host, guest
<1>11. wallet' = [a \in Accounts |->
           CASE a = host -> wallet[a] + Payout(r.result, "host")
             [] a = guest -> wallet[a] + Payout(r.result, "guest")
             [] OTHER -> wallet[a]]
  BY <1>4 DEF Seated, host, guest
<1>12. /\ Pots[c][n].host = host /\ Pots[c][n].guest = guest /\ Pots[c][n].outcome = "open"
  BY <1>9
<1>13. Promise!Pay(c, n)
  <2>1. Payout(r.result, "host") \in Nat /\ Payout(r.result, "guest") \in Nat
    BY DEF Payout, RoundStake, WinnerPayout
  <2> DEFINE one == Payout(r.result, "host")
             two == Payout(r.result, "guest")
  <2> HIDE DEF one, two
  <2>2. /\ wallet' = [wallet EXCEPT ![host] = @ + one, ![guest] = @ + two]
        /\ two = 0 => wallet' = [wallet EXCEPT ![host] = @ + one]
        /\ one = 0 => wallet' = [wallet EXCEPT ![guest] = @ + two]
    <3>1. one \in Nat /\ two \in Nat
      BY <2>1 DEF one, two
    <3>2. /\ wallet' = [a \in Accounts |-> wallet'[a]]
          /\ wallet'[host] = wallet[host] + one /\ wallet'[guest] = wallet[guest] + two
          /\ \A a \in Accounts \ {host, guest} : wallet'[a] = wallet[a]
      BY <1>7, <1>11 DEF one, two
    <3> QED
      BY <1>7, <3>1, <3>2, Credited
  <2>3. house' = house + HouseEarnings(r.result)
    BY <1>4
  <2>4. CASE r.result = "draw"
    <3>1. one = 50 /\ two = 50 /\ HouseEarnings(r.result) = 0
      BY <2>4 DEF one, two, Payout, HouseEarnings, Draw, RoundStake
    <3>2. wallet' = [wallet EXCEPT ![host] = @ + 50, ![guest] = @ + 50]
      BY <2>2, <3>1
    <3>3. house' = house
      BY <1>7, <2>3, <3>1
    <3>4. Pots' = [Pots EXCEPT ![c][n].outcome = "draw"]
      BY <1>10, <2>4
    <3> QED
      BY <1>12, <3>3, <3>4, <3>2 DEF Promise!Pay
  <2>5. CASE r.result = "player_one_wins"
    <3>1. one = 75 /\ two = 0 /\ HouseEarnings(r.result) = 25
      BY <2>5 DEF one, two, Payout, HouseEarnings, Draw, WinFor, WinnerPayout, HousePayout
    <3>2. wallet' = [wallet EXCEPT ![host] = @ + 75] /\ house' = house + 25
      BY <2>2, <2>3, <3>1
    <3> QED
      BY <1>10, <1>12, <2>5, <3>2 DEF Promise!Pay
  <2>6. CASE r.result = "player_two_wins"
    <3>1. one = 0 /\ two = 75 /\ HouseEarnings(r.result) = 25
      BY <2>6 DEF one, two, Payout, HouseEarnings, Draw, WinFor, WinnerPayout, HousePayout
    <3>2. wallet' = [wallet EXCEPT ![guest] = @ + 75] /\ house' = house + 25
      BY <2>2, <2>3, <3>1
    <3> QED
      BY <1>10, <1>12, <2>6, <3>2 DEF Promise!Pay
  <2> QED
    BY <1>1, <2>4, <2>5, <2>6 DEF Result, Draw
<1> QED
  BY <1>8, <1>13

-----------------------------------------------------------------------------
(* The transactions of the store, one by one.                              *)

Kept == (Promise!Next \/ UNCHANGED Promise!vars) /\ MatchInv'

(* A step that writes neither seats nor rounds nor wallets.                *)
LEMMA KeptAll ==
  ASSUME PromiseInv, UNCHANGED <<seats, rounds, wallet, house, staked, settled>>,
         \A d \in Codes : Round(d)' = Round(d)
  PROVE  Kept
<1>1. Quiet
  BY DEF Quiet, SameOutcome
<1> QED
  BY <1>1, QuietStep DEF Kept

(* A revision alone moves no coin.                                         *)
LEMMA BumpKeeps ==
  ASSUME PromiseInv, NEW c \in Codes, BumpRevision(c),
         UNCHANGED <<seats, rounds, wallet, house, staked, settled>>
  PROVE  Kept
<1>1. \A d \in Codes : Round(d)' = Round(d)
  BY BumpRows DEF PromiseInv, TypeInv, TypeOK, Round
<1> QED
  BY <1>1, KeptAll

(* A new room has a host and an unfunded first round.                      *)
LEMMA CreateKeeps ==
  ASSUME PromiseInv, NEW a \in Accounts, NEW c \in Codes, NEW k, CreateCommand(a, c, k)
  PROVE  Kept
<1>1. Round(c) = 0 /\ rounds[c][1] = NoRound /\ 1 \in Rounds
  BY BoundsAssumption
  DEF CreateCommand, PromiseInv, TypeInv, Started, LedgerInv, RoomLedger, Ordered, Rounds
<1>2. UNCHANGED <<wallet, house, staked, settled>>
  BY DEF CreateCommand, money
<1>3. /\ Round(c)' # 0 /\ \A d \in Codes \ {c} : Round(d)' = Round(d)
      /\ seats'[c]["guest"] = seats[c]["guest"]
      /\ \A d \in Codes \ {c} : seats'[d] = seats[d]
  BY DEF CreateCommand, PromiseInv, TypeInv, TypeOK, GameTypeOK, Round, Role
<1>4. ASSUME NEW d \in Codes, NEW m \in Rounds PROVE SameOutcome(rounds[d][m], rounds'[d][m])
  <2> DEFINE row == [NoRound EXCEPT !.status = "active"]
  <2>1. SameOutcome(NoRound, row)
    BY DEF SameOutcome, NoRound
  <2>2. rounds' = [rounds EXCEPT ![c][1] = row] /\ rounds \in [Codes -> [Rounds -> RoundType]]
    BY DEF CreateCommand, PromiseInv, TypeInv, TypeOK, GameTypeOK
  <2> HIDE DEF row
  <2>3. CASE d = c /\ m = 1
    BY <1>1, <2>1, <2>2, <2>3
  <2>4. CASE ~(d = c /\ m = 1)
    BY <1>1, <2>2, <2>4 DEF SameOutcome
  <2> QED
    BY <2>3, <2>4
<1>5. Quiet
  BY <1>1, <1>2, <1>3, <1>4 DEF Quiet
<1> QED
  BY <1>5, QuietStep DEF Kept

(* The guest's arrival is the stake of the first round.                    *)
LEMMA JoinKeeps ==
  ASSUME PromiseInv, NEW a \in Accounts, NEW c \in Codes, NEW k, JoinCommand(a, c, k)
  PROVE  Kept
<1> DEFINE r == Join(Load(c))
           host == seats[c]["host"]
<1> USE DEF PromiseInv
<1>1. Round(c) # 0 /\ Round(c) \in Rounds
  BY LoadRoom DEF JoinCommand, TypeInv, TypeOK, Started
<1> PICK n \in Rounds : n = Round(c)
  BY <1>1
<1>2. r \in RoomType /\ r.round = n /\ r.result = Row(c).result
  BY <1>1, LoadRoom DEF Join, Load, RoomType, TypeInv, TypeOK
<1>3. ~Full(c) /\ RoomLedger(c)
  BY DEF JoinCommand, CanJoin, Load, Full, LedgerInv
<1>4. \A m \in Rounds : ~Finished(c, m) /\ ~rounds[c][m].funded /\ <<c, m>> \notin staked
  BY <1>3 DEF RoomLedger, Booked, Ordered, Open, Finished
<1>5. ~(n > 1)
  <2> SUFFICES ASSUME n > 1 PROVE FALSE
    OBVIOUS
  <2>1. 1 \in Rounds /\ 1 < Round(c)
    BY BoundsAssumption DEF Rounds
  <2> QED
    BY <1>3, <1>4, <2>1 DEF RoomLedger, Ordered
<1>6. /\ seats'[c]["host"] = host /\ seats'[c]["guest"] = a
      /\ \A d \in Codes \ {c} : seats'[d] = seats[d]
  BY DEF JoinCommand, TypeInv, TypeOK, GameTypeOK, Role
<1>7. host \in Accounts /\ host # a
  BY <1>3 DEF RoomLedger, Hosted, JoinCommand, Seated, Role, TypeInv, TypeOK, GameTypeOK
<1>8. Afford({host, a}) /\ StakeBoth(c, n, {host, a}) /\ UNCHANGED <<house, settled>>
  BY <1>4 DEF JoinCommand, FundRound
<1>9. Save(c, r, TRUE) /\ TRUE \in BOOLEAN
  BY DEF JoinCommand
<1> HIDE DEF r, host
<1>10. /\ rooms'[c].round = n
       /\ rounds'[c][n] = RoundRow(r, TRUE)
       /\ \A m \in Rounds : m # n => rounds'[c][m] = rounds[c][m]
       /\ \A d \in Codes \ {c} : rooms'[d] = rooms[d] /\ rounds'[d] = rounds[d]
  BY <1>2, <1>9, SaveRound
<1>11. rounds'[c][n].result = NoResult
  <2>1. Row(c).result = NoResult
    BY <1>4 DEF Finished, Row
  <2> QED
    BY <1>2, <1>10, <2>1 DEF RoundRow
<1>12. Others(c, n)
  <2>1. ASSUME NEW d \in Codes, NEW m \in Rounds, <<d, m>> # <<c, n>>
        PROVE  SameOutcome(rounds[d][m], rounds'[d][m])
    <3>1. rounds'[d][m] = rounds[d][m]
      BY <1>10, <2>1
    <3> QED
      BY <3>1 DEF SameOutcome
  <2> QED
    BY <1>6, <1>10, <2>1 DEF Others, Round
<1>13. Round(c)' # 0
  BY <1>1, <1>10 DEF Round
<1>14. Staking(c, n, host, a)
  BY <1>4, <1>5, <1>6, <1>7, <1>8, <1>11, <1>12, <1>13 DEF Staking
<1>15. Promise!Stake(c, n) /\ MatchInv'
  BY <1>14, StakingStep
<1> QED
  BY <1>15 DEF Kept, Promise!Next, Rounds

(* A row of the current round is written, and its outcome stays.           *)
LEMMA RowKeeps ==
  ASSUME PromiseInv, NEW c \in Codes, Round(c) # 0, NEW row \in RoundType, SameOutcome(Row(c), row),
         rounds' = [rounds EXCEPT ![c][Round(c)] = row],
         UNCHANGED <<seats, wallet, house, staked, settled>>,
         \A d \in Codes : Round(d)' = Round(d)
  PROVE  Kept
<1> USE DEF PromiseInv
<1>1. Round(c) \in Rounds
  BY LoadRoom DEF TypeInv, TypeOK
<1>2. /\ rounds'[c][Round(c)] = row
      /\ \A e \in Codes, m \in Rounds : <<e, m>> # <<c, Round(c)>> => rounds'[e][m] = rounds[e][m]
  <2>1. rounds \in [Codes -> [Rounds -> RoundType]]
    BY DEF TypeInv, TypeOK, GameTypeOK
  <2> PICK n \in Rounds : n = Round(c)
    BY <1>1
  <2>2. rounds' = [rounds EXCEPT ![c][n] = row]
    OBVIOUS
  <2> QED
    BY <2>1, <2>2
<1>3. ASSUME NEW d \in Codes, NEW m \in Rounds PROVE SameOutcome(rounds[d][m], rounds'[d][m])
  <2>1. CASE d = c /\ m = Round(c)
    BY <1>2, <2>1 DEF Row
  <2>2. CASE ~(d = c /\ m = Round(c))
    BY <1>2, <2>2 DEF SameOutcome
  <2> QED
    BY <2>1, <2>2
<1>4. Quiet
  BY <1>3 DEF Quiet
<1> QED
  BY <1>4, QuietStep DEF Kept

(* A move is not an outcome.                                               *)
LEMMA SubmitMoveKeeps ==
  ASSUME PromiseInv, NEW a, NEW c \in Codes, NEW throw \in Throws, NEW k \in Keys,
         SubmitMoveCommand(a, c, throw, k)
  PROVE  Kept
<1> USE DEF PromiseInv
<1>1. PICK p \in Role : /\ RecordRoomAction(c, k, "active")
                        /\ rounds' = [rounds EXCEPT ![c][Round(c)].moves[p] = throw]
  BY DEF SubmitMoveCommand
<1>2. Round(c) # 0
  BY <1>1 DEF RecordRoomAction, TypeInv, Started
<1>3. WithMove(c, p, throw) \in RoundType
  BY <1>2, MoveRow
<1>4. Round(c) \in Rounds /\ rounds \in [Codes -> [Rounds -> RoundType]]
  BY <1>2, LoadRoom DEF TypeInv, TypeOK, GameTypeOK
<1>5. rounds' = [rounds EXCEPT ![c][Round(c)] = WithMove(c, p, throw)]
  BY <1>1, <1>4 DEF WithMove, Row
<1>6. SameOutcome(Row(c), WithMove(c, p, throw))
  BY <1>4 DEF SameOutcome, WithMove, Row, RoundType
<1>7. /\ \A d \in Codes : Round(d)' = Round(d)
      /\ UNCHANGED <<seats, wallet, house, staked, settled>>
  BY <1>1, BumpRows DEF RecordRoomAction, money, TypeInv, TypeOK, Round
<1> QED
  BY <1>2, <1>3, <1>5, <1>6, <1>7, RowKeeps

(* Asking for the next round pays nothing.                                 *)
LEMMA RequestKeeps ==
  ASSUME PromiseInv, NEW a, NEW c \in Codes, NEW k \in Keys, RequestNextRoundCommand(a, c, k)
  PROVE  Kept
<1> USE DEF PromiseInv
<1>1. PICK p \in Role : /\ RecordRoomAction(c, k, "resolved")
                        /\ rounds' = [rounds EXCEPT ![c][Round(c)].next = @ \cup {p}]
  BY DEF RequestNextRoundCommand
<1>2. Round(c) # 0
  BY <1>1 DEF RecordRoomAction, TypeInv, Started
<1>3. WithRequest(c, p) \in RoundType
  BY <1>2, RequestRow
<1>4. rounds' = [rounds EXCEPT ![c][Round(c)] = WithRequest(c, p)]
  BY <1>1, <1>2, RequestRow
<1>5. SameOutcome(Row(c), WithRequest(c, p))
  <2>1. Row(c) \in RoundType
    BY <1>2, LoadRoom DEF TypeInv, TypeOK
  <2> QED
    BY <2>1 DEF SameOutcome, WithRequest, RoundType
<1>6. /\ \A d \in Codes : Round(d)' = Round(d)
      /\ UNCHANGED <<seats, wallet, house, staked, settled>>
  BY <1>1, BumpRows DEF RecordRoomAction, money, TypeInv, TypeOK, Round
<1> QED
  BY <1>2, <1>3, <1>4, <1>5, <1>6, RowKeeps

(* A room is left only between rounds, and its rounds keep their outcomes. *)
LEMMA LeaveKeeps ==
  ASSUME PromiseInv, NEW a, NEW c \in Codes, NEW k \in Keys, LeaveCommand(a, c, k)
  PROVE  Kept
<1> DEFINE r == Leave(Load(c))
<1> USE DEF PromiseInv
<1>1. Round(c) # 0
  BY DEF LeaveCommand, TypeInv, Started
<1>2. /\ r \in RoomType /\ r.round = Round(c) /\ r.round \in Rounds /\ Row(c) \in RoundType
      /\ r.result = Row(c).result /\ r.forfeited = Row(c).forfeited
  BY <1>1, LoadRoom DEF Leave, Load, RoomType, RoundType, TypeInv, TypeOK
<1>3. SaveRoom(c, r) /\ rounds' = [rounds EXCEPT ![c][r.round] = RoundRow(r, Row(c).funded)]
  BY DEF LeaveCommand, Save
<1>4. UNCHANGED <<seats, wallet, house, staked, settled>>
  BY DEF LeaveCommand, money
<1> HIDE DEF r
<1>5. RoundRow(r, Row(c).funded) \in RoundType /\ SameOutcome(Row(c), RoundRow(r, Row(c).funded))
  <2>1. Row(c).funded \in BOOLEAN
    BY <1>2 DEF RoundType
  <2> QED
    BY <1>2, <2>1, RowType DEF SameOutcome, RoundRow
<1>6. \A d \in Codes : Round(d)' = Round(d)
  BY <1>2, <1>3, SaveRows DEF TypeInv, TypeOK, Round
<1> QED
  BY <1>1, <1>2, <1>3, <1>4, <1>5, <1>6, RowKeeps

(* The next round is staked by the two who played the last one.            *)
LEMMA AdvanceKeeps ==
  ASSUME PromiseInv, NEW c \in Codes, ReconcileAdvance(c)
  PROVE  Kept
<1> DEFINE r == Advance(Load(c))
           old == [Row(c) EXCEPT !.status = "resolved"]
           host == seats[c]["host"]
           guest == seats[c]["guest"]
<1> USE DEF PromiseInv
<1>1. Round(c) # 0 /\ Round(c) \in Rounds /\ Row(c) \in RoundType
  BY LoadRoom DEF ReconcileAdvance, ClaimAdvance, TypeInv, TypeOK, Started
<1> PICK m \in Rounds : m = Round(c)
  BY <1>1
<1> PICK n \in Rounds : n = m + 1
  BY <1>1, BoundsAssumption DEF ReconcileAdvance, Rounds
<1>2. n > m /\ n # m /\ n - 1 = m
  BY BoundsAssumption DEF Rounds
<1>3. Finished(c, m) /\ Full(c)
  BY DEF ReconcileAdvance, ClaimAdvance, CanAdvance, Resolved, Load, Finished, Row, Full
<1>4. ~rounds[c][n].funded /\ <<c, n>> \notin staked
  BY <1>2 DEF LedgerInv, RoomLedger, Ordered, Booked, NoRound
<1>5. /\ host \in Accounts /\ guest \in Accounts /\ host # guest
  BY <1>3 DEF Full, Role, MatchInv, Matched, TypeInv, TypeOK, GameTypeOK
<1>6. {seats[c][p] : p \in Role} = {host, guest}
  BY DEF Role
<1>7. Afford({host, guest}) /\ StakeBoth(c, n, {host, guest}) /\ UNCHANGED <<house, settled, seats>>
  BY <1>4, <1>6 DEF ReconcileAdvance, FundRound
<1>8. r.result = NoResult /\ r.round = n /\ r \in RoomType
  <2>1. Load(c) \in RoomType /\ Load(c).round = m
    BY <1>1, LoadRoom DEF TypeInv, TypeOK
  <2>2. [p \in Role |-> NoMove] \in [Role -> Throw \cup {NoMove}]
    OBVIOUS
  <2>3. Load(c).round + 1 = n /\ n \in Nat
    BY <2>1, BoundsAssumption DEF Rounds
  <2> QED
    BY <2>1, <2>2, <2>3 DEF Advance, RoomType
<1>9. /\ rounds'[c][n] = RoundRow(r, TRUE) /\ rounds'[c][m] = old
      /\ \A i \in Rounds : i # n /\ i # m => rounds'[c][i] = rounds[c][i]
      /\ \A d \in Codes \ {c} : rounds'[d] = rounds[d]
  <2>1. rounds \in [Codes -> [Rounds -> RoundType]]
    BY DEF TypeInv, TypeOK, GameTypeOK
  <2> DEFINE released == [rounds EXCEPT ![c][m] = old]
             new == RoundRow(r, TRUE)
  <2>2. rounds' = [released EXCEPT ![c][n] = new]
    BY <2>1 DEF ReconcileAdvance, Row
  <2>3. old \in RoundType
    BY <1>1 DEF RoundType
  <2> HIDE DEF r, old, new
  <2>4. /\ released \in [Codes -> [Rounds -> RoundType]] /\ released[c][m] = old
        /\ \A i \in Rounds : i # m => released[c][i] = rounds[c][i]
        /\ \A d \in Codes \ {c} : released[d] = rounds[d]
    BY <2>1, <2>3
  <2> HIDE DEF released
  <2>5. /\ rounds'[c][n] = new /\ \A i \in Rounds : i # n => rounds'[c][i] = released[c][i]
        /\ \A d \in Codes \ {c} : rounds'[d] = released[d]
    BY <2>2, <2>4
  <2> QED
    BY <1>2, <2>4, <2>5 DEF new
<1>10. SameOutcome(rounds[c][m], old)
  BY <1>1 DEF SameOutcome, Row, RoundType
<1>11. SaveRoom(c, r)
  BY DEF ReconcileAdvance
<1> HIDE DEF r, old, host, guest
<1>12. rooms'[c].round = n /\ \A d \in Codes \ {c} : rooms'[d] = rooms[d]
  BY <1>8, <1>11, SaveRows DEF TypeInv, TypeOK
<1>13. Round(c)' # 0 /\ \A d \in Codes \ {c} : Round(d)' = Round(d)
  BY <1>12 DEF Round, Rounds
<1>14. Others(c, n)
  <2>1. ASSUME NEW d \in Codes, NEW i \in Rounds, <<d, i>> # <<c, n>>
        PROVE  SameOutcome(rounds[d][i], rounds'[d][i])
    <3>1. CASE d = c /\ i = m
      BY <1>9, <1>10, <3>1
    <3>2. CASE ~(d = c /\ i = m)
      BY <1>9, <2>1, <3>2 DEF SameOutcome
    <3> QED
      BY <3>1, <3>2
  <2> QED
    BY <1>7, <1>13, <2>1 DEF Others
<1>15. rounds'[c][n].result = NoResult
  BY <1>8, <1>9 DEF RoundRow
<1>16. seats'[c]["host"] = host /\ seats'[c]["guest"] = guest
  BY <1>7 DEF host, guest
<1>17. Staking(c, n, host, guest)
  BY <1>2, <1>3, <1>4, <1>5, <1>7, <1>13, <1>14, <1>15, <1>16 DEF Staking
<1>18. Promise!Stake(c, n) /\ MatchInv'
  BY <1>17, StakingStep
<1> QED
  BY <1>18 DEF Kept, Promise!Next, Rounds

(* The reconciler pays a round with two moves or stakes the next one.      *)
LEMMA ReconcileKeeps ==
  ASSUME PromiseInv, NEW c \in Codes, Reconcile(c)
  PROVE  Kept
<1> USE DEF PromiseInv
<1>1. CASE ReconcileResolve(c)
  <2>1. Round(c) # 0 /\ Row(c).funded /\ rooms[c].status = "active"
    BY <1>1 DEF ReconcileResolve, ClaimResolve, TypeInv, Started
  <2>2. Ends(Load(c), ResolveCommittedMoves(Load(c)))
    BY <2>1, LoadRoom, Endings DEF TypeInv, TypeOK
  <2>3. Row(c).result = NoResult
    BY <1>1 DEF ReconcileResolve, CanResolveCommittedMoves, CanResolve, Resolved, Load
  <2>4. (\E n \in Rounds : Promise!Pay(c, n)) /\ MatchInv'
    BY <1>1, <2>1, <2>2, <2>3, PayingStep DEF ReconcileResolve
  <2> QED
    BY <2>4 DEF Kept, Promise!Next, Rounds
<1> QED
  BY <1>1, AdvanceKeeps DEF Reconcile

(* A deadline that ends the round pays for it.                             *)
LEMMA SettleDeadlineKeeps ==
  ASSUME PromiseInv, NEW d \in deadlines, NEW r,
         Round(d.room) # 0 => Ends(Load(d.room), r),
         CanResolve(Load(d.room), Round(d.room)), SettleDeadline(d, r)
  PROVE  Kept
<1> USE DEF PromiseInv
<1>1. d.room \in Codes
  BY DEF TypeInv, TypeOK, LinkTypeOK, DeadlineType
<1>2. rooms[d.room].status = "active" /\ Row(d.room).funded
  BY DEF SettleDeadline, ClaimRoom, DueIn, ClaimDeadline, ActiveRound
<1>3. Round(d.room) # 0
  BY <1>1, <1>2 DEF TypeInv, Started
<1>4. Row(d.room).result = NoResult
  BY DEF CanResolve, Resolved, Load
<1>5. (\E n \in Rounds : Promise!Pay(d.room, n)) /\ MatchInv'
  BY <1>1, <1>2, <1>3, <1>4, PayingStep DEF SettleDeadline
<1> QED
  BY <1>1, <1>5 DEF Kept, Promise!Next, Rounds

(* The deadline worker pays one round or moves no coin.                    *)
LEMMA ProcessNextDeadlineKeeps ==
  ASSUME PromiseInv, ProcessNextDeadline
  PROVE  Kept
<1> USE DEF PromiseInv
<1>1. ASSUME UNCHANGED <<game, money>> PROVE Kept
  BY <1>1, KeptAll DEF game, money, Round
<1>2. ASSUME NEW d \in deadlines, Round(d.room) # 0
      PROVE  Load(d.room) \in RoomType
  BY <1>2, LoadRoom DEF TypeInv, TypeOK, LinkTypeOK, DeadlineType
<1>3. ASSUME NEW d \in deadlines, ForfeitAbsent(d) PROVE Kept
  <2>1. d.role \in Role
    BY <1>3 DEF ForfeitAbsent, TypeInv, TypeOK, LinkTypeOK, DeadlineType
  <2>2. Round(d.room) # 0 => Ends(Load(d.room), Forfeit(Load(d.room), d.role))
    BY <1>2, <2>1, Endings
  <2> QED
    BY <1>3, <2>2, SettleDeadlineKeeps DEF ForfeitAbsent, CanForfeit
<1>4. ASSUME NEW d \in deadlines, DrawAbsent(d) PROVE Kept
  BY <1>2, <1>4, Endings, SettleDeadlineKeeps DEF DrawAbsent, CanResolveDeadlineDraw
<1>5. ASSUME NEW d \in deadlines, ResolveIdle(d) PROVE Kept
  BY <1>2, <1>5, Endings, SettleDeadlineKeeps DEF ResolveIdle, CanResolveInactivity
<1> QED
  BY <1>1, <1>3, <1>4, <1>5
  DEF ProcessNextDeadline, CancelInapplicable, CancelUnclaimed, CancelDeadline

(* Connections move no coin.                                               *)
LEMMA ConnectKeeps ==
  ASSUME PromiseInv, Connect
  PROVE  Kept
<1> USE DEF PromiseInv
<1>1. ASSUME UNCHANGED <<rooms, seats, rounds, money>> PROVE Kept
  BY <1>1, KeptAll DEF money, Round
<1>2. ASSUME NEW a \in Accounts, NEW c \in Codes, NEW id \in Conns, OpenConnection(a, c, id)
      PROVE  Kept
  BY <1>1, <1>2, BumpKeeps DEF OpenConnection, money
<1>3. ASSUME NEW k \in conns, NEW at, Disappear(k, at) PROVE Kept
  <2>1. k.room \in Codes
    BY DEF TypeInv, TypeOK, LinkTypeOK, ConnectionType
  <2> QED
    BY <1>1, <1>3, <2>1, BumpKeeps DEF Disappear, money
<1>4. ASSUME NEW k \in conns, RenewConnection(k) \/ DeleteSession(k) PROVE Kept
  BY <1>1, <1>4 DEF RenewConnection, DeleteSession, game
<1> QED
  BY <1>2, <1>3, <1>4 DEF Connect, CloseConnection, ReapExpiredConnection

(* Every transaction, of whichever kind.                                   *)
LEMMA StepKeeps ==
  ASSUME PromiseInv, [Next]_vars
  PROVE  Kept
<1>1. ASSUME UNCHANGED <<game, money>> PROVE Kept
  BY <1>1, KeptAll DEF game, money, Round
<1>2. ASSUME Command PROVE Kept
  <2>1. ASSUME NEW a \in Accounts, NEW k \in Keys, NEW amount \in RechargeAmounts,
               RechargeCommand(a, amount, k)
        PROVE  Kept
    BY <2>1, RechargeStep DEF Kept, Promise!Next
  <2> QED
    BY <1>2, <2>1, CreateKeeps, JoinKeeps, SubmitMoveKeeps, RequestKeeps, LeaveKeeps DEF Command
<1>3. ASSUME (\E k \in receipts : CleanupCommandReceipts(k)) \/ Tick \/ UNCHANGED vars PROVE Kept
  BY <1>1, <1>3 DEF CleanupCommandReceipts, Tick, vars
<1> QED
  BY <1>2, <1>3, ReconcileKeeps, ConnectKeeps, ProcessNextDeadlineKeeps DEF Next

(* The empty database has no room to match.                                *)
LEMMA MatchInit ==
  ASSUME Init
  PROVE  MatchInv
BY NoOneAssumption DEF Init, MatchInv, Matched, Full, Finished, Round, NoRoom, NoRound, Role

(* The ledger of commands.go, reconciliation.go and deadlines.go, whatever *)
(* their order, keeps the promise of PaidRounds: each funded round takes   *)
(* 50 coins from two different players and is paid once, and before the    *)
(* next one between the same two is staked.                                *)
THEOREM PromiseKept == Spec => PaysAsPromised
<1>1. Init => Promise!Init /\ MatchInv
  BY PromiseInit, MatchInit
<1>2. TypeInv /\ LedgerInv /\ MatchInv /\ [Next]_vars
        => MatchInv' /\ [Promise!Next]_(Promise!vars)
  BY StepKeeps DEF PromiseInv, Kept
<1> QED
  BY <1>1, <1>2, TypeInvariance, LedgerInvariance, PTL DEF Spec, PaysAsPromised, Promise!Spec

-----------------------------------------------------------------------------
(* Sums: SumFunction of the community modules, without its recursion.      *)

Pick(s) == CHOOSE x \in s : TRUE

(* g adds the values of f on every subset of T, one element at a time.     *)
Adds(f, T, g) ==
  g = [s \in SUBSET T |-> IF s = {} THEN 0 ELSE f[Pick(s)] + g[s \ {Pick(s)}]]
Adder(f, T) == CHOOSE g : Adds(f, T, g)
Sum(f, s) == Adder(f, s)[s]

(* What SumFunction says.                                                  *)
LEMMA SumOfFunction ==
  ASSUME NEW f
  PROVE  SumFunction(f) = Sum(f, DOMAIN f)
BY DEF SumFunction, SumFunctionOnSet, FoldFunctionOnSet, MapThenFoldSet, Sum, Adder, Adds, Pick

(* A set with an element has the one that is picked.                       *)
LEMMA Picked ==
  ASSUME NEW s, s # {}
  PROVE  Pick(s) \in s
BY DEF Pick

(* Among subsets of a finite set, some are smallest.                       *)
LEMMA Smallest ==
  ASSUME NEW D, IsFiniteSet(D), NEW B \in SUBSET (SUBSET D), B # {}
  PROVE  \E s \in B : \A t \in SUBSET s : t # s => t \notin B
<1>1. B \subseteq FiniteSubsetsOf(D) /\ IsFiniteSet(D)
  BY FS_FiniteSubsetsOfFinite
<1>2. PICK s \in B : \A t \in B : <<t, s>> \notin StrictSubsetOrdering(D)
  BY <1>1, FS_StrictSubsetOrderingWellFounded, WFMin
<1>3. \A t \in SUBSET s : t # s => t \notin B
  BY <1>2 DEF StrictSubsetOrdering
<1> QED
  BY <1>3

(* Two ways of adding up agree.                                            *)
LEMMA AddsOnce ==
  ASSUME NEW f, NEW T, IsFiniteSet(T), NEW U \in SUBSET T,
         NEW g, Adds(f, T, g), NEW h, Adds(f, U, h)
  PROVE  g[U] = h[U]
<1> DEFINE B == {s \in SUBSET U : g[s] # h[s]}
<1> SUFFICES ASSUME B # {} PROVE FALSE
  OBVIOUS
<1>1. PICK s \in B : \A t \in SUBSET s : t # s => t \notin B
  <2>1. IsFiniteSet(U)
    BY FS_Subset
  <2> HIDE DEF B
  <2>2. B \in SUBSET (SUBSET U)
    BY DEF B
  <2> QED
    BY <2>1, <2>2, Smallest
<1>2. s \in SUBSET U /\ s \in SUBSET T /\ g[s] # h[s]
  BY <1>1
<1>3. /\ g[s] = IF s = {} THEN 0 ELSE f[Pick(s)] + g[s \ {Pick(s)}]
      /\ h[s] = IF s = {} THEN 0 ELSE f[Pick(s)] + h[s \ {Pick(s)}]
  BY <1>2 DEF Adds
<1>4. s # {}
  BY <1>2, <1>3
<1>5. g[s \ {Pick(s)}] = h[s \ {Pick(s)}]
  BY <1>1, <1>2, <1>4, Picked
<1> QED
  BY <1>2, <1>3, <1>4, <1>5

(* There is a way of adding up.                                            *)
LEMMA AddsExists ==
  ASSUME NEW f, NEW D, IsFiniteSet(D)
  PROVE  Adds(f, D, Adder(f, D))
<1> DEFINE B == {T \in SUBSET D : ~Adds(f, T, Adder(f, T))}
<1> SUFFICES ASSUME B # {} PROVE FALSE
  OBVIOUS
<1>1. PICK T \in B : \A t \in SUBSET T : t # T => t \notin B
  <2> HIDE DEF B
  <2>1. B \in SUBSET (SUBSET D)
    BY DEF B
  <2> QED
    BY <2>1, Smallest
<1>2. T \in SUBSET D /\ ~Adds(f, T, Adder(f, T))
  BY <1>1
<1>3. \A t \in SUBSET T : t # T => Adds(f, t, Adder(f, t))
  BY <1>1, <1>2
<1> HIDE DEF B
<1> DEFINE g == [s \in SUBSET T |->
                   IF s = {} THEN 0 ELSE f[Pick(s)] + Adder(f, s \ {Pick(s)})[s \ {Pick(s)}]]
<1>4. ASSUME NEW s \in SUBSET T, s # T PROVE g[s] = Adder(f, s)[s]
  <2>1. Adds(f, s, Adder(f, s))
    BY <1>3, <1>4
  <2>2. Adder(f, s)[s] = IF s = {} THEN 0 ELSE f[Pick(s)] + Adder(f, s)[s \ {Pick(s)}]
    BY <2>1 DEF Adds
  <2>3. CASE s = {}
    BY <2>2, <2>3
  <2>4. CASE s # {}
    <3> DEFINE t == s \ {Pick(s)}
    <3>1. t \in SUBSET s /\ t \in SUBSET T /\ t # T
      BY <1>4
    <3>2. Adds(f, t, Adder(f, t)) /\ IsFiniteSet(s)
      BY <1>2, <1>3, <3>1, FS_Subset
    <3>3. Adder(f, s)[t] = Adder(f, t)[t]
      <4> HIDE DEF t
      <4> QED
        BY <2>1, <3>1, <3>2, AddsOnce
    <3> QED
      BY <2>2, <2>4, <3>3
  <2> QED
    BY <2>3, <2>4
<1>5. Adds(f, T, g)
  <2>1. ASSUME NEW s \in SUBSET T, s # {}
        PROVE  Adder(f, s \ {Pick(s)})[s \ {Pick(s)}] = g[s \ {Pick(s)}]
    BY <1>4, <2>1, Picked
  <2>2. g = [s \in SUBSET T |-> IF s = {} THEN 0 ELSE f[Pick(s)] + g[s \ {Pick(s)}]]
    BY <2>1
  <2> QED
    BY <2>2 DEF Adds
<1> HIDE DEF g
<1> QED
  BY <1>2, <1>5 DEF Adder

(* A sum is the value of the element picked and the sum of the rest.       *)
LEMMA SumPicked ==
  ASSUME NEW f, NEW s, IsFiniteSet(s)
  PROVE  Sum(f, s) = IF s = {} THEN 0 ELSE f[Pick(s)] + Sum(f, s \ {Pick(s)})
<1>1. PICK t : t = s \ {Pick(s)}
  OBVIOUS
<1>2. IsFiniteSet(t) /\ t \in SUBSET s
  BY <1>1, FS_RemoveElement
<1>3. Adds(f, s, Adder(f, s)) /\ Adds(f, t, Adder(f, t))
  BY <1>2, AddsExists
<1>4. ASSUME NEW g, Adds(f, s, g), NEW h, Adds(f, t, h)
      PROVE  g[t] = h[t]
  BY <1>2, <1>4, AddsOnce
<1>5. Adder(f, s)[t] = Adder(f, t)[t]
  BY <1>3, <1>4
<1>6. Adder(f, s)[s] = IF s = {} THEN 0 ELSE f[Pick(s)] + Adder(f, s)[t]
  BY <1>1, <1>3 DEF Adds
<1> QED
  BY <1>1, <1>5, <1>6 DEF Sum

(* The sum of integers is one.                                             *)
LEMMA SumInt ==
  ASSUME NEW f, NEW D, IsFiniteSet(D), \A x \in D : f[x] \in Int
  PROVE  Sum(f, D) \in Int
<1> DEFINE B == {s \in SUBSET D : Sum(f, s) \notin Int}
<1> SUFFICES ASSUME B # {} PROVE FALSE
  OBVIOUS
<1>1. PICK s \in B : \A t \in SUBSET s : t # s => t \notin B
  <2> HIDE DEF B
  <2>1. B \in SUBSET (SUBSET D)
    BY DEF B
  <2> QED
    BY <2>1, Smallest
<1>2. s \in SUBSET D /\ Sum(f, s) \notin Int /\ IsFiniteSet(s)
  BY <1>1, FS_Subset
<1>3. s # {} /\ Sum(f, s) = f[Pick(s)] + Sum(f, s \ {Pick(s)})
  <2>1. Sum(f, s) = IF s = {} THEN 0 ELSE f[Pick(s)] + Sum(f, s \ {Pick(s)})
    BY <1>2, SumPicked
  <2> QED
    BY <1>2, <2>1
<1>4. Pick(s) \in s /\ Pick(s) \in D
  BY <1>2, <1>3, Picked
<1>5. Sum(f, s \ {Pick(s)}) \in Int
  BY <1>1, <1>2, <1>4
<1> QED
  BY <1>2, <1>3, <1>4, <1>5

(* Any element may be added last.                                          *)
LEMMA SumTake ==
  ASSUME NEW f, NEW D, IsFiniteSet(D), \A x \in D : f[x] \in Int, NEW x \in D
  PROVE  Sum(f, D) = f[x] + Sum(f, D \ {x})
<1> DEFINE B == {s \in SUBSET D : \E y \in s : Sum(f, s) # f[y] + Sum(f, s \ {y})}
<1> SUFFICES ASSUME B # {} PROVE FALSE
  OBVIOUS
<1>1. PICK s \in B : \A t \in SUBSET s : t # s => t \notin B
  <2> HIDE DEF B
  <2>1. B \in SUBSET (SUBSET D)
    BY DEF B
  <2> QED
    BY <2>1, Smallest
<1>2. s \in SUBSET D
  BY <1>1
<1>3. PICK y \in s : Sum(f, s) # f[y] + Sum(f, s \ {y})
  BY <1>1
<1>4. \A t \in SUBSET s : t # s => \A z \in t : Sum(f, t) = f[z] + Sum(f, t \ {z})
  BY <1>1, <1>2
<1> HIDE DEF B
<1> DEFINE p == Pick(s)
<1>5. p \in s /\ IsFiniteSet(s)
  BY <1>2, <1>3, Picked, FS_Subset
<1> HIDE DEF p
<1>6. Sum(f, s) = f[p] + Sum(f, s \ {p}) /\ p # y
  BY <1>3, <1>5, SumPicked DEF p
<1>7. Sum(f, s \ {p}) = f[y] + Sum(f, (s \ {p}) \ {y})
  BY <1>3, <1>4, <1>5, <1>6
<1>8. Sum(f, s \ {y}) = f[p] + Sum(f, (s \ {y}) \ {p})
  BY <1>3, <1>4, <1>5, <1>6
<1>9. (s \ {p}) \ {y} = (s \ {y}) \ {p}
  OBVIOUS
<1>10. Sum(f, (s \ {p}) \ {y}) \in Int /\ f[p] \in Int /\ f[y] \in Int
  <2>1. IsFiniteSet((s \ {p}) \ {y}) /\ \A z \in (s \ {p}) \ {y} : f[z] \in Int
    BY <1>2, <1>5, FS_RemoveElement
  <2> QED
    BY <1>2, <1>5, <2>1, SumInt
<1> DEFINE rest == Sum(f, (s \ {p}) \ {y})
<1>11. Sum(f, s) = f[p] + (f[y] + rest) /\ Sum(f, s \ {y}) = f[p] + rest
  BY <1>6, <1>7, <1>8, <1>9
<1>12. rest \in Int
  BY <1>10
<1> HIDE DEF rest
<1> QED
  BY <1>3, <1>10, <1>11, <1>12

(* Functions that agree on a set have the same sum there.                  *)
LEMMA SumSame ==
  ASSUME NEW f, NEW g, NEW D, IsFiniteSet(D), \A x \in D : f[x] = g[x]
  PROVE  Sum(f, D) = Sum(g, D)
<1> DEFINE B == {s \in SUBSET D : Sum(f, s) # Sum(g, s)}
<1> SUFFICES ASSUME B # {} PROVE FALSE
  OBVIOUS
<1>1. PICK s \in B : \A t \in SUBSET s : t # s => t \notin B
  <2> HIDE DEF B
  <2>1. B \in SUBSET (SUBSET D)
    BY DEF B
  <2> QED
    BY <2>1, Smallest
<1>2. s \in SUBSET D /\ Sum(f, s) # Sum(g, s) /\ IsFiniteSet(s)
  BY <1>1, FS_Subset
<1>3. /\ Sum(f, s) = IF s = {} THEN 0 ELSE f[Pick(s)] + Sum(f, s \ {Pick(s)})
      /\ Sum(g, s) = IF s = {} THEN 0 ELSE g[Pick(s)] + Sum(g, s \ {Pick(s)})
  BY <1>2, SumPicked
<1>4. s # {}
  BY <1>2, <1>3
<1>5. Pick(s) \in D /\ Sum(f, s \ {Pick(s)}) = Sum(g, s \ {Pick(s)})
  BY <1>1, <1>2, <1>4, Picked
<1> QED
  BY <1>2, <1>3, <1>4, <1>5

(* A change of one value changes the sum by as much.                       *)
LEMMA SumChange ==
  ASSUME NEW f, NEW g, NEW D, IsFiniteSet(D), \A x \in D : f[x] \in Int /\ g[x] \in Int,
         NEW x \in D, \A y \in D : y # x => g[y] = f[y]
  PROVE  Sum(g, D) = Sum(f, D) + (g[x] - f[x]) /\ Sum(f, D) \in Int /\ Sum(g, D) \in Int
<1>1. IsFiniteSet(D \ {x}) /\ \A y \in D \ {x} : f[y] \in Int
  BY FS_RemoveElement
<1>2. Sum(f, D \ {x}) = Sum(g, D \ {x}) /\ Sum(f, D \ {x}) \in Int
  BY <1>1, SumSame, SumInt
<1>3. Sum(f, D) = f[x] + Sum(f, D \ {x})
  BY SumTake
<1>4. Sum(g, D) = g[x] + Sum(g, D \ {x})
  BY SumTake
<1>5. f[x] \in Int /\ g[x] \in Int
  OBVIOUS
<1> QED
  BY <1>2, <1>3, <1>4, <1>5

(* Zeroes add up to zero.                                                  *)
LEMMA SumZero ==
  ASSUME NEW f, NEW D, IsFiniteSet(D), \A x \in D : f[x] = 0
  PROVE  Sum(f, D) = 0
<1> DEFINE B == {s \in SUBSET D : Sum(f, s) # 0}
<1> SUFFICES ASSUME B # {} PROVE FALSE
  OBVIOUS
<1>1. PICK s \in B : \A t \in SUBSET s : t # s => t \notin B
  <2> HIDE DEF B
  <2>1. B \in SUBSET (SUBSET D)
    BY DEF B
  <2> QED
    BY <2>1, Smallest
<1>2. s \in SUBSET D /\ Sum(f, s) # 0 /\ IsFiniteSet(s)
  BY <1>1, FS_Subset
<1>3. s # {} /\ Sum(f, s) = f[Pick(s)] + Sum(f, s \ {Pick(s)})
  BY <1>2, SumPicked
<1>4. f[Pick(s)] = 0 /\ Sum(f, s \ {Pick(s)}) = 0
  BY <1>1, <1>2, <1>3, Picked
<1> QED
  BY <1>2, <1>3, <1>4

-----------------------------------------------------------------------------
(* What a transaction does to coins and wins.                              *)

books == <<wins, wallet, escrow, house, mint, recharged, history>>

Recharging(a, amount, k) ==
  /\ recharged[a][k] = 0
  /\ recharged' = [recharged EXCEPT ![a][k] = amount]
  /\ wallet' = [wallet EXCEPT ![a] = @ + amount]
  /\ mint' = mint - amount
  /\ UNCHANGED <<wins, escrow, house, history>>

Funding(c, n, host, guest) ==
  /\ host # guest
  /\ StakeBoth(c, n, {host, guest})
  /\ UNCHANGED <<wins, house, mint, recharged, history>>

Settling(c, n, r) ==
  /\ r.round = n /\ r.result \in Result
  /\ seats[c]["host"] \in Accounts /\ seats[c]["guest"] \in Accounts
  /\ seats[c]["host"] # seats[c]["guest"]
  /\ Filed(c, n) = {} /\ escrow[c][n] = 2 * RoundStake
  /\ escrow' = [escrow EXCEPT ![c][n] = @ - 2 * RoundStake]
  /\ wallet' = [a \in Accounts |->
       CASE Seated(c, a, "host") -> wallet[a] + Payout(r.result, "host")
         [] Seated(c, a, "guest") -> wallet[a] + Payout(r.result, "guest")
         [] OTHER -> wallet[a]]
  /\ house' = house + HouseEarnings(r.result)
  /\ history' = history \cup {HistoryRow(c, r)}
  /\ UNCHANGED <<mint, recharged>>
  /\ wins' = [wins EXCEPT ![c] = r.wins]
  /\ \A p \in Role : r.wins[p] = IF r.result = WinFor(p) THEN wins[c][p] + 1 ELSE wins[c][p]

Moves ==
  \/ UNCHANGED books
  \/ \E a \in Accounts, amount \in RechargeAmounts, k \in Keys : Recharging(a, amount, k)
  \/ \E c \in Codes, n \in Rounds, host \in Accounts, guest \in Accounts :
       Funding(c, n, host, guest)
  \/ \E c \in Codes, n \in Rounds, r \in RoomType : Settling(c, n, r)

(* fundRound stakes the round for two players or moves nothing.            *)
LEMMA FundMoves ==
  ASSUME NEW c \in Codes, NEW n \in Rounds, NEW host \in Accounts, NEW guest \in Accounts,
         host # guest, FundRound(c, n, {host, guest}),
         UNCHANGED <<wins, house, mint, recharged, history>>
  PROVE  Moves
<1>1. CASE rounds[c][n].funded \/ <<c, n>> \in staked
  BY <1>1 DEF FundRound, Moves, books
<1>2. CASE ~(rounds[c][n].funded \/ <<c, n>> \in staked)
  <2>1. Funding(c, n, host, guest)
    BY <1>2 DEF FundRound, Funding
  <2> QED
    BY <2>1 DEF Moves
<1> QED
  BY <1>1, <1>2

(* Saving a room whose wins did not change leaves every seat its wins.     *)
LEMMA SameWins ==
  ASSUME TypeInv, NEW c \in Codes, NEW r, SaveRoom(c, r), r.wins = wins[c]
  PROVE  wins' = wins
BY DEF SaveRoom, TypeInv, TypeOK, GameTypeOK

(* The guest's arrival funds the first round.                              *)
LEMMA JoinMoves ==
  ASSUME PromiseInv, NEW a \in Accounts, NEW c \in Codes, NEW k, JoinCommand(a, c, k)
  PROVE  Moves
<1> DEFINE host == seats[c]["host"]
<1> USE DEF PromiseInv
<1>1. Round(c) # 0 /\ Round(c) \in Rounds
  BY LoadRoom DEF JoinCommand, TypeInv, TypeOK, Started
<1>2. host \in Accounts /\ host # a
  BY DEF LedgerInv, RoomLedger, Hosted, JoinCommand, Seated, Role, TypeInv, TypeOK, GameTypeOK
<1>3. wins' = wins
  <2>1. Load(c) \in RoomType /\ Join(Load(c)).wins = wins[c]
    BY <1>1, LoadRoom DEF TypeInv, TypeOK, Join, Load
  <2> QED
    BY <2>1, SameWins DEF JoinCommand, Save
<1>4. FundRound(c, Round(c), {host, a}) /\ UNCHANGED <<house, mint, recharged, history>>
  BY DEF JoinCommand
<1> HIDE DEF host
<1> QED
  BY <1>1, <1>2, <1>3, <1>4, FundMoves

(* The next round is funded by the two who sit in the room.                *)
LEMMA AdvanceMoves ==
  ASSUME PromiseInv, NEW c \in Codes, ReconcileAdvance(c)
  PROVE  Moves
<1> DEFINE host == seats[c]["host"]
           guest == seats[c]["guest"]
<1> USE DEF PromiseInv
<1>1. Round(c) # 0 /\ Round(c) \in Rounds
  BY LoadRoom DEF ReconcileAdvance, ClaimAdvance, TypeInv, TypeOK, Started
<1>2. Round(c) + 1 \in Rounds
  BY <1>1, BoundsAssumption DEF ReconcileAdvance, Rounds
<1>3. Full(c)
  BY DEF ReconcileAdvance, CanAdvance, Load, Full
<1>4. host \in Accounts /\ guest \in Accounts /\ host # guest
  BY <1>3 DEF Full, Role, MatchInv, Matched, TypeInv, TypeOK, GameTypeOK
<1>5. wins' = wins
  <2>1. Load(c) \in RoomType /\ Advance(Load(c)).wins = wins[c]
    BY <1>1, LoadRoom DEF TypeInv, TypeOK, Advance, Load
  <2> QED
    BY <2>1, SameWins DEF ReconcileAdvance
<1>6. {seats[c][p] : p \in Role} = {host, guest}
  BY DEF Role
<1>7. FundRound(c, Round(c) + 1, {host, guest}) /\ UNCHANGED <<house, mint, recharged, history>>
  BY <1>6 DEF ReconcileAdvance
<1> HIDE DEF host, guest
<1> QED
  BY <1>2, <1>4, <1>5, <1>7, FundMoves

(* Ending a funded round pays it and counts the win.                       *)
LEMMA EndingMoves ==
  ASSUME PromiseInv, NEW c \in Codes, Round(c) # 0, NEW r, Ends(Load(c), r),
         rooms[c].status = "active", Row(c).funded, Row(c).result = NoResult,
         Save(c, r, TRUE), SettleRound(c, r)
  PROVE  Moves
<1> USE DEF PromiseInv
<1>1. /\ Round(c) \in Rounds /\ r \in RoomType /\ r.round = Round(c) /\ r.result \in Result
  BY LoadRoom DEF Ends, Load, TypeInv, TypeOK
<1> PICK n \in Rounds : n = Round(c)
  BY <1>1
<1>2. Booked(c, n) /\ Matched(c)
  BY DEF LedgerInv, RoomLedger, MatchInv
<1>3. /\ Filed(c, n) = {} /\ <<c, n>> \notin settled /\ ~HasHistory(c, n)
  BY <1>2 DEF Booked, Open, Finished, Row, Filed, HasHistory
<1>4. /\ Full(c) /\ escrow[c][n] = 2 * RoundStake
      /\ escrow' = [escrow EXCEPT ![c][n] = @ - 2 * RoundStake]
      /\ wallet' = [a \in Accounts |->
            CASE Seated(c, a, "host") -> wallet[a] + Payout(r.result, "host")
              [] Seated(c, a, "guest") -> wallet[a] + Payout(r.result, "guest")
              [] OTHER -> wallet[a]]
      /\ house' = house + HouseEarnings(r.result)
      /\ history' = history \cup {HistoryRow(c, r)}
      /\ UNCHANGED <<mint, recharged>>
  BY <1>1, <1>3 DEF SettleRound
<1>5. /\ seats[c]["host"] \in Accounts /\ seats[c]["guest"] \in Accounts
      /\ seats[c]["host"] # seats[c]["guest"]
  BY <1>2, <1>4 DEF Full, Role, Matched, TypeInv, TypeOK, GameTypeOK
<1>6. wins' = [wins EXCEPT ![c] = r.wins]
  BY DEF Save, SaveRoom
<1>7. \A p \in Role : r.wins[p] = IF r.result = WinFor(p) THEN wins[c][p] + 1 ELSE wins[c][p]
  BY DEF Ends, Load
<1>8. Settling(c, n, r)
  BY <1>1, <1>3, <1>4, <1>5, <1>6, <1>7 DEF Settling
<1> QED
  BY <1>1, <1>8 DEF Moves

(* What a player asks for recharges, stakes, or moves nothing.             *)
LEMMA CommandMoves ==
  ASSUME PromiseInv, Command
  PROVE  Moves
<1> USE DEF PromiseInv
<1>1. ASSUME NEW a \in Accounts, NEW k \in Keys, NEW amount \in RechargeAmounts,
             RechargeCommand(a, amount, k)
      PROVE  Moves
  <2>1. Recharging(a, amount, k)
    BY <1>1 DEF RechargeCommand, NewRecharge, Recharging, game
  <2> QED
    BY <2>1 DEF Moves
<1>2. ASSUME NEW a \in Accounts, NEW k \in Keys, NEW c \in Codes,
             \/ CreateCommand(a, c, k) \/ RequestNextRoundCommand(a, c, k)
             \/ \E throw \in Throws : SubmitMoveCommand(a, c, throw, k)
      PROVE  Moves
  BY <1>2
  DEF CreateCommand, RequestNextRoundCommand, SubmitMoveCommand, RecordRoomAction, Moves, books,
      money
<1>3. ASSUME NEW a \in Accounts, NEW k \in Keys, NEW c \in Codes, LeaveCommand(a, c, k)
      PROVE  Moves
  <2>1. Load(c) \in RoomType /\ Leave(Load(c)).wins = wins[c]
    BY <1>3, LoadRoom DEF LeaveCommand, Leave, Load, TypeInv, TypeOK, Started
  <2>2. wins' = wins
    BY <1>3, <2>1, SameWins DEF LeaveCommand, Save
  <2> QED
    BY <1>3, <2>2 DEF LeaveCommand, Moves, books, money
<1> QED
  BY <1>1, <1>2, <1>3, JoinMoves DEF Command

(* The reconciler settles a round or funds the next one.                   *)
LEMMA ReconcileMoves ==
  ASSUME PromiseInv, NEW c \in Codes, Reconcile(c)
  PROVE  Moves
<1> USE DEF PromiseInv
<1>1. CASE ReconcileResolve(c)
  <2>1. Round(c) # 0 /\ Row(c).funded /\ rooms[c].status = "active"
    BY <1>1 DEF ReconcileResolve, ClaimResolve, TypeInv, Started
  <2>2. Ends(Load(c), ResolveCommittedMoves(Load(c)))
    BY <2>1, LoadRoom, Endings DEF TypeInv, TypeOK
  <2>3. Row(c).result = NoResult
    BY <1>1 DEF ReconcileResolve, CanResolveCommittedMoves, CanResolve, Resolved, Load
  <2> QED
    BY <1>1, <2>1, <2>2, <2>3, EndingMoves DEF ReconcileResolve
<1> QED
  BY <1>1, AdvanceMoves DEF Reconcile

(* A deadline settles a round or moves nothing.                            *)
LEMMA ProcessNextDeadlineMoves ==
  ASSUME PromiseInv, ProcessNextDeadline
  PROVE  Moves
<1> USE DEF PromiseInv
<1>1. ASSUME NEW d \in deadlines, NEW r, Round(d.room) # 0 => Ends(Load(d.room), r),
             CanResolve(Load(d.room), Round(d.room)), SettleDeadline(d, r)
      PROVE  Moves
  <2>1. d.room \in Codes
    BY <1>1 DEF TypeInv, TypeOK, LinkTypeOK, DeadlineType
  <2>2. rooms[d.room].status = "active" /\ Row(d.room).funded
    BY <1>1 DEF SettleDeadline, ClaimRoom, DueIn, ClaimDeadline, ActiveRound
  <2>3. Round(d.room) # 0
    BY <2>1, <2>2 DEF TypeInv, Started
  <2>4. Row(d.room).result = NoResult
    BY <1>1 DEF CanResolve, Resolved, Load
  <2> QED
    BY <1>1, <2>1, <2>2, <2>3, <2>4, EndingMoves DEF SettleDeadline
<1>2. ASSUME NEW d \in deadlines, Round(d.room) # 0
      PROVE  Load(d.room) \in RoomType
  BY <1>2, LoadRoom DEF TypeInv, TypeOK, LinkTypeOK, DeadlineType
<1>3. ASSUME NEW d \in deadlines, ForfeitAbsent(d) PROVE Moves
  <2>1. d.role \in Role
    BY <1>3 DEF ForfeitAbsent, TypeInv, TypeOK, LinkTypeOK, DeadlineType
  <2>2. Round(d.room) # 0 => Ends(Load(d.room), Forfeit(Load(d.room), d.role))
    BY <1>2, <2>1, Endings
  <2> QED
    BY <1>1, <1>3, <2>2 DEF ForfeitAbsent, CanForfeit
<1>4. ASSUME NEW d \in deadlines, DrawAbsent(d) PROVE Moves
  BY <1>1, <1>2, <1>4, Endings DEF DrawAbsent, CanResolveDeadlineDraw
<1>5. ASSUME NEW d \in deadlines, ResolveIdle(d) PROVE Moves
  BY <1>1, <1>2, <1>5, Endings DEF ResolveIdle, CanResolveInactivity
<1>6. ASSUME UNCHANGED <<game, money>> PROVE Moves
  BY <1>6 DEF game, money, Moves, books
<1> QED
  BY <1>3, <1>4, <1>5, <1>6
  DEF ProcessNextDeadline, CancelInapplicable, CancelUnclaimed, CancelDeadline

(* Every transaction, of whichever kind.                                   *)
LEMMA StepMoves ==
  ASSUME PromiseInv, [Next]_vars
  PROVE  Moves
<1>1. ASSUME UNCHANGED <<wins, money>> PROVE Moves
  BY <1>1 DEF money, Moves, books
<1>2. ASSUME (\E k \in receipts : CleanupCommandReceipts(k)) \/ Tick \/ UNCHANGED vars PROVE Moves
  BY <1>1, <1>2 DEF CleanupCommandReceipts, Tick, vars, game
<1>3. ASSUME Connect PROVE Moves
  <2>1. ASSUME NEW k \in conns, NEW at, Disappear(k, at) PROVE UNCHANGED <<wins, money>>
    BY <2>1 DEF Disappear
  <2>2. ASSUME NEW a \in Accounts, NEW c \in Codes, NEW id \in Conns, OpenConnection(a, c, id)
        PROVE  UNCHANGED <<wins, money>>
    BY <2>2 DEF OpenConnection
  <2>3. ASSUME NEW k \in conns, RenewConnection(k) \/ DeleteSession(k)
        PROVE  UNCHANGED <<wins, money>>
    BY <2>3 DEF RenewConnection, DeleteSession, game
  <2>4. ASSUME NEW k \in conns, CloseConnection(k) \/ ReapExpiredConnection(k)
        PROVE  UNCHANGED <<wins, money>>
    BY <2>1, <2>4 DEF CloseConnection, ReapExpiredConnection
  <2> QED
    BY <1>1, <1>3, <2>2, <2>3, <2>4 DEF Connect
<1> QED
  BY <1>2, <1>3, CommandMoves, ReconcileMoves, ProcessNextDeadlineMoves DEF Next

-----------------------------------------------------------------------------
(* The wins on the seats are counted in the history.                       *)

Won(c, p) == {h \in history : h.room = c /\ h.result = WinFor(p)}
WinsInv == IsFiniteSet(history) /\ \A c \in Codes, p \in Role : wins[c][p] = Cardinality(Won(c, p))

(* The row of a settlement is a new one.                                   *)
LEMMA NewRow ==
  ASSUME NEW c \in Codes, NEW n \in Rounds, NEW r \in RoomType, Settling(c, n, r)
  PROVE  HistoryRow(c, r) \notin history
BY DEF Settling, Filed, HistoryRow

(* A settlement counts its winner.                                         *)
LEMMA SettlingWins ==
  ASSUME PromiseInv, WinsInv, NEW c \in Codes, NEW n \in Rounds, NEW r \in RoomType,
         Settling(c, n, r)
  PROVE  WinsInv'
<1> DEFINE row == HistoryRow(c, r)
<1>1. /\ history' = history \cup {row} /\ row \notin history
      /\ row.room = c /\ row.result = r.result
  BY NewRow DEF Settling, HistoryRow
<1> HIDE DEF row
<1>2. IsFiniteSet(history')
  BY <1>1, FS_AddElement DEF WinsInv
<1>3. ASSUME NEW d \in Codes, NEW p \in Role PROVE wins'[d][p] = Cardinality(Won(d, p)')
  <2>1. IsFiniteSet(Won(d, p)) /\ row \notin Won(d, p)
    <3>1. Won(d, p) \subseteq history
      BY DEF Won
    <3> QED
      BY <1>1, <3>1, FS_Subset DEF WinsInv
  <2>2. wins[d][p] = Cardinality(Won(d, p))
    BY DEF WinsInv
  <2>3. CASE d = c /\ r.result = WinFor(p)
    <3>1. Won(d, p)' = Won(d, p) \cup {row}
      BY <1>1, <2>3 DEF Won
    <3>2. wins'[d][p] = wins[d][p] + 1
      BY <2>3 DEF Settling, PromiseInv, TypeInv, TypeOK, GameTypeOK
    <3> QED
      BY <2>1, <2>2, <3>1, <3>2, FS_AddElement
  <2>4. CASE ~(d = c /\ r.result = WinFor(p))
    <3>1. Won(d, p)' = Won(d, p)
      BY <1>1, <2>4 DEF Won
    <3>2. wins'[d][p] = wins[d][p]
      BY <2>4 DEF Settling, PromiseInv, TypeInv, TypeOK, GameTypeOK
    <3> QED
      BY <2>2, <3>1, <3>2
  <2> QED
    BY <2>3, <2>4
<1> QED
  BY <1>2, <1>3 DEF WinsInv

(* Nothing else changes a win or files a row.                              *)
LEMMA WinsStep ==
  ASSUME PromiseInv, WinsInv, Moves
  PROVE  WinsInv'
<1>1. ASSUME UNCHANGED <<wins, history>> PROVE WinsInv'
  BY <1>1 DEF WinsInv, Won
<1> QED
  BY <1>1, SettlingWins DEF Moves, books, Recharging, Funding

(* The empty database has no wins.                                         *)
LEMMA WinsInit ==
  ASSUME Init
  PROVE  WinsInv
<1>1. ASSUME NEW c \in Codes, NEW p \in Role PROVE Won(c, p) = {} /\ wins[c][p] = 0
  BY DEF Init, Won
<1> QED
  BY <1>1, FS_EmptySet DEF Init, WinsInv

(* The wins invariant holds in every state.                                *)
LEMMA WinsInvariance == Spec => []WinsInv
<1>1. TypeInv /\ LedgerInv /\ MatchInv /\ WinsInv /\ [Next]_vars => WinsInv' /\ MatchInv'
  BY StepMoves, WinsStep, StepKeeps DEF PromiseInv, Kept
<1>2. Init => WinsInv /\ MatchInv
  BY WinsInit, MatchInit
<1> QED
  BY <1>1, <1>2, TypeInvariance, LedgerInvariance, PTL DEF Spec

(* The wins save writes on a seat are the wins settleRound filed in the    *)
(* history, for any number of rooms and rounds.                            *)
THEOREM WinsCounted == Spec => []WinsMatchHistory
<1>1. WinsInv => WinsMatchHistory
  BY DEF WinsInv, WinsMatchHistory, Won
<1> QED
  BY <1>1, WinsInvariance, PTL

-----------------------------------------------------------------------------
(* The ledger balances.                                                    *)

Balance ==
  /\ mint = -Sum(Issued, Accounts \X Keys)
  /\ Sum(wallet, Accounts) + Sum(Stakes, Codes \X Rounds) + house = Sum(Issued, Accounts \X Keys)
  /\ house = Sum(Earned, history)

CoinInv == PromiseInv /\ WinsInv /\ Balance

(* The tables that are added up are finite and hold integers.              *)
LEMMA Tables ==
  ASSUME TypeInv
  PROVE  /\ IsFiniteSet(Accounts) /\ \A a \in Accounts : wallet[a] \in Int
         /\ IsFiniteSet(Accounts \X Keys) /\ \A x \in Accounts \X Keys : Issued[x] \in Int
         /\ IsFiniteSet(Codes \X Rounds) /\ \A x \in Codes \X Rounds : Stakes[x] \in Int
         /\ \A h \in history : Earned[h] \in Int
<1>1. IsFiniteSet(Accounts) /\ IsFiniteSet(Keys) /\ IsFiniteSet(Codes)
  BY FiniteAssumption
<1>2. IsFiniteSet(Rounds)
  BY BoundsAssumption, FS_Interval DEF Rounds
<1>3. IsFiniteSet(Accounts \X Keys) /\ IsFiniteSet(Codes \X Rounds)
  BY <1>1, <1>2, FS_Product
<1>4. \A a \in Accounts : wallet[a] \in Int
  BY DEF TypeInv, TypeOK, MoneyTypeOK
<1>5. \A x \in Accounts \X Keys : Issued[x] \in Int
  BY DEF Issued, TypeInv, TypeOK, MoneyTypeOK
<1>6. \A x \in Codes \X Rounds : Stakes[x] \in Int
  BY DEF Stakes, TypeInv, TypeOK, MoneyTypeOK
<1>7. \A h \in history : Earned[h] \in Int
  BY DEF Earned, TypeInv, TypeOK, MoneyTypeOK, HistoryType, HousePayout
<1> QED
  BY <1>1, <1>3, <1>4, <1>5, <1>6, <1>7

(* The sums over the tables are integers.                                  *)
LEMMA TableSums ==
  ASSUME TypeInv, WinsInv
  PROVE  /\ Sum(wallet, Accounts) \in Int /\ Sum(Issued, Accounts \X Keys) \in Int
         /\ Sum(Stakes, Codes \X Rounds) \in Int /\ Sum(Earned, history) \in Int
<1>1. IsFiniteSet(history)
  BY DEF WinsInv
<1>2. Sum(wallet, Accounts) \in Int
  BY Tables, SumInt
<1>3. Sum(Issued, Accounts \X Keys) \in Int
  BY Tables, SumInt
<1>4. Sum(Stakes, Codes \X Rounds) \in Int
  BY Tables, SumInt
<1>5. Sum(Earned, history) \in Int
  BY <1>1, Tables, SumInt
<1> QED
  BY <1>2, <1>3, <1>4, <1>5

(* The balance is about the functions that CoinsConserved adds up.         *)
LEMMA BalanceConserves ==
  ASSUME TypeInv, Balance
  PROVE  CoinsConserved
<1>1. /\ DOMAIN wallet = Accounts /\ DOMAIN Issued = Accounts \X Keys
      /\ DOMAIN Stakes = Codes \X Rounds /\ DOMAIN Earned = history
  BY DEF TypeInv, TypeOK, MoneyTypeOK, Issued, Stakes, Earned
<1>2. /\ SumFunction(wallet) = Sum(wallet, Accounts)
      /\ SumFunction(Issued) = Sum(Issued, Accounts \X Keys)
      /\ SumFunction(Stakes) = Sum(Stakes, Codes \X Rounds)
      /\ SumFunction(Earned) = Sum(Earned, history)
  BY <1>1, SumOfFunction
<1> QED
  BY <1>2 DEF Balance, CoinsConserved

(* Two wallets change and the others stay.                                 *)
LEMMA TwoWallets ==
  ASSUME TypeInv, TypeInv', NEW host \in Accounts, NEW guest \in Accounts, host # guest,
         \A a \in Accounts \ {host, guest} : wallet'[a] = wallet[a]
  PROVE  Sum(wallet, Accounts)' = Sum(wallet, Accounts)
           + (wallet'[host] - wallet[host]) + (wallet'[guest] - wallet[guest])
<1> DEFINE half == [wallet EXCEPT ![host] = wallet'[host]]
<1>1. /\ wallet \in [Accounts -> Nat] /\ wallet' \in [Accounts -> Nat] /\ IsFiniteSet(Accounts)
  BY FiniteAssumption DEF TypeInv, TypeOK, MoneyTypeOK
<1>2. /\ half[host] = wallet'[host] /\ half[guest] = wallet[guest]
      /\ \A a \in Accounts : a # host => half[a] = wallet[a]
      /\ \A a \in Accounts : a # guest => wallet'[a] = half[a]
      /\ \A a \in Accounts : half[a] \in Int
  BY <1>1
<1>3. \A a \in Accounts : wallet[a] \in Int /\ wallet'[a] \in Int
  BY <1>1
<1> HIDE DEF half
<1>4. Sum(half, Accounts) = Sum(wallet, Accounts) + (half[host] - wallet[host])
  BY <1>1, <1>2, <1>3, SumChange
<1>5. Sum(wallet', Accounts) = Sum(half, Accounts) + (wallet'[guest] - half[guest])
  BY <1>1, <1>2, <1>3, SumChange
<1>6. Sum(wallet, Accounts)' = Sum(wallet', Accounts)
  OBVIOUS
<1> QED
  BY <1>2, <1>4, <1>5, <1>6

(* The cells of a table of two columns, in one.                            *)
Cells(f, A, B) == [x \in A \X B |-> f[x[1]][x[2]]]

(* One cell of a table changes, and the sum of the table by as much.       *)
LEMMA OneCell ==
  ASSUME NEW A, NEW B, IsFiniteSet(A \X B),
         NEW f \in [A -> [B -> Int]], NEW g \in [A -> [B -> Int]],
         NEW a \in A, NEW b \in B,
         \A c \in A, d \in B : c # a \/ d # b => g[c][d] = f[c][d]
  PROVE  Sum(Cells(g, A, B), A \X B) = Sum(Cells(f, A, B), A \X B) + (g[a][b] - f[a][b])
<1> DEFINE D == A \X B
           old == Cells(f, A, B)
           new == Cells(g, A, B)
           y == <<a, b>>
<1>1. /\ y \in D /\ old[y] = f[a][b] /\ new[y] = g[a][b]
      /\ \A x \in D : old[x] \in Int /\ new[x] \in Int
  BY DEF Cells
<1>2. ASSUME NEW x \in D, x # y PROVE new[x] = old[x]
  <2>1. x[1] \in A /\ x[2] \in B /\ (x[1] # a \/ x[2] # b)
    BY <1>2
  <2> QED
    BY <2>1 DEF Cells
<1>3. IsFiniteSet(D)
  OBVIOUS
<1> HIDE DEF D, old, new, y
<1>4. Sum(new, D) = Sum(old, D) + (new[y] - old[y])
  BY <1>1, <1>2, <1>3, SumChange
<1>5. Sum(new, D) = Sum(old, D) + (g[a][b] - f[a][b])
  BY <1>1, <1>4
<1> QED
  BY <1>5 DEF D, old, new

(* The escrow of one round changes and the others stay.                    *)
LEMMA OneEscrow ==
  ASSUME TypeInv, TypeInv', NEW c \in Codes, NEW n \in Rounds,
         \A d \in Codes, m \in Rounds : d # c \/ m # n => escrow'[d][m] = escrow[d][m]
  PROVE  Sum(Stakes, Codes \X Rounds)'
           = Sum(Stakes, Codes \X Rounds) + (escrow'[c][n] - escrow[c][n])
<1>1. PICK f \in [Codes -> [Rounds -> Int]] : f = escrow
  BY DEF TypeInv, TypeOK, MoneyTypeOK
<1>2. PICK g \in [Codes -> [Rounds -> Int]] : g = escrow'
  BY DEF TypeInv, TypeOK, MoneyTypeOK
<1>3. IsFiniteSet(Codes \X Rounds)
  BY Tables
<1>4. \A d \in Codes, m \in Rounds : d # c \/ m # n => g[d][m] = f[d][m]
  BY <1>1, <1>2
<1>5. Sum(Cells(g, Codes, Rounds), Codes \X Rounds)
        = Sum(Cells(f, Codes, Rounds), Codes \X Rounds) + (g[c][n] - f[c][n])
  BY <1>3, <1>4, OneCell
<1>6. Stakes = Cells(f, Codes, Rounds) /\ Stakes' = Cells(g, Codes, Rounds)
  BY <1>1, <1>2 DEF Stakes, Cells
<1>7. Sum(Stakes, Codes \X Rounds)' = Sum(Cells(g, Codes, Rounds), Codes \X Rounds)
  BY <1>6
<1> QED
  BY <1>1, <1>2, <1>5, <1>6, <1>7

(* A recharge raises one wallet and what was issued.                       *)
LEMMA RechargingBalance ==
  ASSUME CoinInv, NEW a \in Accounts, NEW amount \in RechargeAmounts, NEW k \in Keys,
         Recharging(a, amount, k)
  PROVE  Balance'
<1> USE DEF CoinInv, PromiseInv
<1>1. /\ wallet \in [Accounts -> Nat] /\ recharged \in [Accounts -> [Keys -> Int]]
      /\ amount \in Int /\ IsFiniteSet(Accounts) /\ IsFiniteSet(Accounts \X Keys)
      /\ mint \in Int /\ house \in Int
  BY Tables, AmountsAssumption DEF TypeInv, TypeOK, MoneyTypeOK
<1>2. Sum(Cells(recharged', Accounts, Keys), Accounts \X Keys)
        = Sum(Cells(recharged, Accounts, Keys), Accounts \X Keys) + (amount - recharged[a][k])
  <2>1. /\ recharged' \in [Accounts -> [Keys -> Int]] /\ recharged'[a][k] = amount
        /\ \A b \in Accounts, l \in Keys : b # a \/ l # k => recharged'[b][l] = recharged[b][l]
    BY <1>1 DEF Recharging
  <2>2. Sum(Cells(recharged', Accounts, Keys), Accounts \X Keys)
          = Sum(Cells(recharged, Accounts, Keys), Accounts \X Keys)
              + (recharged'[a][k] - recharged[a][k])
    BY <1>1, <2>1, OneCell
  <2> QED
    BY <2>1, <2>2
<1>3. Sum(Issued, Accounts \X Keys)' = Sum(Issued, Accounts \X Keys) + amount
  <2>1. Issued = Cells(recharged, Accounts, Keys) /\ Issued' = Cells(recharged', Accounts, Keys)
    BY DEF Issued, Cells
  <2>2. Sum(Issued, Accounts \X Keys)' = Sum(Cells(recharged', Accounts, Keys), Accounts \X Keys)
    BY <2>1
  <2>3. recharged[a][k] = 0
    BY DEF Recharging
  <2> QED
    BY <1>1, <1>2, <2>1, <2>2, <2>3
<1>4. /\ \A b \in Accounts : wallet[b] \in Int /\ wallet'[b] \in Int
      /\ wallet'[a] = wallet[a] + amount /\ \A b \in Accounts : b # a => wallet'[b] = wallet[b]
  BY <1>1 DEF Recharging
<1>5. Sum(wallet', Accounts) = Sum(wallet, Accounts) + (wallet'[a] - wallet[a])
  BY <1>1, <1>4, SumChange
<1>6. Sum(wallet, Accounts)' = Sum(wallet, Accounts) + amount
  BY <1>1, <1>4, <1>5, TableSums
<1>7. /\ Sum(Stakes, Codes \X Rounds)' = Sum(Stakes, Codes \X Rounds)
      /\ Sum(Earned, history)' = Sum(Earned, history)
      /\ mint' = mint - amount /\ house' = house
  BY DEF Recharging, Stakes, Earned
<1> QED
  BY <1>1, <1>3, <1>6, <1>7, TableSums DEF Balance

(* A stake moves 50 coins of each player into escrow.                      *)
LEMMA FundingBalance ==
  ASSUME CoinInv, NEW c \in Codes, NEW n \in Rounds, NEW host \in Accounts, NEW guest \in Accounts,
         Funding(c, n, host, guest), TypeInv'
  PROVE  Balance'
<1> USE DEF CoinInv, PromiseInv
<1>1. /\ wallet \in [Accounts -> Nat] /\ escrow \in [Codes -> [Rounds -> Int]]
      /\ mint \in Int /\ house \in Int
  BY DEF TypeInv, TypeOK, MoneyTypeOK
<1>2. /\ wallet'[host] = wallet[host] - 50 /\ wallet'[guest] = wallet[guest] - 50
      /\ \A a \in Accounts \ {host, guest} : wallet'[a] = wallet[a]
  BY DEF Funding, StakeBoth, RoundStake
<1>3. Sum(wallet, Accounts)' = Sum(wallet, Accounts)
        + (wallet'[host] - wallet[host]) + (wallet'[guest] - wallet[guest])
  BY <1>2, TwoWallets DEF Funding
<1>4. Sum(wallet, Accounts)' = Sum(wallet, Accounts) - 100
  BY <1>1, <1>2, <1>3, TableSums
<1>5. /\ escrow'[c][n] = escrow[c][n] + 100
      /\ \A d \in Codes, m \in Rounds : d # c \/ m # n => escrow'[d][m] = escrow[d][m]
  BY <1>1 DEF Funding, StakeBoth, RoundStake
<1>6. Sum(Stakes, Codes \X Rounds)'
        = Sum(Stakes, Codes \X Rounds) + (escrow'[c][n] - escrow[c][n])
  BY <1>5, OneEscrow
<1>7. Sum(Stakes, Codes \X Rounds)' = Sum(Stakes, Codes \X Rounds) + 100
  BY <1>1, <1>5, <1>6, TableSums
<1>8. /\ Sum(Issued, Accounts \X Keys)' = Sum(Issued, Accounts \X Keys)
      /\ Sum(Earned, history)' = Sum(Earned, history)
      /\ UNCHANGED <<mint, house>>
  BY DEF Funding, Issued, Earned
<1> QED
  BY <1>1, <1>4, <1>7, <1>8, TableSums DEF Balance

(* A result pays out exactly the two stakes.                               *)
LEMMA PotPaidOut ==
  ASSUME NEW result \in Result
  PROVE  /\ Payout(result, "host") \in Nat /\ Payout(result, "guest") \in Nat
         /\ HouseEarnings(result) \in Nat
         /\ Payout(result, "host") + Payout(result, "guest") + HouseEarnings(result) = 100
<1>1. CASE result = "draw"
  BY <1>1 DEF Payout, HouseEarnings, Draw, RoundStake
<1>2. CASE result = "player_one_wins"
  BY <1>2 DEF Payout, HouseEarnings, Draw, WinFor, WinnerPayout, HousePayout
<1>3. CASE result = "player_two_wins"
  BY <1>3 DEF Payout, HouseEarnings, Draw, WinFor, WinnerPayout, HousePayout
<1> QED
  BY <1>1, <1>2, <1>3 DEF Result, Draw

(* A new row of the history adds what the house earned.                    *)
LEMMA EarnedMore ==
  ASSUME TypeInv, WinsInv, TypeInv', WinsInv', NEW row, row \notin history,
         history' = history \cup {row}
  PROVE  Sum(Earned, history)' = Sum(Earned, history) + row.earnings
<1> DEFINE new == [h \in history' |-> h.earnings]
<1>1. IsFiniteSet(history) /\ IsFiniteSet(history')
  BY DEF WinsInv
<1>2. row \in history' /\ history' \ {row} = history
  OBVIOUS
<1>3. \A h \in history' : new[h] \in Int
  BY DEF TypeInv, TypeOK, MoneyTypeOK, HistoryType, HousePayout
<1>4. \A h \in history : new[h] = Earned[h]
  BY DEF Earned
<1>5. new[row] = row.earnings
  BY <1>2
<1>6. Earned' = new
  BY DEF Earned
<1> HIDE DEF new
<1>7. Sum(new, history') = new[row] + Sum(new, history)
  <2>1. Sum(new, history') = new[row] + Sum(new, history' \ {row})
    BY <1>1, <1>2, <1>3, SumTake
  <2> QED
    BY <1>2, <2>1
<1>8. Sum(new, history) = Sum(Earned, history)
  BY <1>1, <1>4, SumSame
<1>9. Sum(Earned, history)' = Sum(new, history')
  BY <1>6
<1>10. row.earnings \in Int
  BY <1>2, <1>3, <1>5
<1>11. Sum(Earned, history) \in Int
  BY TableSums
<1> QED
  BY <1>5, <1>7, <1>8, <1>9, <1>10, <1>11

(* A settlement pays the escrow to the players and the house.              *)
LEMMA SettlingBalance ==
  ASSUME CoinInv, NEW c \in Codes, NEW n \in Rounds, NEW r \in RoomType, Settling(c, n, r),
         TypeInv', WinsInv'
  PROVE  Balance'
<1> DEFINE host == seats[c]["host"]
           guest == seats[c]["guest"]
           one == Payout(r.result, "host")
           two == Payout(r.result, "guest")
           rest == HouseEarnings(r.result)
<1> USE DEF CoinInv, PromiseInv
<1>1. /\ wallet \in [Accounts -> Nat] /\ escrow \in [Codes -> [Rounds -> Int]]
      /\ mint \in Int /\ house \in Int
  BY DEF TypeInv, TypeOK, MoneyTypeOK
<1>2. host \in Accounts /\ guest \in Accounts /\ host # guest /\ r.result \in Result
  BY DEF Settling
<1>3. one \in Nat /\ two \in Nat /\ rest \in Nat /\ one + two + rest = 100
  BY <1>2, PotPaidOut
<1>4. wallet' = [a \in Accounts |-> CASE a = host -> wallet[a] + one
                                     [] a = guest -> wallet[a] + two
                                     [] OTHER -> wallet[a]]
  BY DEF Settling, Seated
<1>5. Sum(Earned, history)' = Sum(Earned, history) + rest
  <2>1. HistoryRow(c, r).earnings = rest
    BY DEF HistoryRow
  <2>2. history' = history \cup {HistoryRow(c, r)}
    BY DEF Settling
  <2> HIDE DEF rest
  <2> QED
    BY <2>1, <2>2, NewRow, EarnedMore
<1>6. house' = house + rest
  BY DEF Settling
<1> HIDE DEF host, guest, one, two, rest
<1>7. /\ wallet'[host] = wallet[host] + one /\ wallet'[guest] = wallet[guest] + two
      /\ \A a \in Accounts \ {host, guest} : wallet'[a] = wallet[a]
  BY <1>2, <1>4
<1>8. Sum(wallet, Accounts)' = Sum(wallet, Accounts)
        + (wallet'[host] - wallet[host]) + (wallet'[guest] - wallet[guest])
  BY <1>2, <1>7, TwoWallets
<1>9. Sum(wallet, Accounts)' = Sum(wallet, Accounts) + one + two
  BY <1>1, <1>2, <1>3, <1>7, <1>8, TableSums
<1>10. /\ escrow[c][n] = 100 /\ escrow'[c][n] = 0
       /\ \A d \in Codes, m \in Rounds : d # c \/ m # n => escrow'[d][m] = escrow[d][m]
  BY <1>1 DEF Settling, RoundStake
<1>11. Sum(Stakes, Codes \X Rounds)'
         = Sum(Stakes, Codes \X Rounds) + (escrow'[c][n] - escrow[c][n])
  BY <1>10, OneEscrow
<1>12. Sum(Stakes, Codes \X Rounds)' = Sum(Stakes, Codes \X Rounds) - 100
  BY <1>10, <1>11, TableSums
<1>13. Sum(Issued, Accounts \X Keys)' = Sum(Issued, Accounts \X Keys) /\ mint' = mint
  BY DEF Settling, Issued
<1> QED
  BY <1>1, <1>3, <1>5, <1>6, <1>9, <1>12, <1>13, TableSums DEF Balance

(* Every transaction keeps the balance.                                    *)
LEMMA BalanceStep ==
  ASSUME CoinInv, Moves, TypeInv', WinsInv'
  PROVE  Balance'
<1>1. CASE UNCHANGED books
  <2>1. UNCHANGED <<wallet, escrow, house, mint, recharged, history>>
    BY <1>1 DEF books
  <2> QED
    BY <2>1 DEF CoinInv, Balance, Issued, Stakes, Earned
<1> QED
  BY <1>1, RechargingBalance, FundingBalance, SettlingBalance DEF Moves

(* Empty tables balance.                                                   *)
LEMMA BalanceInit ==
  ASSUME Init
  PROVE  Balance
<1>1. TypeInv /\ WinsInv
  BY TypeInit, WinsInit
<1>2. Sum(wallet, Accounts) = 0
  <2>1. \A a \in Accounts : wallet[a] = 0
    BY DEF Init
  <2> QED
    BY <1>1, <2>1, Tables, SumZero
<1>3. Sum(Issued, Accounts \X Keys) = 0
  <2>1. \A x \in Accounts \X Keys : Issued[x] = 0
    BY DEF Init, Issued
  <2> QED
    BY <1>1, <2>1, Tables, SumZero
<1>4. Sum(Stakes, Codes \X Rounds) = 0
  <2>1. \A x \in Codes \X Rounds : Stakes[x] = 0
    BY DEF Init, Stakes
  <2> QED
    BY <1>1, <2>1, Tables, SumZero
<1>5. Sum(Earned, history) = 0
  <2>1. IsFiniteSet(history) /\ \A h \in history : Earned[h] = 0
    BY <1>1 DEF Init, WinsInv
  <2> QED
    BY <2>1, SumZero
<1>6. mint = 0 /\ house = 0
  BY DEF Init
<1> QED
  <2>1. mint = -Sum(Issued, Accounts \X Keys)
    <3>1. /\ mint \in Int /\ Sum(Issued, Accounts \X Keys) \in Int
          /\ mint + Sum(Issued, Accounts \X Keys) = 0
      BY <1>3, <1>6
    <3> QED
      BY <3>1
  <2>2. Sum(wallet, Accounts) + Sum(Stakes, Codes \X Rounds) + house = Sum(Issued, Accounts \X Keys)
    BY <1>2, <1>3, <1>4, <1>6
  <2> QED
    BY <1>5, <1>6, <2>1, <2>2 DEF Balance

(* No command, retry, deadline or settlement makes or loses a coin: what   *)
(* the mint issued is in wallets, in escrow or with the house, for any     *)
(* number of rooms, accounts and keys.                                     *)
THEOREM NoCoinLost == Spec => []CoinsConserved
<1>1. TypeInv /\ LedgerInv /\ MatchInv /\ WinsInv /\ Balance /\ [Next]_vars
        /\ TypeInv' /\ WinsInv' => Balance' /\ MatchInv'
  BY StepMoves, BalanceStep, StepKeeps DEF PromiseInv, Kept, CoinInv
<1>2. Init => Balance /\ MatchInv
  BY BalanceInit, MatchInit
<1>3. TypeInv /\ Balance => CoinsConserved
  BY BalanceConserves
<1> QED
  BY <1>1, <1>2, <1>3, TypeInvariance, LedgerInvariance, WinsInvariance, PTL DEF Spec
=============================================================================
