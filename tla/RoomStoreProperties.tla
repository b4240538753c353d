------------------------ MODULE RoomStoreProperties ------------------------
(***************************************************************************)
(* What must hold of the store, whatever the players, the workers and the  *)
(* network do.                                                             *)
(***************************************************************************)
EXTENDS RoomStore, FiniteSets, Functions

(* Room codes, accounts and idempotency keys are strings of bounded        *)
(* length, so their tables can be added up.                                *)
ASSUME FiniteAssumption == IsFiniteSet(Codes) /\ IsFiniteSet(Accounts) /\ IsFiniteSet(Keys)

RoundType ==
  [status : {"none", "active", "resolved"}, result : Result \cup {NoResult},
   forfeited : Role \cup {NoRole}, funded : BOOLEAN,
   moves : [Role -> Throw \cup {NoMove}], next : SUBSET Role]

ConnectionType == [id : Conns, room : Codes, role : Role, lease : Nat]

(* Only the deadline of a disconnection names a role.                      *)
DeadlineType ==
  [room : Codes, round : Rounds, kind : {"disconnect"}, role : Role, gen : Nat, due : Nat]
  \cup [room : Codes, round : Rounds, kind : {"inactivity"}, role : {NoRole}, gen : Nat,
        due : Nat]

HistoryType ==
  [room : Codes, round : Rounds, host : Accounts, guest : Accounts, result : Result,
   forfeit : BOOLEAN, earnings : {0, HousePayout}]

GameTypeOK ==
  /\ rooms \in [Codes -> [status : {"none", "active", "closed"}, round : 0 .. MaxRound,
                          revision : Nat]]
  /\ seats \in [Codes -> [Role -> Accounts \cup {NoOne}]]
  /\ wins \in [Codes -> [Role -> Nat]]
  /\ rounds \in [Codes -> [Rounds -> RoundType]]
  /\ outbox \in [Codes -> SUBSET Nat]

MoneyTypeOK ==
  /\ wallet \in [Accounts -> Nat]
  /\ escrow \in [Codes -> [Rounds -> Int]]
  /\ house \in Nat /\ mint \in Int
  /\ staked \subseteq Codes \X Rounds /\ settled \subseteq Codes \X Rounds
  /\ recharged \in [Accounts -> [Keys -> Nat]]
  /\ history \subseteq HistoryType

LinkTypeOK ==
  /\ receipts \subseteq Keys
  /\ presence \in [Codes -> [Role -> [gen : Nat, present : BOOLEAN]]]
  /\ conns \subseteq ConnectionType
  /\ deadlines \subseteq DeadlineType
  /\ clock \in Nat

(* Every row has the columns and the value range of its table; a committed *)
(* round is never left in the status settling, and no wallet of a user is  *)
(* overdrawn.                                                              *)
TypeOK == GameTypeOK /\ MoneyTypeOK /\ LinkTypeOK

-----------------------------------------------------------------------------
(* Money and results.                                                      *)

Open(c, n) == rounds[c][n].funded /\ rounds[c][n].result = NoResult
Finished(c, n) == rounds[c][n].result # NoResult

(* The escrow of a round holds both stakes exactly while the round is      *)
(* funded and has no result: fundRound, settleRound and the claims that    *)
(* stand between them neither lose nor double a stake.                     *)
EscrowHoldsStakes ==
  \A c \in Codes, n \in Rounds :
    escrow[c][n] = IF Open(c, n) THEN 2 * RoundStake ELSE 0

(* Two moves, a reconnection, a forfeit and a timeout may race, but a      *)
(* round with a result has one history row and one settlement, both for    *)
(* that result, and a round without one has neither.                       *)
SettlementMatchesRound ==
  \A c \in Codes, n \in Rounds :
    LET row == rounds[c][n] IN
    /\ {h \in history : h.room = c /\ h.round = n} =
         IF ~Finished(c, n) THEN {}
         ELSE {[room |-> c, round |-> n, host |-> seats[c]["host"],
                guest |-> seats[c]["guest"], result |-> row.result,
                forfeit |-> row.forfeited # NoRole,
                earnings |-> HouseEarnings(row.result)]}
    /\ <<c, n>> \in settled <=> Finished(c, n)
    /\ <<c, n>> \in staked <=> row.funded

(* A room plays one round at a time: everything before the current round   *)
(* is settled, everything after it does not exist, and a room that is      *)
(* closed or has one player holds no stake.                                *)
OneOpenRound ==
  \A c \in Codes, n \in Rounds :
    /\ n < Round(c) => Finished(c, n) /\ rounds[c][n].next = Role
    /\ n > Round(c) => rounds[c][n] = NoRound
    /\ Open(c, n) => rooms[c].status = "active" /\ Full(c)

(* The wins on the seats are the wins in the history of the room.          *)
WinsMatchHistory ==
  \A c \in Codes, p \in Role :
    wins[c][p] = Cardinality({h \in history : h.room = c /\ h.result = WinFor(p)})

(* What the recharges put in, what the rounds hold, what the house won.    *)
Issued == [ak \in Accounts \X Keys |-> recharged[ak[1]][ak[2]]]
Stakes == [cn \in Codes \X Rounds |-> escrow[cn[1]][cn[2]]]
Earned == [h \in history |-> h.earnings]

(* The ledger balances: what the mint issued by recharges is in wallets,   *)
(* in escrow or with the house, and the house holds its share of the       *)
(* rounds that were won, so no retry, race or settlement makes or loses a  *)
(* coin.                                                                   *)
CoinsConserved ==
  /\ mint = -SumFunction(Issued)
  /\ SumFunction(wallet) + SumFunction(Stakes) + house = SumFunction(Issued)
  /\ house = SumFunction(Earned)

(* A committed move is never replaced or withdrawn, a result is never      *)
(* revised, and no move is added to a round that has a result.             *)
OutcomeImmutable ==
  [][/\ history \subseteq history'
     /\ \A c \in Codes, n \in Rounds :
          LET old == rounds[c][n]
              new == rounds'[c][n]
          IN
          /\ \A p \in Role : old.moves[p] # NoMove => new.moves[p] = old.moves[p]
          /\ Finished(c, n) => /\ new.result = old.result
                               /\ new.forfeited = old.forfeited
                               /\ new.moves = old.moves]_vars

(* Every revision of a room is announced once it is committed, and nothing *)
(* else is: the outbox of a room holds the revisions 1 to the current one. *)
EveryRevisionAnnounced == \A c \in Codes : outbox[c] = 1 .. rooms[c].revision

(* Nothing a player can see of a room changes under an unchanged revision, *)
(* so a client that ignores older revisions misses nothing.                *)
VisibleChangeBumpsRevision ==
  [][\A c \in Codes :
       \/ rooms'[c].revision > rooms[c].revision
       \/ /\ rooms'[c] = rooms[c] /\ seats'[c] = seats[c] /\ wins'[c] = wins[c]
          /\ rounds'[c] = rounds[c]
          /\ \A p \in Role : presence'[c][p].present = presence[c][p].present]_vars

-----------------------------------------------------------------------------
(* Deadlines and presence.                                                 *)

(* A round whose stakes are in escrow always has something that will end   *)
(* it: an inactivity deadline, or two moves for the reconciler; and no     *)
(* inactivity deadline outlives its round.                                 *)
InactivityTracksRound ==
  \A c \in Codes, n \in Rounds :
    LET timed == \E d \in deadlines : /\ d.room = c /\ d.round = n
                                      /\ d.kind = "inactivity" IN
    /\ Open(c, n) => timed \/ \A p \in Role : rounds[c][n].moves[p] # NoMove
    /\ timed => Open(c, n)

(* A grace period of the current presence generation runs only for a       *)
(* player who is absent: reconnecting cancels it, in the round it was      *)
(* started for.                                                            *)
GraceOnlyForAbsent ==
  \A d \in deadlines :
    /\ d.kind = "disconnect" /\ d.round = Round(d.room)
    /\ d.gen = presence[d.room][d.role].gen
    => ~presence[d.room][d.role].present

(* Only a player who has no live connection and is recorded absent         *)
(* forfeits, only to an opponent who is connected, only after a grace      *)
(* period of that very absence has run out.                                *)
ForfeitOnlyAbsent ==
  [][\A c \in Codes, n \in Rounds, p \in Role :
       rounds[c][n].forfeited = NoRole /\ rounds'[c][n].forfeited = p =>
         /\ n = Round(c)
         /\ ~presence[c][p].present /\ ~Live(c, p, clock)
         /\ Live(c, Opponent(p), clock)
         /\ \E d \in deadlines : /\ d.kind = "disconnect" /\ d.room = c /\ d.round = n
                                 /\ d.role = p /\ d.gen = presence[c][p].gen
                                 /\ d.due <= clock]_vars

-----------------------------------------------------------------------------
(* Progress, when the workers keep running.                                *)

BothMoved(c, n) == \A p \in Role : rounds[c][n].moves[p] # NoMove

Timed(c, n) ==
  \/ BothMoved(c, n)
  \/ \E d \in deadlines : /\ d.room = c /\ d.round = n /\ d.kind = "inactivity"
                          /\ d.due <= MaxClock

(* A funded round is settled, whatever the players do or fail to do.  (A   *)
(* deadline beyond the last tick of the model is not waited for.)          *)
FundedRoundSettles ==
  \A c \in Codes, n \in Rounds :
    Open(c, n) /\ Timed(c, n) ~> Finished(c, n)

(* A player who stays away past the grace period loses or draws the round  *)
(* then, without waiting for the inactivity deadline.                      *)
Away(c, p, n) ==
  /\ Open(c, n) /\ Round(c) = n
  /\ \E d \in deadlines : /\ d.kind = "disconnect" /\ d.room = c /\ d.round = n
                          /\ d.role = p /\ d.gen = presence[c][p].gen
                          /\ d.due <= MaxClock

AbsenceEnds ==
  \A c \in Codes, n \in Rounds, p \in Role :
    Away(c, p, n) ~> Finished(c, n) \/ presence[c][p].present

(* When both players have asked for the next round and can pay for it, it  *)
(* starts, unless one of them leaves.                                      *)
NextRoundStarts ==
  \A c \in Codes, n \in Rounds :
    /\ n < MaxRound /\ Round(c) = n /\ rounds[c][n].next = Role
    /\ rooms[c].status = "active" /\ Restorable(Load(c))
    /\ \A p \in Role : wallet[seats[c][p]] >= RoundStake
    ~> Round(c) > n \/ rooms[c].status = "closed"

-----------------------------------------------------------------------------
(* Whatever is committed can be read again: load accepts every room.       *)
CommittedRoomLoads == \A c \in Codes : rooms[c].status # "none" => Restorable(Load(c))

(* The abstract promise: a round's pot is what the ledger says of it.      *)
Pots ==
  [c \in Codes |-> [n \in Rounds |->
     IF <<c, n>> \notin staked
     THEN [host |-> NoOne, guest |-> NoOne, outcome |-> "unplayed"]
     ELSE [host |-> seats[c]["host"], guest |-> seats[c]["guest"],
           outcome |-> IF <<c, n>> \in settled THEN rounds[c][n].result ELSE "open"]]]

Promise == INSTANCE PaidRounds WITH coins <- wallet, bank <- house, pots <- Pots

(* Every step of the store is a recharge, one stake, one payment or        *)
(* nothing, as far as money goes.                                          *)
PaysAsPromised == Promise!Spec
=============================================================================
