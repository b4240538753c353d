----------------------------- MODULE PaidRounds -----------------------------
(***************************************************************************)
(* What the store promises about money, without rooms, moves, presence or  *)
(* deadlines: the rounds of a room are played one after the other between  *)
(* the same two accounts; each takes a stake of 50 from both and, once,    *)
(* either gives both stakes back or pays 75 to the winner and 25 to the    *)
(* house.                                                                  *)
(***************************************************************************)
EXTENDS Integers

CONSTANTS Codes, Accounts, NoOne, MaxRound

VARIABLES
  coins,  \* the balance of each account
  bank,   \* what the house has earned
  pots    \* for each round: the two players and what became of their stakes

vars == <<coins, bank, pots>>

Unplayed == [host |-> NoOne, guest |-> NoOne, outcome |-> "unplayed"]
Outcomes == {"draw", "player_one_wins", "player_two_wins"}

Init ==
  /\ coins = [a \in Accounts |-> 0]
  /\ bank = 0
  /\ pots = [c \in Codes |-> [n \in 1 .. MaxRound |-> Unplayed]]

Recharge ==
  \E a \in Accounts :
    /\ coins'[a] > coins[a]
    /\ coins' = [coins EXCEPT ![a] = coins'[a]]
    /\ UNCHANGED <<bank, pots>>

Follows(c, n, host, guest) ==
  n > 1 => /\ pots[c][n - 1].outcome \in Outcomes
           /\ pots[c][n - 1].host = host /\ pots[c][n - 1].guest = guest

Stake(c, n) ==
  \E host, guest \in Accounts :
    /\ host # guest
    /\ pots[c][n] = Unplayed
    /\ Follows(c, n, host, guest)
    /\ coins[host] >= 50 /\ coins[guest] >= 50
    /\ coins' = [coins EXCEPT ![host] = @ - 50, ![guest] = @ - 50]
    /\ pots' = [pots EXCEPT ![c][n] = [host |-> host, guest |-> guest, outcome |-> "open"]]
    /\ UNCHANGED bank

Pay(c, n) ==
  LET host == pots[c][n].host
      guest == pots[c][n].guest
  IN
  /\ pots[c][n].outcome = "open"
  /\ \/ /\ coins' = [coins EXCEPT ![host] = @ + 50, ![guest] = @ + 50]
        /\ bank' = bank
        /\ pots' = [pots EXCEPT ![c][n].outcome = "draw"]
     \/ /\ coins' = [coins EXCEPT ![host] = @ + 75]
        /\ bank' = bank + 25
        /\ pots' = [pots EXCEPT ![c][n].outcome = "player_one_wins"]
     \/ /\ coins' = [coins EXCEPT ![guest] = @ + 75]
        /\ bank' = bank + 25
        /\ pots' = [pots EXCEPT ![c][n].outcome = "player_two_wins"]

Next == Recharge \/ \E c \in Codes, n \in 1 .. MaxRound : Stake(c, n) \/ Pay(c, n)

Spec == Init /\ [][Next]_vars
=============================================================================
