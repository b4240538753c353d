----------------------------- MODULE RoomRules -----------------------------
(***************************************************************************)
(* The rules of a rock-paper-scissors room: the domain aggregate of        *)
(* internal/room/domain/room.go as operators on one record.                *)
(*                                                                         *)
(* A player is named by its role: players[0] is the host and players[1]    *)
(* the guest.  The code's flag resolved always changes together with       *)
(* result, so a room is resolved when it has a result.                     *)
(*                                                                         *)
(*   [players, wins, moves, result, forfeited, round, next, closed]        *)
(*                                                                         *)
(* Each method of the aggregate is a guard (the early returns) and, where  *)
(* it changes the room, the room it leaves.                                *)
(***************************************************************************)
EXTENDS Naturals

Role == {"host", "guest"}
Opponent(p) == IF p = "host" THEN "guest" ELSE "host"

Throw == {"rock", "paper", "scissors"}
NoMove == "no_move"
NoRole == "no_role"

Draw == "draw"
NoResult == "no_result"
Result == {Draw, "player_one_wins", "player_two_wins"}

(* The result that gives the round to p.                                   *)
WinFor(p) == IF p = "host" THEN "player_one_wins" ELSE "player_two_wins"

Beats == {<<"rock", "scissors">>, <<"paper", "rock">>, <<"scissors", "paper">>}

DetermineResult(one, two) ==
  IF one = two THEN Draw
  ELSE IF <<one, two>> \in Beats THEN WinFor("host") ELSE WinFor("guest")

RoomType == [players : SUBSET Role, wins : [Role -> Nat],
             moves : [Role -> Throw \cup {NoMove}],
             result : Result \cup {NoResult}, forfeited : Role \cup {NoRole},
             round : Nat, next : SUBSET Role, closed : BOOLEAN]

Submitted(r) == {p \in Role : r.moves[p] # NoMove}
Resolved(r) == r.result # NoResult

-----------------------------------------------------------------------------
(* Rehydration: the checks Restore makes on the rows a load brings back.   *)

ValidResolvedMoves(r) ==
  \/ /\ Submitted(r) = Role
     /\ r.result = DetermineResult(r.moves["host"], r.moves["guest"])
  \/ Submitted(r) = {} /\ r.result = Draw
  \/ \E p \in Role : Submitted(r) = {p} /\ r.result = WinFor(p)

ValidForfeit(r) ==
  /\ r.forfeited \in r.players
  /\ Submitted(r) # Role
  /\ r.result = WinFor(Opponent(r.forfeited))

Restorable(r) ==
  /\ r.round > 0
  /\ r.players # {}
  /\ Submitted(r) \subseteq r.players
  /\ r.next \subseteq r.players
  /\ IF Resolved(r)
     THEN /\ r.players = Role
          /\ IF r.forfeited = NoRole THEN ValidResolvedMoves(r) ELSE ValidForfeit(r)
     ELSE r.forfeited = NoRole /\ r.next = {}

-----------------------------------------------------------------------------
(* The operations.                                                         *)

CanJoin(r) == ~r.closed /\ r.players # Role
Join(r) == [r EXCEPT !.players = Role]

(* A deadline or the reconciler may resolve only the current, open round.  *)
CanResolve(r, n) == ~r.closed /\ n = r.round /\ ~Resolved(r) /\ r.players = Role

Award(r, result) ==
  [r EXCEPT !.result = result,
            !.wins = [p \in Role |-> IF result = WinFor(p) THEN @[p] + 1 ELSE @[p]]]

CanResolveCommittedMoves(r, n) == CanResolve(r, n) /\ Submitted(r) = Role
ResolveCommittedMoves(r) ==
  Award(r, DetermineResult(r.moves["host"], r.moves["guest"]))

CanForfeit(r, n) == CanResolve(r, n)
Forfeit(r, p) == [Award(r, WinFor(Opponent(p))) EXCEPT !.forfeited = p]

(* Two committed moves are left to the reconciler.                         *)
CanResolveUntouched(r, n) ==  \* mutant: one committed move keeps the round open
  CanResolve(r, n) /\ Submitted(r) = {}
CanResolveInactivity(r, n) == CanResolve(r, n) /\ Submitted(r) # Role
ResolveInactivity(r) ==
  Award(r, IF Submitted(r) = {} THEN Draw
           ELSE WinFor(CHOOSE p \in Role : p \in Submitted(r)))

CanResolveDeadlineDraw(r, n) == CanResolve(r, n)
ResolveDeadlineDraw(r) == Award(r, Draw)

CanAdvance(r, n) ==
  ~r.closed /\ n = r.round /\ Resolved(r) /\ r.players = Role /\ r.next = Role
AdvanceResetsWins(r) ==  \* mutant: the score starts again
  [r EXCEPT !.moves = [p \in Role |-> NoMove], !.result = NoResult, !.wins = [p \in Role |-> 0],
            !.forfeited = NoRole, !.round = @ + 1, !.next = {}]
Advance(r) ==
  [r EXCEPT !.moves = [p \in Role |-> NoMove], !.result = NoResult,
            !.forfeited = NoRole, !.round = @ + 1, !.next = {}]

(* A seated player may leave, except while a game of two is unfinished.    *)
CanLeaveAnytime(r, p) == ~r.closed /\ p \in r.players  \* mutant: stakes may be left behind
CanLeave(r, p) == ~r.closed /\ p \in r.players /\ (Resolved(r) \/ r.players # Role)
Leave(r) == [r EXCEPT !.closed = TRUE]
=============================================================================
