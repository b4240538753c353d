----------------------------- MODULE Reconciler -----------------------------
(***************************************************************************)
(* How a round that is ready for its transition gets it: each server's     *)
(* reconciliation worker (internal/worker/reconciliation.go), its LISTEN   *)
(* connection (adapter/postgres/listener.go) and the batch query           *)
(* (adapter/postgres/reconciliation.go).                                   *)
(*                                                                         *)
(* RoomStore assumes that a transition that can be made is made in the     *)
(* end: WF_vars(Reconcile(c)), room by room.  This module is what that     *)
(* assumption rests on: notifications that are lost, a channel that drops  *)
(* what it cannot hold, and scans that see only the oldest few rounds.     *)
(*                                                                         *)
(* A transition is one step; RoomStore has its effects.  The first of the  *)
(* two moves or requests of a round makes nothing ready and is left out.   *)
(***************************************************************************)
EXTENDS Integers, FiniteSets, Sequences, SequencesExt

CONSTANTS
  Servers,          \* processes, each with one worker
  Rooms,
  Broke,            \* rooms whose players cannot pay the stake of another round
  BatchSize,        \* ReconciliationConfig, also the capacity of the hint channel
  MaxDrainBatches,
  MaxRound,         \* bound: rounds of a room
  MaxFaults         \* bound: crashes, lost connections and failed transactions

(* As many rooms that cannot pay as a batch holds would fill every batch.  *)
ASSUME ReconcilerAssumption ==
  /\ Broke \subseteq Rooms /\ Cardinality(Broke) < BatchSize
  /\ {BatchSize, MaxDrainBatches, MaxRound} \subseteq Nat \ {0}
  /\ MaxFaults \in Nat

VARIABLES
  rounds,   \* the current round of each room
  oldest,   \* the rooms, by created_at of their current round
  linked,   \* workers that are connected and listen
  woken,    \* the channel "connections": a drain is due
  hints,    \* the channel "notifications"
  work,     \* the batch a worker is at
  faults    \* how often something failed

vars == <<rounds, oldest, linked, woken, hints, work, faults>>

Idle == [left |-> 0, batch |-> <<>>, full |-> FALSE, failed |-> FALSE]

Init ==
  /\ rounds \in [Rooms -> {[number |-> 1, resolved |-> FALSE, ready |-> b, closed |-> FALSE] : b \in BOOLEAN}]
  /\ oldest = SetToSeq(Rooms)
  /\ linked = {} /\ woken = {}
  /\ hints = [s \in Servers |-> <<>>]
  /\ work = [s \in Servers |-> Idle]
  /\ faults = 0

-----------------------------------------------------------------------------
(* The database.                                                           *)

Hint(r) == [room |-> r, number |-> rounds[r].number]

(* pg_notify reaches, at commit, the connections that listen; the callback *)
(* drops the hint when the channel is full.                                *)
Notified(queues, hint) ==
  [s \in Servers |-> IF s \in linked /\ Len(queues[s]) < BatchSize
                     THEN Append(queues[s], hint) ELSE queues[s]]

(* What claimRoomTransition finds; advancing a broke room fails and rolls  *)
(* back.                                                                   *)
Claimable(hint) ==
  LET r == rounds[hint.room] IN r.number = hint.number /\ r.ready /\ ~r.closed
Possible(r) == ~rounds[r].resolved \/ r \notin Broke

(* ReconcileRoom: the transition, or nothing.                              *)
Due(hint) == Claimable(hint) /\ Possible(hint.room)
Transition(r) ==
  IF rounds[r].resolved
  THEN /\ rounds' = [rounds EXCEPT ![r].number = @ + 1, ![r].resolved = FALSE, ![r].ready = FALSE]
       /\ oldest' = Append(Remove(oldest, r), r)
  ELSE rounds' = [rounds EXCEPT ![r].resolved = TRUE, ![r].ready = FALSE] /\ UNCHANGED oldest

NotifiesAlways(hint, queues) ==  \* mutant: a claim that finds nothing notifies too
  /\ IF Due(hint) THEN Transition(hint.room) ELSE UNCHANGED <<rounds, oldest>>
  /\ hints' = Notified(queues, [hint EXCEPT !.number = rounds'[hint.room].number])
ReconcileRoom(hint, queues) ==
  IF Due(hint)
  THEN Transition(hint.room)
       /\ hints' = Notified(queues, [hint EXCEPT !.number = rounds'[hint.room].number])
  ELSE hints' = queues /\ UNCHANGED <<rounds, oldest>>

(* ReconcileBatch's query: the oldest rounds that are ready, whether their *)
(* players can pay or not.                                                 *)
Ready == SelectSeq(oldest, LAMBDA r : rounds[r].ready /\ ~rounds[r].closed)
FilterLast(left) ==  \* mutant: the oldest rounds, and of them those that are ready
  LET rooms == SelectSeq(SubSeq(oldest, 1, BatchSize), LAMBDA r : rounds[r].ready /\ ~rounds[r].closed)
  IN [left |-> left, batch |-> [i \in DOMAIN rooms |-> Hint(rooms[i])],
      full |-> Len(rooms) = BatchSize, failed |-> FALSE]
Batch(left) ==
  LET rooms == SubSeq(Ready, 1, IF Len(Ready) < BatchSize THEN Len(Ready) ELSE BatchSize)
  IN [left |-> left, batch |-> [i \in DOMAIN rooms |-> Hint(rooms[i])],
      full |-> Len(rooms) = BatchSize, failed |-> FALSE]

-----------------------------------------------------------------------------
(* Players.                                                                *)

(* recordRoomAction: the second move, or the second request.               *)
Act(r) ==
  /\ rounds[r].number <= MaxRound /\ ~rounds[r].ready /\ ~rounds[r].closed
  /\ rounds' = [rounds EXCEPT ![r].ready = TRUE]
  /\ hints' = Notified(hints, Hint(r))
  /\ UNCHANGED <<oldest, linked, woken, work, faults>>

(* The pass a server may make after it has committed the action; a request *)
(* whose server dies, or whose time is up, never makes it.                 *)
BestEffort(r) ==
  /\ rounds[r].ready /\ Possible(r)
  /\ ReconcileRoom(Hint(r), hints)
  /\ UNCHANGED <<linked, woken, work, faults>>

(* A player leaves, or a deadline closes the room.                         *)
Leave(r) ==
  /\ rounds[r].resolved /\ ~rounds[r].closed
  /\ rounds' = [rounds EXCEPT ![r].closed = TRUE]
  /\ UNCHANGED <<oldest, linked, woken, hints, work, faults>>

-----------------------------------------------------------------------------
(* The worker: Run, drain and listen.                                      *)

Waits(s) == work[s] = Idle

Drain(s) ==
  /\ Waits(s) /\ s \in woken
  /\ woken' = woken \ {s}
  /\ work' = [work EXCEPT ![s] = Batch(MaxDrainBatches)]
  /\ UNCHANGED <<rounds, oldest, linked, hints, faults>>

TakeHint(s) ==
  /\ Waits(s) /\ hints[s] # <<>>
  /\ ReconcileRoom(Head(hints[s]), [hints EXCEPT ![s] = Tail(@)])
  /\ UNCHANGED <<linked, woken, work, faults>>

(* The timer is reset after every event: it fires when an interval passes  *)
(* without one.                                                            *)
Scan(s) ==
  /\ Waits(s) /\ s \notin woken /\ hints[s] = <<>>
  /\ work' = [work EXCEPT ![s] = Batch(1)]
  /\ UNCHANGED <<rounds, oldest, linked, woken, hints, faults>>

Try(s) ==
  /\ work[s].batch # <<>>
  /\ LET hint == Head(work[s].batch) IN
     /\ ReconcileRoom(hint, hints)
     /\ work' = [work EXCEPT ![s].batch = Tail(@),
                             ![s].failed = @ \/ (Claimable(hint) /\ ~Possible(hint.room))]
  /\ UNCHANGED <<linked, woken, faults>>

More(s) == work[s].left > 1 /\ work[s].full /\ ~work[s].failed
NextBatch(s) ==
  /\ work[s].left > 0 /\ work[s].batch = <<>>
  /\ work' = [work EXCEPT ![s] = IF More(s) THEN Batch(work[s].left - 1) ELSE Idle]
  /\ UNCHANGED <<rounds, oldest, linked, woken, hints, faults>>

(* Listen is established; a drain already due is not queued twice.         *)
Listen(s) ==
  /\ s \notin linked
  /\ linked' = linked \cup {s}
  /\ woken' = woken \cup {s}
  /\ UNCHANGED <<rounds, oldest, hints, work, faults>>

-----------------------------------------------------------------------------
(* Faults.                                                                 *)

Fault == faults < MaxFaults /\ faults' = faults + 1

LinkLost(s) ==
  /\ Fault /\ s \in linked
  /\ linked' = linked \ {s}
  /\ UNCHANGED <<rounds, oldest, woken, hints, work>>

(* A server dies, or is stopped, and comes back with nothing.              *)
Crash(s) ==
  /\ Fault
  /\ linked' = linked \ {s} /\ woken' = woken \ {s}
  /\ hints' = [hints EXCEPT ![s] = <<>>]
  /\ work' = [work EXCEPT ![s] = Idle]
  /\ UNCHANGED <<rounds, oldest>>

(* A transaction fails; the rest of its batch is tried all the same.       *)
TryFails(s) ==
  /\ Fault /\ work[s].batch # <<>>
  /\ work' = [work EXCEPT ![s].batch = Tail(@), ![s].failed = TRUE]
  /\ UNCHANGED <<rounds, oldest, linked, woken, hints>>

HintFails(s) ==
  /\ Fault /\ Waits(s) /\ hints[s] # <<>>
  /\ hints' = [hints EXCEPT ![s] = Tail(@)]
  /\ UNCHANGED <<rounds, oldest, linked, woken, work>>

Worker(s) == Drain(s) \/ Scan(s) \/ TakeHint(s) \/ Try(s) \/ NextBatch(s)
Faults(s) == LinkLost(s) \/ Crash(s) \/ TryFails(s) \/ HintFails(s)

Next ==
  \/ \E r \in Rooms : Act(r) \/ BestEffort(r) \/ Leave(r)
  \/ \E s \in Servers : Worker(s) \/ Listen(s) \/ Faults(s)

(* A worker loops, its timer runs, it reconnects, and compose.yaml starts  *)
(* a stopped server again.  Players and their servers' best effort promise *)
(* nothing.                                                                *)
Fairness == \A s \in Servers : WF_vars(Worker(s)) /\ WF_vars(Listen(s))

Spec == Init /\ [][Next]_vars /\ Fairness

-----------------------------------------------------------------------------
(* A round whose transition is due and possible gets it, although hints    *)
(* are dropped, connections and servers fail, rooms that cannot pay stand  *)
(* before it in every batch, and the pass after the commit never runs.     *)
ReadyRoundMoves == \A r \in Rooms :
  rounds[r].ready /\ Possible(r) ~> ~rounds[r].ready \/ rounds[r].closed

(* A transition notifies the worker that made it, and every other one.     *)
(* These echoes find nothing to do and die out: the hint channels stay     *)
(* empty once the players have stopped.                                    *)
EchoesEnd == <>[](\A s \in Servers : hints[s] = <<>>)
=============================================================================
