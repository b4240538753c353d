------------------------------- MODULE Outbox -------------------------------
(***************************************************************************)
(* The transactional outbox: rows of room_outbox, each a revision of a     *)
(* room that was committed, are claimed by the outbox workers of several   *)
(* servers, published to Redis and marked (adapter/postgres/outbox.go,     *)
(* worker/outbox.go).                                                      *)
(*                                                                         *)
(* Times are kept relative to the present: wait and lease of a row count   *)
(* down to the moment they end, age counts the ticks since a run read the  *)
(* clock.  A run reads the clock and claims its batch in one step.  The    *)
(* claim token of a run is the server it runs on, since a server has one   *)
(* run at a time.                                                          *)
(***************************************************************************)
EXTENDS Integers, FiniteSets, FiniteSetsExt

CONSTANTS
  Ids,              \* outbox_id of the rows that will exist: 1 .. n
  Servers,
  NoServer,         \* the claim token of a row nobody has claimed
  BatchSize,
  ClaimLease, RetryBase, MaxRetry, PublishedRetain,  \* OutboxConfig, in ticks
  Horizon           \* bound: how long ago a time in the past is told apart

ASSUME IdsAssumption == Ids \subseteq Nat \ {0} /\ IsFiniteSet(Ids)
ASSUME ServersAssumption == NoServer \notin Servers
ASSUME ConfigAssumption ==
  /\ {BatchSize, ClaimLease, RetryBase, MaxRetry, PublishedRetain} \subseteq Nat \ {0}
  /\ Horizon \in Nat

VARIABLES
  row,        \* room_outbox
  batch,      \* for each server: the claimed records its run has still to publish
  age,        \* for each server: ticks since its run read the clock
  current,    \* for each server: the record in hand, 0 between records
  pc,         \* for each server: "idle", "publish", "mark" or "release"
  hints       \* the records Redis has been given, at least once

run == <<batch, age, current, pc>>
vars == <<row, run, hints>>

NoRow == [status |-> "none", owner |-> NoServer, lease |-> 0, wait |-> 0, attempts |-> 0]

Init ==
  /\ row = [i \in Ids |-> NoRow]
  /\ batch = [s \in Servers |-> {}]
  /\ age = [s \in Servers |-> 0]
  /\ current = [s \in Servers |-> 0]
  /\ pc = [s \in Servers |-> "idle"]
  /\ hints = {}

(* retryDelay: doubled for every attempt after the first, up to MaxRetry.  *)
RetryDelay(n) == Min({RetryBase * 2 ^ (n - 1), MaxRetry})

(* Attempts beyond the one whose delay is MaxRetry are not told apart.     *)
NextAttempt(n) == IF n > 0 /\ RetryDelay(n) = MaxRetry THEN n ELSE n + 1

Past(t) == IF t < -Horizon THEN -Horizon ELSE t

(* A command, a presence change or a settlement commits an outbox row.     *)
Announce(i) ==
  /\ row[i].status = "none"
  /\ \A j \in Ids : j < i => row[j].status # "none"
  /\ row' = [row EXCEPT ![i].status = "pending"]
  /\ UNCHANGED <<run, hints>>

ClaimableOnce(i) ==  \* mutant: an expired claim is never taken over
  row[i].status = "pending" /\ row[i].wait <= 0 /\ row[i].owner = NoServer
Claimable(i) == row[i].status = "pending" /\ row[i].wait <= 0 /\ row[i].lease <= 0

(* The batch: the rows that have waited longest, older rows first.         *)
Earlier(i, j) ==
  \/ row[i].wait < row[j].wait
  \/ row[i].wait = row[j].wait /\ i < j
Candidates ==
  {i \in Ids : /\ Claimable(i)
               /\ Cardinality({j \in Ids : Claimable(j) /\ Earlier(j, i)}) < BatchSize}

ClaimOutbox(s) ==
  /\ pc[s] = "idle"
  /\ row' = [i \in Ids |-> IF i \notin Candidates THEN row[i]
       ELSE [row[i] EXCEPT !.owner = s, !.lease = ClaimLease, !.attempts = NextAttempt(@)]]
  /\ batch' = [batch EXCEPT ![s] = Candidates]
  /\ age' = [age EXCEPT ![s] = 0]
  /\ pc' = [pc EXCEPT ![s] = "publish"]
  /\ UNCHANGED <<current, hints>>

Holds(s, i) == row[i].owner = s /\ row[i].status = "pending"

Stop(s) ==
  /\ pc' = [pc EXCEPT ![s] = "idle"]
  /\ batch' = [batch EXCEPT ![s] = {}]
  /\ current' = [current EXCEPT ![s] = 0]
  /\ UNCHANGED age

(* PublishRevision: records come back from the claim in any order.  When   *)
(* it fails, Redis may have taken the hint nevertheless.                   *)
Publish(s, i) ==
  /\ pc[s] = "publish" /\ i \in batch[s]
  /\ hints' = hints \cup {i}
  /\ batch' = [batch EXCEPT ![s] = @ \ {i}]
  /\ current' = [current EXCEPT ![s] = i]
  /\ pc' = [pc EXCEPT ![s] = "mark"]
  /\ UNCHANGED <<row, age>>

MarkAnyway(s, i) ==  \* mutant: a failed publication is marked like any other
  /\ pc[s] = "publish" /\ i \in batch[s]
  /\ hints' = hints
  /\ batch' = [batch EXCEPT ![s] = @ \ {i}]
  /\ current' = [current EXCEPT ![s] = i]
  /\ pc' = [pc EXCEPT ![s] = "mark"]
  /\ UNCHANGED <<row, age>>
PublishFails(s, i) ==
  /\ pc[s] = "publish" /\ i \in batch[s]
  /\ hints' \in {hints, hints \cup {i}}
  /\ batch' = [batch EXCEPT ![s] = @ \ {i}]
  /\ current' = [current EXCEPT ![s] = i]
  /\ pc' = [pc EXCEPT ![s] = "release"]
  /\ UNCHANGED <<row, age>>

MarkKeepsClaim(s) ==  \* mutant: the claim is not cleared
  LET i == current[s] IN
  /\ pc[s] = "mark"
  /\ Holds(s, i)
  /\ row' = [row EXCEPT ![i].status = "published", ![i].wait = Past(PublishedRetain - age[s])]
  /\ pc' = [pc EXCEPT ![s] = "publish"]
  /\ current' = [current EXCEPT ![s] = 0]
  /\ UNCHANGED <<batch, age, hints>>
MarkOutboxPublished(s) ==
  LET i == current[s] IN
  /\ pc[s] = "mark"
  /\ Holds(s, i)
  /\ row' = [row EXCEPT ![i] = [status |-> "published", owner |-> NoServer, lease |-> 0,
       wait |-> Past(PublishedRetain - age[s]), attempts |-> @.attempts]]
  /\ pc' = [pc EXCEPT ![s] = "publish"]
  /\ current' = [current EXCEPT ![s] = 0]
  /\ UNCHANGED <<batch, age, hints>>

(* A claim that was lost ends the run, with the rest of its batch claimed. *)
ClaimLost(s) ==
  /\ pc[s] \in {"mark", "release"}
  /\ ~Holds(s, current[s])
  /\ Stop(s)
  /\ UNCHANGED <<row, hints>>

(* The run ends with the record that could not be published: the others of *)
(* its batch stay claimed until the lease ends.                            *)
ReleaseForeign(s) ==  \* mutant: the claim token is not compared
  LET i == current[s] IN
  /\ pc[s] = "release"
  /\ row[i].status = "pending"
  /\ row' = [row EXCEPT ![i].owner = NoServer, ![i].lease = 0,
       ![i].wait = Past(RetryDelay(row[i].attempts) - age[s])]
  /\ Stop(s)
  /\ UNCHANGED hints
ReleaseOutbox(s) ==
  LET i == current[s] IN
  /\ pc[s] = "release"
  /\ Holds(s, i)
  /\ row' = [row EXCEPT ![i].owner = NoServer, ![i].lease = 0,
       ![i].wait = Past(RetryDelay(row[i].attempts) - age[s])]
  /\ Stop(s)
  /\ UNCHANGED hints

(* A run that published its whole batch deletes what was published long    *)
(* before the run began.                                                   *)
CleanupPublishedOutbox(s) ==
  /\ pc[s] = "publish" /\ batch[s] = {}
  /\ row' = [i \in Ids |->
       IF row[i].status = "published" /\ row[i].wait + age[s] < 0
       THEN [NoRow EXCEPT !.status = "deleted"] ELSE row[i]]
  /\ Stop(s)
  /\ UNCHANGED hints

(* The server crashes, is shut down or loses the database: what its run    *)
(* has claimed stays claimed.                                              *)
Crash(s) ==
  /\ pc[s] # "idle"
  /\ Stop(s)
  /\ UNCHANGED <<row, hints>>

(* From this age on, nothing a run does depends on its age.                *)
OldAge == Max({ClaimLease, MaxRetry + Horizon, PublishedRetain + Horizon})

Tick ==
  /\ row' = [i \in Ids |-> IF row[i].status \notin {"pending", "published"} THEN row[i]
       ELSE [row[i] EXCEPT !.wait = Past(@ - 1), !.lease = IF @ > 0 THEN @ - 1 ELSE 0]]
  /\ age' = [s \in Servers |-> IF pc[s] = "idle" THEN 0
       ELSE Min({age[s] + 1, OldAge})]
  /\ UNCHANGED <<batch, current, pc, hints>>

Run(s) ==
  \/ ClaimOutbox(s)
  \/ \E i \in Ids : Publish(s, i) \/ PublishFails(s, i)
  \/ MarkOutboxPublished(s)
  \/ ClaimLost(s)
  \/ ReleaseOutbox(s)
  \/ CleanupPublishedOutbox(s)

Next ==
  \/ \E i \in Ids : Announce(i)
  \/ \E s \in Servers : Run(s) \/ Crash(s)
  \/ Tick

Spec == Init /\ [][Next]_vars

(* Time passes, the workers of one server at least poll for ever, and a    *)
(* record that is claimed again and again is once published and marked     *)
(* before its lease ends and without Redis, the database or the server     *)
(* failing.                                                                *)
Fairness ==
  /\ WF_vars(Tick)
  /\ WF_vars(\E s \in Servers : Run(s))
  /\ \A i \in Ids :
       /\ SF_vars(\E s \in Servers : Holds(s, i) /\ Publish(s, i))
       /\ SF_vars(\E s \in Servers : current[s] = i /\ MarkOutboxPublished(s))

FairSpec == Spec /\ Fairness

-----------------------------------------------------------------------------
(* The columns of a row fit together: only a pending row is claimed, and   *)
(* only a claimed one has a lease.                                         *)
RowTypeOK ==
  /\ \A i \in Ids : /\ row[i].owner # NoServer => row[i].status = "pending"
                    /\ row[i].lease > 0 => row[i].owner # NoServer
  /\ row \in [Ids -> [status : {"none", "pending", "published", "deleted"},
                      owner : Servers \cup {NoServer}, lease : 0 .. ClaimLease,
                      wait : Int, attempts : Nat]]
  /\ batch \in [Servers -> SUBSET Ids] /\ hints \subseteq Ids
  /\ age \in [Servers -> Nat] /\ current \in [Servers -> Ids \cup {0}]
  /\ pc \in [Servers -> {"idle", "publish", "mark", "release"}]

(* A revision leaves the outbox only after Redis has been given its hint,  *)
(* whatever fails between the publication, the mark and the cleanup.       *)
NoHintLost == \A i \in Ids : row[i].status \in {"published", "deleted"} => i \in hints

InHand(s) == IF current[s] = 0 THEN batch[s] ELSE batch[s] \cup {current[s]}

(* Two servers work on one record only when the lease of one of them has   *)
(* ended: a release, a crash or a lost claim never hands out a live one.   *)
LeaseExcludes ==
  \A s, t \in Servers : \A i \in InHand(s) \cap InHand(t) :
    s # t => age[s] >= ClaimLease \/ age[t] >= ClaimLease

(* Every revision that was committed is published and marked in the end,   *)
(* also when the servers that claim it crash in between.                   *)
EveryHintPublished ==
  \A i \in Ids : row[i].status = "pending" ~> row[i].status \in {"published", "deleted"}
=============================================================================
