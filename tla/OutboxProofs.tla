---------------------------- MODULE OutboxProofs ----------------------------
(***************************************************************************)
(* Proofs about Outbox for any number of rows and servers and any values   *)
(* of the configuration.                                                   *)
(***************************************************************************)
EXTENDS Outbox, TLAPS

(* The shape of the table: a row has its columns, and its lease is at most *)
(* a whole claim.                                                          *)
Columns(r) == [status |-> r.status, owner |-> r.owner, lease |-> r.lease,
               wait |-> r.wait, attempts |-> r.attempts]

RowsOK ==
  /\ row = [i \in Ids |-> Columns(row[i])]
  /\ \A i \in Ids : row[i].lease \in 0 .. ClaimLease

(* The local variables of a run fit together: an idle server has nothing   *)
(* in hand, and the record in hand is no longer in the batch.              *)
RunOK(s) ==
  /\ batch[s] \subseteq Ids
  /\ age[s] \in Nat
  /\ pc[s] \in {"idle", "publish", "mark", "release"}
  /\ pc[s] = "idle" => batch[s] = {}
  /\ IF pc[s] \in {"mark", "release"} THEN current[s] \in Ids \ batch[s] ELSE current[s] = 0

RunsOK ==
  /\ batch = [s \in Servers |-> batch[s]] /\ age = [s \in Servers |-> age[s]]
  /\ pc = [s \in Servers |-> pc[s]] /\ current = [s \in Servers |-> current[s]]
  /\ \A s \in Servers : RunOK(s)

Shaped == RowsOK /\ RunsOK

(* A run marks only what it has published.                                 *)
MarksPublished == \A s \in Servers : pc[s] = "mark" => current[s] \in hints

(* What a run has in hand is claimed by it, for the rest of its lease, or  *)
(* the run is older than a lease.                                          *)
Claimed(s, i) ==
  \/ age[s] >= ClaimLease
  \/ Holds(s, i) /\ row[i].lease = ClaimLease - age[s]
ClaimsHold == \A s \in Servers : \A i \in InHand(s) : Claimed(s, i)

Inv == Shaped /\ MarksPublished /\ NoHintLost /\ ClaimsHold

-----------------------------------------------------------------------------
(* The local arithmetic of ages.                                           *)

(* A run older than OldAge is older than a lease.                          *)
LEMMA OldAgeBound == OldAge \in Int /\ OldAge >= ClaimLease
<1> DEFINE S == {ClaimLease, MaxRetry + Horizon, PublishedRetain + Horizon}
<1>1. ClaimLease \in Nat \ {0} /\ MaxRetry + Horizon \in Nat /\ PublishedRetain + Horizon \in Nat
  BY ConfigAssumption
<1>2. \E x \in S : \A y \in S : x >= y
  BY <1>1
<1>3. OldAge = CHOOSE x \in S : \A y \in S : x >= y
  BY DEF OldAge, Max
<1>4. OldAge \in S /\ \A y \in S : OldAge >= y
  BY <1>2, <1>3
<1> QED
  BY <1>1, <1>4

(* A tick makes a run one tick older, or leaves it older than a lease.     *)
LEMMA Older ==
  ASSUME NEW n \in Nat
  PROVE  /\ Min({n + 1, OldAge}) \in Nat
         /\ Min({n + 1, OldAge}) = n + 1 \/ Min({n + 1, OldAge}) >= ClaimLease
<1> DEFINE S == {n + 1, OldAge}
<1>1. OldAge \in Nat /\ OldAge >= ClaimLease
  BY OldAgeBound, ConfigAssumption
<1>2. \E x \in S : \A y \in S : x <= y
  BY <1>1
<1>3. Min(S) = CHOOSE x \in S : \A y \in S : x <= y
  BY DEF Min
<1>4. Min(S) \in S
  BY <1>2, <1>3
<1> QED
  BY <1>1, <1>4

-----------------------------------------------------------------------------
(* What each step leaves of the rows and of the runs.                      *)

(* A run that ends has nothing in hand, and the others go on.              *)
LEMMA StopRun ==
  ASSUME RunsOK, NEW s \in Servers, Stop(s)
  PROVE  RunsOK' /\ InHand(s)' = {} /\ pc'[s] = "idle"
BY DEF RunsOK, RunOK, Stop, InHand

(* A run that stops leaves the runs of the other servers alone.            *)
LEMMA StopOthers ==
  ASSUME RunsOK, NEW s \in Servers, Stop(s), NEW t \in Servers, t # s
  PROVE  InHand(t)' = InHand(t) /\ age'[t] = age[t] /\ pc'[t] = pc[t] /\ current'[t] = current[t]
BY DEF RunsOK, Stop, InHand

(* A row with its columns is a record of them, and the other way round.    *)
LEMMA AsRecord ==
  ASSUME NEW r, r = Columns(r)
  PROVE  r \in [status : {r.status}, owner : {r.owner}, lease : {r.lease},
                wait : {r.wait}, attempts : {r.attempts}]
BY DEF Columns

(* A record of these columns has no others.                                *)
LEMMA FromRecord ==
  ASSUME NEW S, NEW O, NEW L, NEW W, NEW A,
         NEW r \in [status : S, owner : O, lease : L, wait : W, attempts : A]
  PROVE  r = Columns(r)
BY DEF Columns

(* Changing columns of one row leaves the table a table.                   *)
LEMMA WriteRow ==
  ASSUME RowsOK, NEW i \in Ids, NEW r, r = Columns(r), r.lease \in 0 .. ClaimLease,
         row' = [row EXCEPT ![i] = r]
  PROVE  RowsOK' /\ row'[i] = r /\ \A j \in Ids \ {i} : row'[j] = row[j]
<1>1. row'[i] = r /\ \A j \in Ids \ {i} : row'[j] = row[j]
  BY DEF RowsOK
<1>2. \A j \in Ids : row'[j] = Columns(row'[j]) /\ row'[j].lease \in 0 .. ClaimLease
  BY <1>1 DEF RowsOK
<1>3. row' = [j \in Ids |-> row'[j]]
  BY DEF RowsOK
<1> QED
  BY <1>1, <1>2, <1>3 DEF RowsOK

(* A step that keeps the runs' ages, adds nothing to what they have in     *)
(* hand and leaves the rows they hold as they are keeps their claims.      *)
LEMMA ClaimsKept ==
  ASSUME ClaimsHold,
         \A t \in Servers : InHand(t)' \subseteq InHand(t) /\ age'[t] = age[t],
         \A t \in Servers : \A i \in InHand(t)' : Holds(t, i) => row'[i] = row[i]
  PROVE  ClaimsHold'
BY DEF ClaimsHold, Claimed, Holds

(* A row is published or deleted only with its hint given.                 *)
LEMMA HintsKept ==
  ASSUME NoHintLost, hints \subseteq hints',
         \A i \in Ids : \/ row'[i].status = row[i].status
                        \/ row'[i].status \notin {"published", "deleted"}
                        \/ i \in hints'
                        \/ row[i].status \in {"published", "deleted"}
  PROVE  NoHintLost'
BY DEF NoHintLost

-----------------------------------------------------------------------------
(* The steps, in the order of Next.                                        *)

(* A row that is inserted was held by nobody.                              *)
LEMMA AnnounceKeeps ==
  ASSUME Inv, NEW i \in Ids, Announce(i)
  PROVE  Inv'
<1> DEFINE r == [row[i] EXCEPT !.status = "pending"]
<1>1. r = Columns(r) /\ r.lease = row[i].lease /\ r.status = "pending" /\ r.owner = row[i].owner
  <2>1. row[i] = Columns(row[i])
    BY DEF Inv, Shaped, RowsOK
  <2> QED
    BY <2>1 DEF Columns
<1>2. row' = [row EXCEPT ![i] = r]
  BY DEF Announce
<1>3. RowsOK' /\ row'[i] = r /\ \A j \in Ids \ {i} : row'[j] = row[j]
  <2>1. r.lease \in 0 .. ClaimLease
    BY <1>1 DEF Inv, Shaped, RowsOK
  <2> HIDE DEF r
  <2> QED
    BY <1>1, <1>2, <2>1, WriteRow DEF Inv, Shaped
<1>4. RunsOK' /\ MarksPublished'
  BY DEF Inv, Shaped, RunsOK, RunOK, MarksPublished, Announce, run
<1>5. NoHintLost'
  BY <1>1, <1>3, HintsKept DEF Inv, Announce
<1>6. ClaimsHold'
  <2>1. \A t \in Servers : InHand(t)' = InHand(t) /\ age'[t] = age[t] /\ InHand(t) \subseteq Ids
    BY DEF Announce, run, InHand, Inv, Shaped, RunsOK, RunOK
  <2>2. \A t \in Servers : ~Holds(t, i)
    BY DEF Holds, Announce
  <2> QED
    BY <1>3, <2>1, <2>2, ClaimsKept DEF Inv
<1> QED
  BY <1>3, <1>4, <1>5, <1>6 DEF Inv, Shaped

(* What is claimed was held by nobody whose lease is running.              *)
LEMMA ClaimKeeps ==
  ASSUME Inv, NEW s \in Servers, ClaimOutbox(s)
  PROVE  Inv'
<1> DEFINE taken(i) == [row[i] EXCEPT !.owner = s, !.lease = ClaimLease,
                                      !.attempts = NextAttempt(@)]
<1>1. \A i \in Ids : row'[i] = IF i \in Candidates THEN taken(i) ELSE row[i]
  BY DEF ClaimOutbox
<1>2. \A i \in Ids : /\ row[i] = Columns(row[i]) /\ row[i].lease \in 0 .. ClaimLease
  BY DEF Inv, Shaped, RowsOK
<1>3. \A i \in Ids : /\ taken(i) = Columns(taken(i)) /\ taken(i).lease = ClaimLease
                     /\ taken(i).owner = s /\ taken(i).status = row[i].status
  <2> SUFFICES ASSUME NEW i \in Ids
               PROVE  /\ taken(i) = Columns(taken(i)) /\ taken(i).lease = ClaimLease
                      /\ taken(i).owner = s /\ taken(i).status = row[i].status
    OBVIOUS
  <2>1. row[i] \in [status : {row[i].status}, owner : {row[i].owner}, lease : {row[i].lease},
                    wait : {row[i].wait}, attempts : {row[i].attempts}]
    BY <1>2, AsRecord
  <2>2. taken(i) \in [status : {row[i].status}, owner : {s}, lease : {ClaimLease},
                      wait : {row[i].wait}, attempts : {NextAttempt(row[i].attempts)}]
    BY <2>1
  <2>3. taken(i) = Columns(taken(i))
    BY <2>2, FromRecord
  <2> QED
    BY <2>2, <2>3
<1> HIDE DEF taken
<1>4. RowsOK'
  <2>1. \A i \in Ids : row'[i] = Columns(row'[i])
    BY <1>1, <1>2, <1>3
  <2>2. row' = [i \in Ids |-> Columns(row'[i])]
    BY <2>1 DEF ClaimOutbox
  <2>3. \A i \in Ids : row'[i].lease \in 0 .. ClaimLease
    BY <1>1, <1>2, <1>3, ConfigAssumption
  <2> QED
    BY <2>2, <2>3 DEF RowsOK
<1>5. \A i \in Candidates : i \in Ids /\ row[i].status = "pending" /\ row[i].lease = 0
  BY <1>2, ConfigAssumption DEF Candidates, Claimable
<1>6. RunsOK' /\ MarksPublished'
  BY <1>5 DEF Inv, Shaped, RunsOK, RunOK, MarksPublished, ClaimOutbox
<1>7. NoHintLost'
  <2>1. \A i \in Ids : row'[i].status = row[i].status
    BY <1>1, <1>3
  <2> QED
    BY <2>1, HintsKept DEF Inv, ClaimOutbox
<1>8. ClaimsHold'
  <2> SUFFICES ASSUME NEW t \in Servers, NEW i \in InHand(t)'
               PROVE  Claimed(t, i)'
    BY DEF ClaimsHold
  <2>1. CASE t = s
    <3>1. i \in Candidates /\ age'[s] = 0
      BY <2>1 DEF ClaimOutbox, InHand, Inv, Shaped, RunsOK, RunOK
    <3>2. row'[i] = taken(i) /\ row[i].status = "pending"
      BY <1>1, <1>5, <3>1
    <3>3. Holds(s, i)' /\ row'[i].lease = ClaimLease
      BY <1>3, <1>5, <3>1, <3>2 DEF Holds
    <3> QED
      BY <2>1, <3>1, <3>3, ConfigAssumption DEF Claimed
  <2>2. CASE t # s
    <3>1. i \in InHand(t) /\ age'[t] = age[t] /\ i \in Ids /\ age[t] \in Nat
      BY <2>2 DEF ClaimOutbox, InHand, Inv, Shaped, RunsOK, RunOK
    <3>2. Claimed(t, i)
      BY <3>1 DEF Inv, ClaimsHold
    <3>3. CASE i \in Candidates
      BY <1>5, <3>1, <3>2, <3>3, ConfigAssumption DEF Claimed
    <3>4. CASE i \notin Candidates
      BY <1>1, <3>1, <3>2, <3>4 DEF Claimed, Holds
    <3> QED
      BY <3>3, <3>4
  <2> QED
    BY <2>1, <2>2
<1> QED
  BY <1>4, <1>6, <1>7, <1>8 DEF Inv, Shaped

(* A publication, done or failed, takes a record from the batch into hand. *)
LEMMA PublishKeeps ==
  ASSUME Inv, NEW s \in Servers, NEW i \in Ids, Publish(s, i) \/ PublishFails(s, i)
  PROVE  Inv'
<1>1. RowsOK'
  BY DEF Inv, Shaped, RowsOK, Publish, PublishFails
<1>2. RunsOK'
  <2>1. 0 \notin Ids
    BY IdsAssumption
  <2> QED
    BY <2>1 DEF Inv, Shaped, RunsOK, RunOK, Publish, PublishFails
<1>3. MarksPublished'
  BY DEF Inv, Shaped, RunsOK, RunOK, MarksPublished, Publish, PublishFails
<1>4. NoHintLost'
  BY HintsKept DEF Inv, Publish, PublishFails
<1>5. ClaimsHold'
  <2>1. \A t \in Servers : InHand(t)' \subseteq InHand(t) /\ age'[t] = age[t]
    BY DEF Inv, Shaped, RunsOK, RunOK, Publish, PublishFails, InHand
  <2>2. row' = row
    BY DEF Publish, PublishFails
  <2> QED
    BY <2>1, <2>2, ClaimsKept DEF Inv
<1> QED
  BY <1>1, <1>2, <1>3, <1>4, <1>5 DEF Inv, Shaped

(* Marking and releasing change the row in hand, which only this run holds.*)
LEMMA MarkKeeps ==
  ASSUME Inv, NEW s \in Servers, MarkOutboxPublished(s)
  PROVE  Inv'
<1> DEFINE i == current[s]
           r == [status |-> "published", owner |-> NoServer, lease |-> 0,
                 wait |-> Past(PublishedRetain - age[s]), attempts |-> row[i].attempts]
<1>1. i \in Ids /\ Holds(s, i) /\ i \in hints /\ i \notin batch[s]
  BY DEF Inv, Shaped, RunsOK, RunOK, MarksPublished, MarkOutboxPublished
<1>2. RowsOK' /\ row'[i] = r /\ \A j \in Ids \ {i} : row'[j] = row[j]
  <2>1. r = Columns(r) /\ r.lease \in 0 .. ClaimLease
    BY ConfigAssumption DEF Columns
  <2>2. row' = [row EXCEPT ![i] = r]
    BY DEF MarkOutboxPublished
  <2> HIDE DEF r, i
  <2> QED
    BY <1>1, <2>1, <2>2, WriteRow DEF Inv, Shaped
<1>3. RunsOK'
  BY DEF Inv, Shaped, RunsOK, RunOK, MarkOutboxPublished
<1>4. MarksPublished'
  BY DEF Inv, Shaped, RunsOK, RunOK, MarksPublished, MarkOutboxPublished
<1>5. NoHintLost'
  BY <1>1, <1>2, HintsKept DEF Inv, MarkOutboxPublished
<1>6. ClaimsHold'
  <2>1. \A t \in Servers : InHand(t)' \subseteq InHand(t) /\ age'[t] = age[t]
    BY DEF Inv, Shaped, RunsOK, RunOK, MarkOutboxPublished, InHand
  <2>2. i \notin InHand(s)' /\ InHand(s)' \subseteq Ids
    BY <1>1 DEF Inv, Shaped, RunsOK, RunOK, MarkOutboxPublished, InHand
  <2>3. \A t \in Servers : InHand(t) \subseteq Ids
    BY DEF Inv, Shaped, RunsOK, RunOK, InHand
  <2>4. \A t \in Servers : \A j \in InHand(t)' : Holds(t, j) => row'[j] = row[j]
    BY <1>1, <1>2, <2>1, <2>2, <2>3 DEF Holds
  <2> QED
    BY <2>1, <2>4, ClaimsKept DEF Inv
<1> QED
  BY <1>2, <1>3, <1>4, <1>5, <1>6 DEF Inv, Shaped

(* A run that ends without touching the rows.                              *)
LEMMA AbandonKeeps ==
  ASSUME Inv, NEW s \in Servers, Stop(s), UNCHANGED <<row, hints>>
  PROVE  Inv'
<1>1. RunsOK' /\ InHand(s)' = {} /\ pc'[s] = "idle"
  BY StopRun DEF Inv, Shaped
<1>2. \A t \in Servers \ {s} : /\ InHand(t)' = InHand(t) /\ age'[t] = age[t]
                               /\ pc'[t] = pc[t] /\ current'[t] = current[t]
  BY StopOthers DEF Inv, Shaped
<1>3. RowsOK' /\ NoHintLost'
  BY DEF Inv, Shaped, RowsOK, NoHintLost
<1>4. MarksPublished'
  BY <1>1, <1>2 DEF Inv, MarksPublished
<1>5. ClaimsHold'
  <2>1. age' = age
    BY DEF Stop
  <2> QED
    BY <1>1, <1>2, <2>1, ClaimsKept DEF Inv
<1> QED
  BY <1>1, <1>3, <1>4, <1>5 DEF Inv, Shaped

(* A release gives up the claim of the row in hand and no other.           *)
LEMMA ReleaseKeeps ==
  ASSUME Inv, NEW s \in Servers, ReleaseOutbox(s)
  PROVE  Inv'
<1> DEFINE i == current[s]
           w == Past(RetryDelay(row[i].attempts) - age[s])
           r == [row[i] EXCEPT !.owner = NoServer, !.lease = 0, !.wait = w]
<1>1. i \in Ids /\ Holds(s, i)
  BY DEF Inv, Shaped, RunsOK, RunOK, ReleaseOutbox
<1>2. /\ r = Columns(r) /\ r.lease = 0 /\ r.status = row[i].status
  <2> HIDE DEF w
  <2>1. row[i] \in [status : {row[i].status}, owner : {row[i].owner}, lease : {row[i].lease},
                    wait : {row[i].wait}, attempts : {row[i].attempts}]
    BY <1>1, AsRecord DEF Inv, Shaped, RowsOK
  <2>2. r \in [status : {row[i].status}, owner : {NoServer}, lease : {0},
               wait : {w}, attempts : {row[i].attempts}]
    BY <2>1
  <2>3. r = Columns(r)
    BY <2>2, FromRecord
  <2> QED
    BY <2>2, <2>3
<1>3. row' = [row EXCEPT ![i] = r]
  BY DEF ReleaseOutbox
<1>4. RowsOK' /\ row'[i] = r /\ \A j \in Ids \ {i} : row'[j] = row[j]
  <2> HIDE DEF r, i
  <2>1. r.lease \in 0 .. ClaimLease
    BY <1>2, ConfigAssumption
  <2>2. RowsOK
    BY DEF Inv, Shaped
  <2> QED
    BY <1>1, <1>2, <1>3, <2>1, <2>2, WriteRow
<1>5. RunsOK' /\ InHand(s)' = {} /\ pc'[s] = "idle"
  BY StopRun DEF Inv, Shaped, ReleaseOutbox
<1>6. \A t \in Servers \ {s} : /\ InHand(t)' = InHand(t) /\ age'[t] = age[t]
                               /\ pc'[t] = pc[t] /\ current'[t] = current[t]
  BY StopOthers DEF Inv, Shaped, ReleaseOutbox
<1>7. MarksPublished'
  BY <1>5, <1>6 DEF Inv, MarksPublished, ReleaseOutbox
<1>8. NoHintLost'
  BY <1>2, <1>4, HintsKept DEF Inv, ReleaseOutbox
<1>9. ClaimsHold'
  <2>1. \A t \in Servers : InHand(t)' \subseteq InHand(t) /\ age'[t] = age[t]
    BY <1>5, <1>6 DEF ReleaseOutbox, Stop
  <2>2. \A t \in Servers : InHand(t) \subseteq Ids
    BY DEF Inv, Shaped, RunsOK, RunOK, InHand
  <2>3. \A t \in Servers \ {s} : ~Holds(t, i)
    BY <1>1 DEF Holds
  <2> HIDE DEF i, r
  <2>4. \A t \in Servers : \A j \in InHand(t)' : Holds(t, j) => row'[j] = row[j]
    BY <1>4, <1>5, <2>1, <2>2, <2>3
  <2> QED
    BY <2>1, <2>4, ClaimsKept DEF Inv
<1> QED
  BY <1>4, <1>5, <1>7, <1>8, <1>9 DEF Inv, Shaped

(* The cleanup deletes rows that are published, which nobody holds.        *)
LEMMA CleanupKeeps ==
  ASSUME Inv, NEW s \in Servers, CleanupPublishedOutbox(s)
  PROVE  Inv'
<1> DEFINE gone == [NoRow EXCEPT !.status = "deleted"]
           expired(j) == row[j].status = "published" /\ row[j].wait + age[s] < 0
<1>1. \A j \in Ids : row'[j] = IF expired(j) THEN gone ELSE row[j]
  BY DEF CleanupPublishedOutbox
<1>2. gone = Columns(gone) /\ gone.lease = 0 /\ gone.status = "deleted"
  BY DEF NoRow, Columns
<1> HIDE DEF gone
<1>3. RowsOK'
  <2>1. \A j \in Ids : row'[j] = Columns(row'[j]) /\ row'[j].lease \in 0 .. ClaimLease
    BY <1>1, <1>2, ConfigAssumption DEF Inv, Shaped, RowsOK
  <2>2. row' = [j \in Ids |-> row'[j]]
    BY DEF CleanupPublishedOutbox
  <2> QED
    BY <2>1, <2>2 DEF RowsOK
<1>4. RunsOK' /\ InHand(s)' = {} /\ pc'[s] = "idle"
  BY StopRun DEF Inv, Shaped, CleanupPublishedOutbox
<1>5. \A t \in Servers \ {s} : /\ InHand(t)' = InHand(t) /\ age'[t] = age[t]
                               /\ pc'[t] = pc[t] /\ current'[t] = current[t]
  BY StopOthers DEF Inv, Shaped, CleanupPublishedOutbox
<1>6. MarksPublished'
  BY <1>4, <1>5 DEF Inv, MarksPublished, CleanupPublishedOutbox
<1>7. NoHintLost'
  <2>1. \A j \in Ids : row'[j].status = row[j].status \/ row[j].status = "published"
    BY <1>1
  <2> QED
    BY <2>1, HintsKept DEF Inv, CleanupPublishedOutbox
<1>8. ClaimsHold'
  <2>1. \A t \in Servers : InHand(t)' \subseteq InHand(t) /\ age'[t] = age[t]
    BY <1>4, <1>5 DEF CleanupPublishedOutbox, Stop
  <2>2. \A t \in Servers : InHand(t) \subseteq Ids
    BY DEF Inv, Shaped, RunsOK, RunOK, InHand
  <2>3. \A t \in Servers : \A j \in InHand(t)' : Holds(t, j) => row'[j] = row[j]
    BY <1>1, <2>1, <2>2 DEF Holds
  <2> QED
    BY <2>1, <2>3, ClaimsKept DEF Inv
<1> QED
  BY <1>3, <1>4, <1>6, <1>7, <1>8 DEF Inv, Shaped

(* A tick takes one from a running lease and adds one to the age of its    *)
(* run.                                                                    *)
LEMMA TickKeeps ==
  ASSUME Inv, Tick
  PROVE  Inv'
<1> DEFINE less(j) == IF row[j].lease > 0 THEN row[j].lease - 1 ELSE 0
           next(j) == [row[j] EXCEPT !.wait = Past(@ - 1), !.lease = IF @ > 0 THEN @ - 1 ELSE 0]
           timed(j) == row[j].status \in {"pending", "published"}
<1>1. \A j \in Ids : row'[j] = IF timed(j) THEN next(j) ELSE row[j]
  BY DEF Tick
<1>2. \A j \in Ids : /\ next(j) = Columns(next(j)) /\ next(j).lease = less(j)
                     /\ next(j).status = row[j].status /\ next(j).owner = row[j].owner
  <2> SUFFICES ASSUME NEW j \in Ids
               PROVE  /\ next(j) = Columns(next(j)) /\ next(j).lease = less(j)
                      /\ next(j).status = row[j].status /\ next(j).owner = row[j].owner
    OBVIOUS
  <2>1. row[j] \in [status : {row[j].status}, owner : {row[j].owner}, lease : {row[j].lease},
                    wait : {row[j].wait}, attempts : {row[j].attempts}]
    BY AsRecord DEF Inv, Shaped, RowsOK
  <2>2. next(j) \in [status : {row[j].status}, owner : {row[j].owner}, lease : {less(j)},
                     wait : {Past(row[j].wait - 1)}, attempts : {row[j].attempts}]
    BY <2>1
  <2>3. next(j) = Columns(next(j))
    BY <2>2, FromRecord
  <2> QED
    BY <2>2, <2>3
<1> HIDE DEF next
<1>3. \A j \in Ids : row[j].lease \in 0 .. ClaimLease
  BY DEF Inv, Shaped, RowsOK
<1>4. RowsOK'
  <2>1. \A j \in Ids : less(j) \in 0 .. ClaimLease
    BY <1>3, ConfigAssumption
  <2>2. \A j \in Ids : row'[j] = Columns(row'[j]) /\ row'[j].lease \in 0 .. ClaimLease
    BY <1>1, <1>2, <1>3, <2>1 DEF Inv, Shaped, RowsOK
  <2>3. row' = [j \in Ids |-> row'[j]]
    BY DEF Tick
  <2> QED
    BY <2>2, <2>3 DEF RowsOK
<1>5. \A t \in Servers :
        /\ age'[t] \in Nat
        /\ pc[t] # "idle" => age'[t] = age[t] + 1 \/ age'[t] >= ClaimLease
  BY Older DEF Inv, Shaped, RunsOK, RunOK, Tick
<1>6. RunsOK' /\ MarksPublished'
  BY <1>5 DEF Inv, Shaped, RunsOK, RunOK, MarksPublished, Tick
<1>7. NoHintLost'
  BY <1>1, <1>2, HintsKept DEF Inv, Tick
<1>8. ClaimsHold'
  <2> SUFFICES ASSUME NEW t \in Servers, NEW j \in InHand(t)'
               PROVE  Claimed(t, j)'
    BY DEF ClaimsHold
  <2>1. j \in InHand(t) /\ j \in Ids /\ pc[t] # "idle" /\ age[t] \in Nat
    BY DEF Tick, InHand, Inv, Shaped, RunsOK, RunOK
  <2>2. Claimed(t, j)
    BY <2>1 DEF Inv, ClaimsHold
  <2>3. CASE age'[t] >= ClaimLease
    BY <2>3 DEF Claimed
  <2>4. CASE age'[t] = age[t] + 1 /\ age[t] >= ClaimLease
    BY <2>1, <2>4, ConfigAssumption DEF Claimed
  <2>5. CASE age'[t] = age[t] + 1 /\ age[t] < ClaimLease
    <3>1. Holds(t, j) /\ row[j].lease = ClaimLease - age[t]
      BY <2>1, <2>2, <2>5, ConfigAssumption DEF Claimed
    <3>2. less(j) = ClaimLease - age'[t]
      BY <2>1, <2>5, <3>1, ConfigAssumption
    <3>3. row'[j] = next(j)
      BY <1>1, <2>1, <3>1 DEF Holds
    <3> QED
      BY <1>2, <2>1, <3>1, <3>2, <3>3 DEF Claimed, Holds
  <2> QED
    BY <1>5, <2>1, <2>3, <2>4, <2>5, ConfigAssumption
<1> QED
  BY <1>4, <1>6, <1>7, <1>8 DEF Inv, Shaped

(* An empty table satisfies the invariant.                                 *)
LEMMA InvInit ==
  ASSUME Init
  PROVE  Inv
<1>1. NoRow = Columns(NoRow) /\ NoRow.lease = 0 /\ NoRow.status = "none"
  BY DEF NoRow, Columns
<1>2. RowsOK
  <2>1. \A j \in Ids : row[j] = NoRow
    BY DEF Init
  <2>2. 0 \in 0 .. ClaimLease
    BY ConfigAssumption
  <2>3. row = [j \in Ids |-> row[j]]
    BY DEF Init
  <2> QED
    BY <1>1, <2>1, <2>2, <2>3 DEF RowsOK
<1>3. RunsOK /\ MarksPublished /\ ClaimsHold
  BY DEF Init, RunsOK, RunOK, MarksPublished, ClaimsHold, InHand
<1>4. NoHintLost
  BY <1>1 DEF Init, NoHintLost
<1> QED
  BY <1>2, <1>3, <1>4 DEF Inv, Shaped

(* Every step of Next keeps it.                                            *)
LEMMA InvStep ==
  ASSUME Inv, [Next]_vars
  PROVE  Inv'
<1>1. ASSUME NEW i \in Ids, Announce(i) PROVE Inv'
  BY <1>1, AnnounceKeeps
<1>2. ASSUME NEW s \in Servers, Run(s) PROVE Inv'
  <2>1. CASE ClaimOutbox(s)
    BY <2>1, ClaimKeeps
  <2>2. ASSUME NEW i \in Ids, Publish(s, i) \/ PublishFails(s, i) PROVE Inv'
    BY <2>2, PublishKeeps
  <2>3. CASE MarkOutboxPublished(s)
    BY <2>3, MarkKeeps
  <2>4. CASE ClaimLost(s)
    BY <2>4, AbandonKeeps DEF ClaimLost
  <2>5. CASE ReleaseOutbox(s)
    BY <2>5, ReleaseKeeps
  <2>6. CASE CleanupPublishedOutbox(s)
    BY <2>6, CleanupKeeps
  <2> QED
    BY <1>2, <2>1, <2>2, <2>3, <2>4, <2>5, <2>6 DEF Run
<1>3. ASSUME NEW s \in Servers, Crash(s) PROVE Inv'
  BY <1>3, AbandonKeeps DEF Crash
<1>4. CASE Tick
  BY <1>4, TickKeeps
<1>5. CASE UNCHANGED vars
  <2>1. UNCHANGED <<row, batch, age, current, pc, hints>>
    BY <1>5 DEF vars, run
  <2>2. RowsOK' /\ RunsOK'
    BY <2>1 DEF Inv, Shaped, RowsOK, RunsOK, RunOK
  <2>3. MarksPublished' /\ NoHintLost'
    BY <2>1 DEF Inv, MarksPublished, NoHintLost
  <2>4. ClaimsHold'
    <3>1. \A t \in Servers : InHand(t)' = InHand(t) /\ age'[t] = age[t]
      BY <2>1 DEF InHand
    <3> QED
      BY <2>1, <3>1, ClaimsKept DEF Inv
  <2> QED
    BY <2>2, <2>3, <2>4 DEF Inv, Shaped
<1> QED
  BY <1>1, <1>2, <1>3, <1>4, <1>5 DEF Next

(* So it holds for ever.                                                   *)
LEMMA Invariance == Spec => []Inv
BY InvInit, InvStep, PTL DEF Spec

(* The outbox worker never marks or deletes a revision whose hint Redis    *)
(* has not been given, whatever crashes, failures and lost claims come     *)
(* between PublishRevision and MarkOutboxPublished.                        *)
THEOREM PublishedBeforeMarked == Spec => []NoHintLost
<1>1. Inv => NoHintLost
  BY DEF Inv
<1> QED
  BY <1>1, Invariance, PTL

(* ClaimOutbox, ReleaseOutbox and the lease in outbox.go never let two     *)
(* servers work on one record while both their leases run.                 *)
THEOREM OneLiveClaim == Spec => []LeaseExcludes
<1>1. ASSUME Inv PROVE LeaseExcludes
  <2> SUFFICES ASSUME NEW s \in Servers, NEW t \in Servers, NEW i \in InHand(s) \cap InHand(t),
                      s # t
               PROVE  age[s] >= ClaimLease \/ age[t] >= ClaimLease
    BY DEF LeaseExcludes
  <2>1. Claimed(s, i) /\ Claimed(t, i)
    BY <1>1 DEF Inv, ClaimsHold
  <2> QED
    BY <2>1 DEF Claimed, Holds
<1> QED
  BY <1>1, Invariance, PTL

-----------------------------------------------------------------------------
(* The columns of a row: only a pending row is claimed, and a row that is  *)
(* claimed was claimed at least once, so that its retry delay is defined.  *)

RowType == [status : {"none", "pending", "published", "deleted"},
            owner : Servers \cup {NoServer}, lease : 0 .. ClaimLease,
            wait : Int, attempts : Nat]

Fits(r) ==
  /\ r.owner # NoServer => r.status = "pending" /\ r.attempts > 0
  /\ r.lease > 0 => r.owner # NoServer

TableOK ==
  /\ row \in [Ids -> RowType] /\ \A i \in Ids : Fits(row[i])
  /\ hints \subseteq Ids

(* A time in the past stays a time.                                        *)
LEMMA PastTime ==
  ASSUME NEW t \in Int
  PROVE  Past(t) \in Int
BY ConfigAssumption DEF Past

(* The delay after an attempt is a number of ticks.                        *)
LEMMA DelayTime ==
  ASSUME NEW n \in Nat, n > 0
  PROVE  RetryDelay(n) \in Int
<1> DEFINE S == {RetryBase * 2 ^ (n - 1), MaxRetry}
<1>1. RetryBase \in Nat /\ MaxRetry \in Nat /\ n - 1 \in Nat
  BY ConfigAssumption
<1>2. 2 ^ (n - 1) \in Int
  BY <1>1
<1>3. RetryBase * 2 ^ (n - 1) \in Int
  BY <1>1, <1>2
<1>4. \E x \in S : \A y \in S : x <= y
  BY <1>1, <1>3
<1>5. Min(S) = CHOOSE x \in S : \A y \in S : x <= y
  BY DEF Min
<1>6. Min(S) \in S
  BY <1>4, <1>5
<1> QED
  BY <1>1, <1>3, <1>6 DEF RetryDelay

(* A claim is an attempt.                                                  *)
LEMMA AttemptMade ==
  ASSUME NEW n \in Nat
  PROVE  NextAttempt(n) \in Nat /\ NextAttempt(n) > 0
BY DEF NextAttempt

(* One row is rewritten with fitting columns.                              *)
LEMMA RowFits ==
  ASSUME TableOK, NEW i \in Ids, NEW r \in RowType, Fits(r), row' = [row EXCEPT ![i] = r],
         hints' = hints
  PROVE  TableOK'
<1>1. row' \in [Ids -> RowType]
  BY DEF TableOK
<1>2. \A j \in Ids : row'[j] = IF j = i THEN r ELSE row[j]
  BY DEF TableOK
<1>3. \A j \in Ids : Fits(row'[j])
  BY <1>2 DEF TableOK
<1> QED
  BY <1>1, <1>3 DEF TableOK

(* Many rows are rewritten with fitting columns.                           *)
LEMMA RowsFit ==
  ASSUME TableOK, hints' = hints, NEW f, row' = [i \in Ids |-> f[i]],
         \A i \in Ids : f[i] \in RowType /\ Fits(f[i])
  PROVE  TableOK'
BY DEF TableOK

(* The columns of a row that is claimed, released or aged.                 *)
LEMMA ColumnsFit ==
  ASSUME NEW r \in RowType, Fits(r)
  PROVE  /\ \A s \in Servers : r.status = "pending" =>
              LET taken == [r EXCEPT !.owner = s, !.lease = ClaimLease, !.attempts = NextAttempt(@)]
              IN  taken \in RowType /\ Fits(taken)
         /\ \A w \in Int :
              LET freed == [r EXCEPT !.owner = NoServer, !.lease = 0, !.wait = w]
              IN  freed \in RowType /\ Fits(freed)
         /\ LET older == [r EXCEPT !.wait = Past(@ - 1), !.lease = IF @ > 0 THEN @ - 1 ELSE 0]
            IN  older \in RowType /\ Fits(older)
<1>1. /\ r.owner \in Servers \cup {NoServer} /\ r.lease \in 0 .. ClaimLease /\ r.wait \in Int
      /\ r.attempts \in Nat /\ r.status \in {"none", "pending", "published", "deleted"}
  BY DEF RowType
<1>2. ClaimLease \in Nat \ {0} /\ ClaimLease \in 0 .. ClaimLease /\ 0 \in 0 .. ClaimLease
  BY ConfigAssumption
<1>3. ASSUME NEW s \in Servers, r.status = "pending"
      PROVE  LET taken == [r EXCEPT !.owner = s, !.lease = ClaimLease, !.attempts = NextAttempt(@)]
             IN  taken \in RowType /\ Fits(taken)
  <2> DEFINE n == NextAttempt(r.attempts)
             taken == [r EXCEPT !.owner = s, !.lease = ClaimLease, !.attempts = n]
  <2>1. n \in Nat /\ n > 0
    BY <1>1, AttemptMade
  <2> HIDE DEF n
  <2>2. taken \in RowType
    BY <1>2, <2>1 DEF RowType
  <2>3. /\ taken.owner = s /\ taken.status = "pending" /\ taken.attempts = n
    BY <1>3 DEF RowType
  <2>4. s # NoServer
    BY ServersAssumption
  <2> HIDE DEF taken
  <2>5. Fits(taken)
    BY <2>1, <2>3, <2>4 DEF Fits
  <2> QED
    BY <2>2, <2>5 DEF taken, n
<1>4. ASSUME NEW w \in Int
      PROVE  LET freed == [r EXCEPT !.owner = NoServer, !.lease = 0, !.wait = w]
             IN  freed \in RowType /\ Fits(freed)
  <2> DEFINE freed == [r EXCEPT !.owner = NoServer, !.lease = 0, !.wait = w]
  <2>1. freed \in RowType /\ freed.owner = NoServer /\ freed.lease = 0
    BY <1>2 DEF RowType
  <2> HIDE DEF freed
  <2>2. Fits(freed)
    BY <2>1 DEF Fits
  <2> QED
    BY <2>1, <2>2 DEF freed
<1>5. LET older == [r EXCEPT !.wait = Past(@ - 1), !.lease = IF @ > 0 THEN @ - 1 ELSE 0]
      IN  older \in RowType /\ Fits(older)
  <2> DEFINE w == Past(r.wait - 1)
             l == IF r.lease > 0 THEN r.lease - 1 ELSE 0
             older == [r EXCEPT !.wait = w, !.lease = l]
  <2>1. w \in Int
    BY <1>1, PastTime
  <2>2. l \in 0 .. ClaimLease /\ (l > 0 => r.lease > 0)
    BY <1>1, <1>2
  <2> HIDE DEF w, l
  <2>3. older \in RowType
    BY <2>1, <2>2 DEF RowType
  <2>4. /\ older.owner = r.owner /\ older.status = r.status /\ older.attempts = r.attempts
        /\ older.lease = l
    BY DEF RowType
  <2> HIDE DEF older
  <2>5. Fits(older)
    BY <2>2, <2>4 DEF Fits
  <2> QED
    BY <2>3, <2>5 DEF older, w, l
<1> QED
  BY <1>3, <1>4, <1>5

(* Every step leaves every row with columns that fit.                      *)
LEMMA TableStep ==
  ASSUME Inv, TableOK, [Next]_vars
  PROVE  TableOK'
<1> USE DEF TableOK
<1>1. ASSUME NEW i \in Ids, Announce(i) PROVE TableOK'
  <2> DEFINE r == [row[i] EXCEPT !.status = "pending"]
  <2>1. /\ r \in RowType /\ r.owner = row[i].owner /\ r.lease = row[i].lease
        /\ r.attempts = row[i].attempts /\ r.status = "pending"
    BY DEF RowType
  <2>2. Fits(row[i])
    OBVIOUS
  <2>3. row' = [row EXCEPT ![i] = r] /\ hints' = hints
    BY <1>1 DEF Announce
  <2> HIDE DEF r
  <2>4. Fits(r)
    BY <2>1, <2>2 DEF Fits
  <2> QED
    BY <2>1, <2>3, <2>4, RowFits
<1>2. ASSUME NEW s \in Servers, ClaimOutbox(s) PROVE TableOK'
  <2> DEFINE f == [i \in Ids |-> IF i \notin Candidates THEN row[i]
                    ELSE [row[i] EXCEPT !.owner = s, !.lease = ClaimLease,
                                        !.attempts = NextAttempt(@)]]
  <2>1. ASSUME NEW i \in Ids PROVE f[i] \in RowType /\ Fits(f[i])
    <3>1. row[i] \in RowType /\ Fits(row[i])
      OBVIOUS
    <3>2. i \in Candidates => row[i].status = "pending"
      BY DEF Candidates, Claimable
    <3> QED
      BY <3>1, <3>2, ColumnsFit
  <2>2. row' = f /\ hints' = hints
    BY <1>2 DEF ClaimOutbox
  <2>3. f = [i \in Ids |-> f[i]]
    OBVIOUS
  <2> HIDE DEF f
  <2> QED
    BY <2>1, <2>2, <2>3, RowsFit
<1>3. ASSUME NEW s \in Servers, NEW i \in Ids, Publish(s, i) \/ PublishFails(s, i) PROVE TableOK'
  BY <1>3 DEF Publish, PublishFails
<1>4. ASSUME NEW s \in Servers, MarkOutboxPublished(s) PROVE TableOK'
  <2> DEFINE i == current[s]
             r == [status |-> "published", owner |-> NoServer, lease |-> 0,
                   wait |-> Past(PublishedRetain - age[s]), attempts |-> row[i].attempts]
  <2>1. i \in Ids /\ age[s] \in Nat
    BY <1>4 DEF Inv, Shaped, RunsOK, RunOK, MarkOutboxPublished
  <2>2. PublishedRetain - age[s] \in Int /\ 0 \in 0 .. ClaimLease
    BY <2>1, ConfigAssumption
  <2>3. Past(PublishedRetain - age[s]) \in Int
    BY <2>2, PastTime
  <2>4. row[i].attempts \in Nat
    BY <2>1 DEF RowType
  <2>5. r \in RowType /\ Fits(r)
    BY <2>2, <2>3, <2>4 DEF RowType, Fits
  <2>6. row' = [row EXCEPT ![i] = r] /\ hints' = hints
    BY <1>4 DEF MarkOutboxPublished
  <2> HIDE DEF r, i
  <2> QED
    BY <2>1, <2>5, <2>6, RowFits
<1>5. ASSUME NEW s \in Servers, ReleaseOutbox(s) PROVE TableOK'
  <2> DEFINE i == current[s]
             w == Past(RetryDelay(row[i].attempts) - age[s])
             r == [row[i] EXCEPT !.owner = NoServer, !.lease = 0, !.wait = w]
  <2>1. i \in Ids /\ age[s] \in Nat /\ row[i].owner = s
    BY <1>5 DEF Inv, Shaped, RunsOK, RunOK, ReleaseOutbox, Holds
  <2>2. row[i] \in RowType /\ Fits(row[i])
    BY <2>1
  <2>3. row[i].attempts \in Nat /\ row[i].attempts > 0
    BY <2>1, <2>2, ServersAssumption DEF Fits, RowType
  <2>4. RetryDelay(row[i].attempts) \in Int
    BY <2>3, DelayTime
  <2>5. RetryDelay(row[i].attempts) - age[s] \in Int
    BY <2>1, <2>4
  <2>6. w \in Int
    BY <2>5, PastTime
  <2>7. row' = [row EXCEPT ![i] = r] /\ hints' = hints
    BY <1>5 DEF ReleaseOutbox
  <2> HIDE DEF w, i
  <2>8. r \in RowType /\ Fits(r)
    BY <2>2, <2>6, ColumnsFit
  <2> HIDE DEF r
  <2> QED
    BY <2>1, <2>7, <2>8, RowFits
<1>6. ASSUME NEW s \in Servers, CleanupPublishedOutbox(s) PROVE TableOK'
  <2> DEFINE gone == [NoRow EXCEPT !.status = "deleted"]
             f == [i \in Ids |-> IF row[i].status = "published" /\ row[i].wait + age[s] < 0
                                 THEN gone ELSE row[i]]
  <2>1. gone \in RowType /\ Fits(gone)
    <3>1. 0 \in 0 .. ClaimLease /\ 0 \in Nat /\ 0 \in Int
      BY ConfigAssumption
    <3> QED
      BY <3>1 DEF NoRow, RowType, Fits
  <2> HIDE DEF gone
  <2>2. \A i \in Ids : f[i] \in RowType /\ Fits(f[i])
    BY <2>1
  <2>3. row' = f /\ hints' = hints
    BY <1>6 DEF CleanupPublishedOutbox, gone
  <2>4. f = [i \in Ids |-> f[i]]
    OBVIOUS
  <2> HIDE DEF f
  <2> QED
    BY <2>2, <2>3, <2>4, RowsFit
<1>7. ASSUME Tick PROVE TableOK'
  <2> DEFINE f == [i \in Ids |-> IF row[i].status \notin {"pending", "published"} THEN row[i]
                    ELSE [row[i] EXCEPT !.wait = Past(@ - 1), !.lease = IF @ > 0 THEN @ - 1 ELSE 0]]
  <2>1. ASSUME NEW i \in Ids PROVE f[i] \in RowType /\ Fits(f[i])
    <3>1. row[i] \in RowType /\ Fits(row[i])
      OBVIOUS
    <3> QED
      BY <3>1, ColumnsFit
  <2>2. row' = f /\ hints' = hints
    BY <1>7 DEF Tick
  <2>3. f = [i \in Ids |-> f[i]]
    OBVIOUS
  <2> HIDE DEF f
  <2> QED
    BY <2>1, <2>2, <2>3, RowsFit
<1>8. ASSUME UNCHANGED <<row, hints>> PROVE TableOK'
  BY <1>8
<1>9. ASSUME NEW s \in Servers, ClaimLost(s) \/ Crash(s) PROVE TableOK'
  BY <1>8, <1>9 DEF ClaimLost, Crash
<1> HIDE DEF TableOK
<1> QED
  BY <1>1, <1>2, <1>3, <1>4, <1>5, <1>6, <1>7, <1>8, <1>9 DEF Next, Run, vars

(* A row that does not exist yet fits.                                     *)
LEMMA TableInit ==
  ASSUME Init
  PROVE  TableOK
<1>1. 0 \in 0 .. ClaimLease /\ 0 \in Nat /\ 0 \in Int
  BY ConfigAssumption
<1>2. NoRow \in RowType /\ Fits(NoRow)
  BY <1>1 DEF NoRow, RowType, Fits
<1> QED
  BY <1>2 DEF Init, TableOK

(* ClaimOutbox, MarkOutboxPublished and ReleaseOutbox keep the columns of  *)
(* a row together, for any number of rows and servers: a published or      *)
(* deleted row has no owner, and a row without owner has no lease.         *)
THEOREM RowsTyped == Spec => []RowTypeOK
<1>1. Init => TableOK
  BY TableInit
<1>2. Inv /\ TableOK /\ [Next]_vars => TableOK'
  BY TableStep
<1>3. Inv /\ TableOK => RowTypeOK
  <2> SUFFICES ASSUME Inv, TableOK PROVE RowTypeOK
    OBVIOUS
  <2>1. /\ batch \in [Servers -> SUBSET Ids] /\ age \in [Servers -> Nat]
        /\ current \in [Servers -> Ids \cup {0}]
        /\ pc \in [Servers -> {"idle", "publish", "mark", "release"}]
    BY DEF Inv, Shaped, RunsOK, RunOK
  <2> QED
    BY <2>1 DEF RowTypeOK, TableOK, RowType, Fits
<1> QED
  BY <1>1, <1>2, <1>3, Invariance, PTL DEF Spec
=============================================================================
