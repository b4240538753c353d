----------------------------- MODULE FeedProofs -----------------------------
(***************************************************************************)
(* Proofs about RoomFeed for any sockets and any bounds.                   *)
(***************************************************************************)
EXTENDS RoomFeed, TLAPS

(* Where the handler of a socket and the thread of a subscription may      *)
(* stand, in reconcile and Offer (Calls) and elsewhere.                    *)
Calls == {"check", "lock", "load", "apply", "deliver", "offer"}
Idle == {"out", "subscribe", "await"}
Served == {"open", "serve", "closeLease", "release"}

ThreadType ==
  [at : Calls \cup Idle \cup Served \cup {"wait", "closed"},
   then : {"out", "wait", "open", "serve"}, min : 0 .. MaxRevision, force : BOOLEAN,
   room : 0 .. MaxRooms, holds : BOOLEAN, got : 0 .. MaxRevision,
   todo : SUBSET Sockets, to : Sockets \cup {NoSocket}]
LinkType == [up : BOOLEAN, hints : Seq(Revisions), cancelled : SUBSET {"room", "subscription"}]

TypeOK ==
  /\ revision \in Revisions /\ unsent \subseteq Revisions
  /\ hub \in 0 .. made /\ made \in 0 .. MaxRooms /\ mu \in Sockets \cup {NoSocket}
  /\ room \in [Rooms -> [revision : 0 .. MaxRevision, consumers : SUBSET Sockets]]
  /\ link \in [Rooms -> LinkType]
  /\ th \in [Threads -> ThreadType]
  /\ queue \in [Sockets -> 0 .. MaxRevision]
  /\ client \in [Sockets -> [last : 0 .. MaxRevision, initial : BOOLEAN]]
  /\ missed \in BOOLEAN /\ faults \in 0 .. MaxFaults

(* Only a thread that is about to offer again has somebody to offer to.    *)
Offers(x) == x.to # NoSocket => x.at = "offer"
Handler(x) ==
  /\ x.at \in Calls \cup Idle \cup Served
  /\ x.at \in Calls => x.then \in {"open", "serve"}
  /\ Offers(x)
Runner(x) ==
  /\ x.at \in Calls \cup {"out", "wait", "closed"}
  /\ x.at \in Calls => x.then = "wait"
  /\ Offers(x)

(* A localRoom nobody has subscribed for yet.                              *)
Fresh(o) == th[o].at = "out" /\ link[o].cancelled = {}

(* The socket at "subscribe" holds h.mu, and the room it creates is fresh. *)
Creation ==
  /\ \A s \in Sockets : At(s, "subscribe") <=> mu = s
  /\ mu # NoSocket => hub = 0 /\ made # 0 /\ Fresh(made)
  /\ \A o \in Rooms : o > made => Fresh(o)

(* The consumers of the hub's room are the sockets that have acquired it,  *)
(* and its subscription runs.                                              *)
Membership ==
  /\ \A s \in Sockets : Acquired(s) <=> hub # 0 /\ s \in room[hub].consumers
  /\ hub # 0 => /\ room[hub].consumers # {}
                /\ th[hub].at \notin {"out", "closed"} /\ link[hub].cancelled = {}

FeedInv ==
  /\ TypeOK
  /\ \A s \in Sockets : Handler(th[s])
  /\ \A o \in Rooms : Runner(th[o])
  /\ Creation /\ Membership

-----------------------------------------------------------------------------
(* What a step does to the threads.                                        *)

Places == Calls \cup Idle \cup Served \cup {"wait", "closed"}

(* Only thread t moves.                                                    *)
Moved(t) ==
  /\ th' \in [Threads -> ThreadType]
  /\ \A u \in Threads : u # t => th'[u] = th[u]

(* A thread that stands nowhere has the fields of one.                     *)
LEMMA ThreadTyped == Thread \in ThreadType /\ MaxRooms \in Nat \ {0} /\ MaxRevision \in Nat \ {0}
<1>1. MaxRooms \in Nat \ {0} /\ MaxRevision \in Nat \ {0}
  BY FeedBoundsAssumption
<1>2. 0 \in 0 .. MaxRooms /\ 0 \in 0 .. MaxRevision
  BY <1>1
<1> QED
  BY <1>1, <1>2 DEF Thread, ThreadType, Idle

(* A thread at a place of its own has forgotten its call.                  *)
LEMMA GotoMoves ==
  ASSUME TypeOK, NEW t \in Threads, NEW place \in Places, Goto(t, place)
  PROVE  Moved(t) /\ th'[t].at = place /\ th'[t].to = NoSocket
<1>1. [Thread EXCEPT !.at = place] \in ThreadType
  BY ThreadTyped DEF ThreadType, Places
<1>2. [Thread EXCEPT !.at = place].at = place /\ [Thread EXCEPT !.at = place].to = NoSocket
  BY DEF Thread
<1> QED
  BY <1>1, <1>2 DEF Goto, TypeOK, Moved

(* A call begins with the check of the hub's revision.                     *)
LEMMA CallMoves ==
  ASSUME TypeOK, NEW t \in Threads, NEW min \in 0 .. MaxRevision, NEW force \in BOOLEAN,
         NEW then \in {"wait", "open", "serve"}, Call(t, min, force, then)
  PROVE  Moved(t) /\ th'[t].at = "check" /\ th'[t].then = then /\ th'[t].to = NoSocket
<1> DEFINE y == [Thread EXCEPT !.at = "check", !.min = min, !.force = force, !.then = then]
<1>1. y \in ThreadType /\ y.at = "check" /\ y.then = then /\ y.to = NoSocket
  BY ThreadTyped DEF Thread, ThreadType, Calls
<1> HIDE DEF y
<1>2. th' = [th EXCEPT ![t] = y]
  BY DEF Call, y
<1> QED
  BY <1>1, <1>2 DEF TypeOK, Moved

(* A step of a thread that neither acquires nor releases the room, and     *)
(* cancels nothing, keeps who is served by what.                           *)
LEMMA QuietKeeps ==
  ASSUME FeedInv, TypeOK', NEW t \in Threads, Moved(t),
         hub' = hub, made' = made, mu' = mu,
         \A o \in Rooms : room'[o].consumers = room[o].consumers
                          /\ link'[o].cancelled = link[o].cancelled,
         t \in Sockets => /\ Handler(th'[t]) /\ Acquired(t) /\ Acquired(t)'
                          /\ ~At(t, "subscribe"),
         t \in Rooms => /\ Runner(th'[t])
                        /\ th[t].at # "out" /\ th'[t].at # "out"
                        /\ th'[t].at = "closed" => t # hub
  PROVE  FeedInv'
<1>1. \A u \in Threads : u # t => th'[u] = th[u]
  BY DEF Moved
<1>2. \A s \in Sockets : Handler(th'[s]) /\ (Acquired(s)' <=> Acquired(s))
  BY <1>1 DEF FeedInv, Threads, Acquired
<1>3. \A o \in Rooms : Runner(th'[o])
  BY <1>1 DEF FeedInv, Threads
<1>4. \A s \in Sockets : At(s, "subscribe")' <=> At(s, "subscribe")
  BY <1>1 DEF Acquired, At, Threads
<1>5. \A o \in Rooms : Fresh(o) => Fresh(o)' /\ o # t
  BY <1>1 DEF Fresh, Threads
<1>6. made # 0 => made \in Rooms
  BY FeedBoundsAssumption DEF FeedInv, TypeOK, Rooms
<1>7. Creation'
  BY <1>4, <1>5, <1>6 DEF FeedInv, Creation
<1>8. hub # 0 => hub \in Rooms
  BY FeedBoundsAssumption DEF FeedInv, TypeOK, Rooms
<1>9. hub # 0 => th'[hub].at \notin {"out", "closed"}
  BY <1>1, <1>8 DEF FeedInv, Membership, Threads
<1>10. Membership'
  BY <1>2, <1>8, <1>9 DEF FeedInv, Membership
<1> QED
  BY <1>2, <1>3, <1>7, <1>10 DEF FeedInv

(* A step that moves no thread and leaves the hub alone.                   *)
LEMMA StillKeeps ==
  ASSUME FeedInv, TypeOK', th' = th, hub' = hub, made' = made, mu' = mu,
         \A o \in Rooms : room'[o].consumers = room[o].consumers
                          /\ link'[o].cancelled = link[o].cancelled
  PROVE  FeedInv'
<1>1. /\ made # 0 => made \in Rooms
      /\ hub # 0 => hub \in Rooms
  BY FeedBoundsAssumption DEF FeedInv, TypeOK, Rooms
<1>2. Creation'
  BY <1>1 DEF FeedInv, Creation, Fresh, At
<1>3. Membership'
  BY <1>1 DEF FeedInv, Membership, Acquired
<1> QED
  BY <1>2, <1>3 DEF FeedInv

(* A thread in reconcile goes on there or where it was called from.        *)
LEMMA CallKeeps ==
  ASSUME FeedInv, TypeOK', NEW t \in Threads, th[t].at \in Calls, Moved(t),
         hub' = hub, made' = made, mu' = mu,
         \A o \in Rooms : room'[o].consumers = room[o].consumers
                          /\ link'[o].cancelled = link[o].cancelled,
         Offers(th'[t]),
         \/ th'[t].at \in Calls /\ th'[t].then = th[t].then
         \/ th'[t].at = th[t].then
         \/ th'[t].at = Failed(t)
  PROVE  FeedInv'
<1>1. t \in Sockets => th[t].then \in {"open", "serve"} /\ th[t].at # "subscribe" /\ Acquired(t)
  BY DEF FeedInv, Handler, Acquired, Calls
<1>2. t \in Rooms => th[t].then = "wait" /\ th[t].at # "out"
  BY DEF FeedInv, Runner, Calls
<1>3. t \in Sockets => \/ th'[t].at \in Served
                       \/ th'[t].at \in Calls /\ th'[t].then \in {"open", "serve"}
  BY <1>1 DEF Failed, Served
<1>4. t \in Rooms => th'[t].at = "wait" \/ (th'[t].at \in Calls /\ th'[t].then = "wait")
  BY <1>2 DEF Failed
<1>5. t \in Sockets => Handler(th'[t])
  BY <1>3 DEF Handler, Calls, Served
<1>6. t \in Sockets => Acquired(t)'
  BY <1>3 DEF Acquired, Calls, Served
<1>7. t \in Rooms => Runner(th'[t]) /\ th'[t].at \notin {"out", "closed"}
  BY <1>4 DEF Runner, Calls
<1> QED
  BY <1>1, <1>2, <1>5, <1>6, <1>7, QuietKeeps DEF At

-----------------------------------------------------------------------------
(* PostgreSQL, Redis and the network.                                      *)

(* A hint that is received is one of the room's revisions.                 *)
LEMMA ReceivedKeeps ==
  ASSUME TypeOK, NEW r \in Revisions, Received(r)
  PROVE  /\ link' \in [Rooms -> LinkType]
         /\ \A o \in Rooms : link'[o].cancelled = link[o].cancelled
<1>1. ASSUME NEW o \in Rooms
      PROVE  LET n == IF link[o].up THEN [link[o] EXCEPT !.hints = Append(@, r)] ELSE link[o]
             IN  n \in LinkType /\ n.cancelled = link[o].cancelled
  <2>1. link[o] \in LinkType /\ Append(link[o].hints, r) \in Seq(Revisions)
    BY DEF TypeOK, LinkType
  <2> QED
    BY <2>1 DEF LinkType
<1> QED
  BY <1>1 DEF Received

(* A subscription that connects, breaks or takes a hint cancels nothing.   *)
LEMMA LinkKeeps ==
  ASSUME TypeOK, NEW o \in Rooms, NEW n \in LinkType, n.cancelled = link[o].cancelled,
         link' = [link EXCEPT ![o] = n]
  PROVE  /\ link' \in [Rooms -> LinkType]
         /\ \A p \in Rooms : link'[p].cancelled = link[p].cancelled
BY DEF TypeOK

(* A subscription that is up or down.                                      *)
LEMMA UpDown ==
  ASSUME TypeOK, NEW o \in Rooms
  PROVE  /\ [link[o] EXCEPT !.up = FALSE, !.hints = <<>>] \in LinkType
         /\ [link[o] EXCEPT !.up = FALSE, !.hints = <<>>].cancelled = link[o].cancelled
         /\ [link[o] EXCEPT !.up = TRUE] \in LinkType
         /\ [link[o] EXCEPT !.up = TRUE].cancelled = link[o].cancelled
<1>1. link[o] \in LinkType /\ <<>> \in Seq(Revisions)
  BY DEF TypeOK
<1> QED
  BY <1>1 DEF LinkType

(* What is committed, published and lost concerns no thread and no lock.   *)
LEMMA BackboneKeeps ==
  ASSUME FeedInv,
         Commit \/ (\E r \in Revisions : PublishRevision(r) \/ PublishAgain(r))
                \/ (\E o \in Rooms : Disconnect(o))
  PROVE  FeedInv'
<1>1. CASE Commit
  <2>1. revision' \in Revisions /\ unsent' \subseteq Revisions
    BY <1>1, ThreadTyped DEF Commit, Bump, FeedInv, TypeOK, Revisions
  <2> QED
    BY <1>1, <2>1, StillKeeps DEF Commit, hubState, FeedInv, TypeOK
<1>2. ASSUME NEW r \in Revisions, PublishRevision(r) PROVE FeedInv'
  <2>1. /\ link' \in [Rooms -> LinkType] /\ unsent' \subseteq Revisions
        /\ \A o \in Rooms : link'[o].cancelled = link[o].cancelled
    BY <1>2, ReceivedKeeps DEF PublishRevision, FeedInv, TypeOK
  <2> QED
    BY <1>2, <2>1, StillKeeps DEF PublishRevision, hubState, FeedInv, TypeOK
<1>3. ASSUME NEW r \in Revisions, PublishAgain(r) PROVE FeedInv'
  <2>1. /\ link' \in [Rooms -> LinkType]
        /\ \A o \in Rooms : link'[o].cancelled = link[o].cancelled
    BY <1>3, ReceivedKeeps DEF PublishAgain, FeedInv
  <2>2. faults' \in 0 .. MaxFaults
    BY <1>3, FeedBoundsAssumption DEF PublishAgain, Fault, FeedInv, TypeOK
  <2> QED
    BY <1>3, <2>1, <2>2, StillKeeps DEF PublishAgain, hubState, db, FeedInv, TypeOK
<1>4. ASSUME NEW o \in Rooms, Disconnect(o) PROVE FeedInv'
  <2>1. link' = [link EXCEPT ![o] = [link[o] EXCEPT !.up = FALSE, !.hints = <<>>]]
    BY <1>4 DEF Disconnect
  <2>2. /\ link' \in [Rooms -> LinkType]
        /\ \A p \in Rooms : link'[p].cancelled = link[p].cancelled
    BY <2>1, UpDown, LinkKeeps DEF FeedInv
  <2>3. faults' \in 0 .. MaxFaults
    BY <1>4, FeedBoundsAssumption DEF Disconnect, Fault, FeedInv, TypeOK
  <2> QED
    BY <1>4, <2>2, <2>3, StillKeeps DEF Disconnect, hubState, db, FeedInv, TypeOK
<1> QED
  BY <1>1, <1>2, <1>3, <1>4

-----------------------------------------------------------------------------
(* The thread of a subscription.                                           *)

(* A subscription ends only when it is cancelled, which the hub's is not.  *)
LEMMA SubscriptionKeeps ==
  ASSUME FeedInv, NEW o \in Rooms, Subscription(o)
  PROVE  FeedInv'
<1>1. o \in Threads /\ o \notin Sockets /\ link[o] \in LinkType
  BY SocketsAssumption DEF Threads, FeedInv, TypeOK
<1>2. CASE ReceiveHint(o)
  <2>1. /\ Tail(link[o].hints) \in Seq(Revisions)
        /\ Head(link[o].hints) \in 0 .. MaxRevision
    <3>1. link[o].hints \in Seq(Revisions) /\ link[o].hints # <<>>
      BY <1>1, <1>2 DEF ReceiveHint, LinkType
    <3>2. Head(link[o].hints) \in Revisions /\ Tail(link[o].hints) \in Seq(Revisions)
      BY <3>1
    <3> QED
      BY <3>2, ThreadTyped DEF Revisions
  <2> DEFINE n == [link[o] EXCEPT !.hints = Tail(@)]
  <2>2. n \in LinkType /\ n.cancelled = link[o].cancelled
    BY <1>1, <2>1 DEF LinkType
  <2>3. /\ link' \in [Rooms -> LinkType]
        /\ \A p \in Rooms : link'[p].cancelled = link[p].cancelled
    <3>1. link' = [link EXCEPT ![o] = n]
      BY <1>2 DEF ReceiveHint
    <3> HIDE DEF n
    <3> QED
      BY <2>2, <3>1, LinkKeeps DEF FeedInv
  <2>4. Moved(o) /\ th'[o].at = "check" /\ th'[o].then = "wait" /\ th'[o].to = NoSocket
    BY <1>1, <1>2, <2>1, CallMoves DEF ReceiveHint, FeedInv
  <2>5. Runner(th'[o]) /\ th[o].at = "wait"
    BY <1>2, <2>4 DEF Runner, Calls, Offers, ReceiveHint, At
  <2>6. TypeOK'
    BY <1>2, <2>3, <2>4 DEF ReceiveHint, db, hubState, Moved, FeedInv, TypeOK
  <2> QED
    BY <1>1, <1>2, <2>3, <2>4, <2>5, <2>6, QuietKeeps DEF ReceiveHint, hubState
<1>3. CASE Resubscribe(o)
  <2>1. /\ link' \in [Rooms -> LinkType]
        /\ \A p \in Rooms : link'[p].cancelled = link[p].cancelled
    <3>1. link' = [link EXCEPT ![o] = [link[o] EXCEPT !.up = TRUE]]
      BY <1>3 DEF Resubscribe
    <3> QED
      BY <3>1, UpDown, LinkKeeps DEF FeedInv
  <2>2. Moved(o) /\ th'[o].at = "check" /\ th'[o].then = "wait" /\ th'[o].to = NoSocket
    <3>1. 0 \in 0 .. MaxRevision
      BY ThreadTyped
    <3> QED
      BY <1>1, <1>3, <3>1, CallMoves DEF Resubscribe, FeedInv
  <2>3. Runner(th'[o]) /\ th[o].at = "wait"
    BY <1>3, <2>2 DEF Runner, Calls, Offers, Resubscribe, At
  <2>4. TypeOK'
    BY <1>3, <2>1, <2>2 DEF Resubscribe, db, hubState, Moved, FeedInv, TypeOK
  <2> QED
    BY <1>1, <1>3, <2>1, <2>2, <2>3, <2>4, QuietKeeps DEF Resubscribe, hubState
<1>4. CASE EndSubscription(o)
  <2>1. /\ link' \in [Rooms -> LinkType]
        /\ \A p \in Rooms : link'[p].cancelled = link[p].cancelled
    <3>1. link' = [link EXCEPT ![o] = [link[o] EXCEPT !.up = FALSE, !.hints = <<>>]]
      BY <1>4 DEF EndSubscription
    <3> QED
      BY <3>1, UpDown, LinkKeeps DEF FeedInv
  <2>2. Moved(o) /\ th'[o].at = "closed" /\ th'[o].to = NoSocket
    BY <1>1, <1>4, GotoMoves DEF EndSubscription, FeedInv, Places
  <2>3. Runner(th'[o]) /\ th[o].at = "wait" /\ o # hub
    BY <1>1, <1>4, <2>2 DEF Runner, Calls, Offers, EndSubscription, At, FeedInv, Membership, Rooms
  <2>4. TypeOK'
    BY <1>4, <2>1, <2>2 DEF EndSubscription, db, hubState, Moved, FeedInv, TypeOK
  <2> QED
    BY <1>1, <1>4, <2>1, <2>2, <2>3, <2>4, QuietKeeps DEF EndSubscription, hubState
<1> QED
  BY <1>2, <1>3, <1>4 DEF Subscription

-----------------------------------------------------------------------------
(* Hub.reconcile.                                                          *)

(* A thread that becomes y.                                                *)
LEMMA BecomesMoves ==
  ASSUME TypeOK, NEW t \in Threads, NEW y \in ThreadType, th' = [th EXCEPT ![t] = y]
  PROVE  Moved(t) /\ th'[t] = y
BY DEF TypeOK, Moved

(* A call returns to where it was made.                                    *)
LEMMA ReturnMoves ==
  ASSUME TypeOK, NEW t \in Threads, Return(t)
  PROVE  Moved(t) /\ th'[t].at = th[t].then /\ Offers(th'[t])
<1>1. th[t].then \in Places
  BY DEF TypeOK, ThreadType, Places, Idle, Served
<1> QED
  BY <1>1, GotoMoves DEF Return, Offers

(* What reconcile does is done by the thread that calls it, and nobody is  *)
(* dropped from the hub by it.                                             *)
LEMMA ReconcileKeeps ==
  ASSUME FeedInv, NEW t \in Threads, Reconcile(t)
  PROVE  FeedInv'
<1>1. TypeOK /\ th[t] \in ThreadType /\ Offers(th[t]) /\ hub \in 0 .. MaxRooms
  BY ThreadTyped DEF FeedInv, Handler, Runner, Threads, TypeOK
<1>2. CASE CheckRevision(t)
  <2>1. Moved(t) /\ Offers(th'[t]) /\ (th'[t].at = th[t].then \/
          (th'[t].at \in Calls /\ th'[t].then = th[t].then))
    <3>1. CASE Stale(t)
      BY <1>1, <1>2, <3>1, ReturnMoves DEF CheckRevision
    <3>2. CASE ~Stale(t)
      <4> DEFINE y == [th[t] EXCEPT !.at = "lock", !.room = hub]
      <4>1. /\ y \in ThreadType /\ y.at = "lock" /\ y.then = th[t].then /\ y.to = th[t].to
        BY <1>1 DEF ThreadType, Calls
      <4>2. th' = [th EXCEPT ![t] = y]
        BY <1>2, <3>2 DEF CheckRevision
      <4>3. th[t].to = NoSocket
        BY <1>1, <1>2 DEF CheckRevision, At, Offers
      <4> HIDE DEF y
      <4> QED
        BY <1>1, <4>1, <4>2, <4>3, BecomesMoves DEF Offers, Calls
    <3> QED
      BY <3>1, <3>2
  <2>2. TypeOK'
    BY <1>1, <1>2, <2>1 DEF CheckRevision, db, hubState, Moved, TypeOK
  <2> QED
    BY <1>2, <2>1, <2>2, CallKeeps DEF CheckRevision, hubState, At, Calls
<1>3. CASE LockReconcile(t)
  <2>1. Moved(t) /\ Offers(th'[t]) /\ (th'[t].at = th[t].then \/
          (th'[t].at \in Calls /\ th'[t].then = th[t].then))
    <3>1. CASE Stale(t)
      BY <1>1, <1>3, <3>1, ReturnMoves DEF LockReconcile
    <3>2. CASE ~Stale(t)
      <4> DEFINE y == [th[t] EXCEPT !.at = "load", !.holds = TRUE, !.min = 0, !.force = FALSE]
      <4>1. /\ y \in ThreadType /\ y.at = "load" /\ y.then = th[t].then /\ y.to = th[t].to
        <5>1. 0 \in 0 .. MaxRevision
          BY ThreadTyped
        <5> QED
          BY <1>1, <5>1 DEF ThreadType, Calls
      <4>2. th' = [th EXCEPT ![t] = y]
        BY <1>3, <3>2 DEF LockReconcile
      <4>3. th[t].to = NoSocket
        BY <1>1, <1>3 DEF LockReconcile, At, Offers
      <4> HIDE DEF y
      <4> QED
        BY <1>1, <4>1, <4>2, <4>3, BecomesMoves DEF Offers, Calls
    <3> QED
      BY <3>1, <3>2
  <2>2. TypeOK'
    BY <1>1, <1>3, <2>1 DEF LockReconcile, db, hubState, Moved, TypeOK
  <2> QED
    BY <1>3, <2>1, <2>2, CallKeeps DEF LockReconcile, hubState, At, Calls
<1>4. CASE LoadRoom(t)
  <2> DEFINE y == [th[t] EXCEPT !.at = "apply", !.got = revision]
  <2>1. y \in ThreadType /\ y.at = "apply" /\ y.then = th[t].then /\ y.to = th[t].to
    <3>1. revision \in 0 .. MaxRevision
      BY <1>1, ThreadTyped DEF TypeOK, Revisions
    <3> QED
      BY <1>1, <3>1 DEF ThreadType, Calls
  <2>2. th' = [th EXCEPT ![t] = y]
    BY <1>4 DEF LoadRoom
  <2>3. th[t].to = NoSocket
    BY <1>1, <1>4 DEF LoadRoom, At, Offers
  <2> HIDE DEF y
  <2>4. Moved(t) /\ Offers(th'[t]) /\ th'[t].at = "apply" /\ th'[t].then = th[t].then
    BY <1>1, <2>1, <2>2, <2>3, BecomesMoves DEF Offers
  <2>5. TypeOK'
    BY <1>1, <1>4, <2>4 DEF LoadRoom, db, hubState, Moved, TypeOK
  <2> QED
    BY <1>4, <2>4, <2>5, CallKeeps DEF LoadRoom, hubState, At, Calls
<1>5. CASE ApplySnapshot(t)
  <2>1. Moved(t) /\ Offers(th'[t]) /\ (th'[t].at = th[t].then \/
          (th'[t].at \in Calls /\ th'[t].then = th[t].then))
    <3>1. CASE Return(t)
      BY <1>1, <3>1, ReturnMoves
    <3>2. CASE ~Return(t)
      <4> DEFINE y == [th[t] EXCEPT !.at = "deliver", !.todo = room[hub].consumers]
      <4>1. hub \in Rooms
        BY <1>1, <1>5, <3>2 DEF ApplySnapshot, Rooms
      <4>2. /\ y \in ThreadType /\ y.at = "deliver" /\ y.then = th[t].then /\ y.to = th[t].to
        BY <1>1, <4>1 DEF ThreadType, Calls, TypeOK
      <4>3. th' = [th EXCEPT ![t] = y]
        BY <1>5, <3>2 DEF ApplySnapshot
      <4>4. th[t].to = NoSocket
        BY <1>1, <1>5 DEF ApplySnapshot, At, Offers
      <4> HIDE DEF y
      <4> QED
        BY <1>1, <4>2, <4>3, <4>4, BecomesMoves DEF Offers, Calls
    <3> QED
      BY <3>1, <3>2
  <2>2. /\ room' \in [Rooms -> [revision : 0 .. MaxRevision, consumers : SUBSET Sockets]]
        /\ \A o \in Rooms : room'[o].consumers = room[o].consumers
    <3>1. th[t].got \in 0 .. MaxRevision
      BY <1>1 DEF ThreadType
    <3>2. \/ room' = room
          \/ /\ hub \in Rooms
             /\ room' = [room EXCEPT ![hub] = [room[hub] EXCEPT !.revision = th[t].got]]
      BY <1>1, <1>5 DEF ApplySnapshot, Rooms
    <3>3. room \in [Rooms -> [revision : 0 .. MaxRevision, consumers : SUBSET Sockets]]
      BY <1>1 DEF TypeOK
    <3>4. CASE room' = room
      BY <3>3, <3>4
    <3>5. CASE /\ hub \in Rooms
               /\ room' = [room EXCEPT ![hub] = [room[hub] EXCEPT !.revision = th[t].got]]
      <4> PICK o \in Rooms : o = hub
        BY <3>5
      <4> PICK r : r = [room[o] EXCEPT !.revision = th[t].got]
        OBVIOUS
      <4>1. /\ r \in [revision : 0 .. MaxRevision, consumers : SUBSET Sockets]
            /\ r.consumers = room[o].consumers
        BY <3>1, <3>3
      <4>2. room' = [room EXCEPT ![o] = r]
        BY <3>5
      <4> QED
        BY <3>3, <4>1, <4>2
    <3> QED
      BY <3>2, <3>4, <3>5
  <2>3. missed' \in BOOLEAN
    BY <1>1, <1>5 DEF ApplySnapshot, TypeOK
  <2>4. TypeOK'
    BY <1>1, <1>5, <2>1, <2>2, <2>3 DEF ApplySnapshot, db, Moved, TypeOK
  <2> QED
    BY <1>5, <2>1, <2>2, <2>4, CallKeeps DEF ApplySnapshot, At, Calls
<1>6. CASE Deliver(t)
  <2>1. CASE th[t].todo = {} /\ Return(t) /\ UNCHANGED queue
    <3>1. Moved(t) /\ Offers(th'[t]) /\ th'[t].at = th[t].then
      BY <1>1, <2>1, ReturnMoves
    <3>2. TypeOK'
      BY <1>1, <1>6, <2>1, <3>1 DEF Deliver, db, hubState, Moved, TypeOK
    <3> QED
      BY <1>6, <3>1, <3>2, CallKeeps DEF Deliver, hubState, At, Calls
  <2>2. ASSUME NEW s \in th[t].todo,
               queue' = [queue EXCEPT ![s] = IF @ = 0 THEN th[t].got ELSE 0],
               IF queue[s] = 0 THEN th' = [th EXCEPT ![t].todo = @ \ {s}]
               ELSE th' = [th EXCEPT ![t].at = "offer", ![t].to = s, ![t].todo = @ \ {s}]
        PROVE  FeedInv'
    <3> DEFINE y == IF queue[s] = 0 THEN [th[t] EXCEPT !.todo = @ \ {s}]
                    ELSE [th[t] EXCEPT !.at = "offer", !.to = s, !.todo = @ \ {s}]
    <3>1. s \in Sockets /\ th[t].at = "deliver" /\ th[t].to = NoSocket
      BY <1>1, <1>6 DEF ThreadType, Deliver, At, Offers
    <3>2. y \in ThreadType /\ y.at \in {"deliver", "offer"} /\ y.then = th[t].then /\ Offers(y)
      BY <1>1, <3>1 DEF ThreadType, Calls, Offers
    <3>3. th' = [th EXCEPT ![t] = y]
      BY <2>2
    <3> HIDE DEF y
    <3>4. /\ Moved(t) /\ Offers(th'[t]) /\ th'[t].at \in {"deliver", "offer"}
          /\ th'[t].then = th[t].then
      BY <1>1, <3>2, <3>3, BecomesMoves
    <3>5. queue' \in [Sockets -> 0 .. MaxRevision]
      <4>1. th[t].got \in 0 .. MaxRevision /\ 0 \in 0 .. MaxRevision
        BY <1>1, ThreadTyped DEF ThreadType
      <4> QED
        BY <1>1, <2>2, <4>1 DEF TypeOK
    <3>6. TypeOK'
      BY <1>1, <1>6, <3>4, <3>5 DEF Deliver, db, hubState, Moved, TypeOK
    <3> QED
      BY <1>6, <3>1, <3>4, <3>6, CallKeeps DEF Deliver, hubState, Calls
  <2> QED
    BY <1>6, <2>1, <2>2 DEF Deliver
<1>7. CASE OfferAgain(t)
  <2> DEFINE y == [th[t] EXCEPT !.at = "deliver", !.to = NoSocket]
  <2>1. y \in ThreadType /\ y.at = "deliver" /\ y.then = th[t].then /\ Offers(y)
    BY <1>1 DEF ThreadType, Calls, Offers
  <2>2. th' = [th EXCEPT ![t] = y]
    BY <1>7 DEF OfferAgain
  <2> HIDE DEF y
  <2>3. Moved(t) /\ Offers(th'[t]) /\ th'[t].at = "deliver" /\ th'[t].then = th[t].then
    BY <1>1, <2>1, <2>2, BecomesMoves
  <2>4. queue' \in [Sockets -> 0 .. MaxRevision]
    <3>1. th[t].got \in 0 .. MaxRevision
      BY <1>1 DEF ThreadType
    <3> QED
      BY <1>1, <1>7, <3>1 DEF OfferAgain, TypeOK
  <2>5. TypeOK'
    BY <1>1, <1>7, <2>3, <2>4 DEF OfferAgain, db, hubState, Moved, TypeOK
  <2> QED
    BY <1>7, <2>3, <2>5, CallKeeps DEF OfferAgain, hubState, At, Calls
<1> QED
  BY <1>2, <1>3, <1>4, <1>5, <1>6, <1>7 DEF Reconcile

(* A load that fails ends the setup of a socket, or is ignored.            *)
LEMMA LoadFailsKeeps ==
  ASSUME FeedInv, NEW t \in Threads, LoadFails(t)
  PROVE  FeedInv'
<1>1. TypeOK /\ th[t] \in ThreadType
  BY DEF FeedInv, TypeOK
<1>2. Failed(t) \in Places
  BY <1>1 DEF Failed, ThreadType, Places, Idle, Served
<1>3. Moved(t) /\ Offers(th'[t]) /\ th'[t].at = Failed(t)
  BY <1>1, <1>2, GotoMoves DEF LoadFails, Offers
<1>4. faults' \in 0 .. MaxFaults /\ missed' \in BOOLEAN
  BY <1>1, FeedBoundsAssumption DEF LoadFails, Fault, TypeOK
<1>5. TypeOK'
  BY <1>1, <1>3, <1>4 DEF LoadFails, db, hubState, Moved, TypeOK
<1> QED
  BY <1>3, <1>5, CallKeeps DEF LoadFails, hubState, At, Calls

-----------------------------------------------------------------------------
(* The handler of a socket.                                                *)

(* What the handler of a socket that is served does, but for its release,  *)
(* leaves the room to it.                                                  *)
LEMMA ServeKeeps ==
  ASSUME FeedInv, NEW s \in Sockets,
         OpenConnection(s) \/ OpenFails(s) \/ ShowFrame(s) \/ Hangup(s) \/ CloseLease(s)
  PROVE  FeedInv'
<1>1. /\ TypeOK /\ s \in Threads /\ s \notin Rooms /\ 0 \in 0 .. MaxRevision
      /\ Offers(th[s])
  BY SocketsAssumption, ThreadTyped DEF FeedInv, Threads, Handler
<1>2. /\ hub' = hub /\ made' = made /\ mu' = mu /\ room' = room /\ link' = link
      /\ missed' = missed
  BY DEF OpenConnection, OpenFails, ShowFrame, Hangup, CloseLease, hubState
<1>3. /\ revision' \in Revisions /\ unsent' \subseteq Revisions
      /\ faults' \in 0 .. MaxFaults
      /\ queue' \in [Sockets -> 0 .. MaxRevision]
      /\ client' \in [Sockets -> [last : 0 .. MaxRevision, initial : BOOLEAN]]
  <2>1. Bump => revision' \in Revisions /\ unsent' \subseteq Revisions
    BY <1>1, ThreadTyped DEF Bump, TypeOK, Revisions
  <2>2. Fault => faults' \in 0 .. MaxFaults
    BY <1>1, FeedBoundsAssumption DEF Fault, TypeOK
  <2>3. CASE OpenConnection(s) \/ CloseLease(s)
    BY <1>1, <2>1, <2>3 DEF OpenConnection, CloseLease, db, TypeOK
  <2>4. CASE OpenFails(s) \/ Hangup(s)
    BY <1>1, <2>2, <2>4 DEF OpenFails, Hangup, db, TypeOK
  <2>5. CASE ShowFrame(s)
    <3>1. [last |-> queue[s], initial |-> FALSE] \in [last : 0 .. MaxRevision, initial : BOOLEAN]
      BY <1>1 DEF TypeOK
    <3> QED
      BY <1>1, <2>5, <3>1 DEF ShowFrame, db, TypeOK
  <2> QED
    BY <2>3, <2>4, <2>5
<1>4. /\ Moved(s) /\ Offers(th'[s])
      /\ \/ th'[s].at = "check" /\ th'[s].then = "serve"
         \/ th'[s].at \in {"release", "closeLease", "serve"}
  <2>1. CASE OpenConnection(s)
    BY <1>1, <2>1, CallMoves DEF OpenConnection, Offers
  <2>2. CASE OpenFails(s)
    BY <1>1, <2>2, GotoMoves DEF OpenFails, Offers, Places, Served
  <2>3. CASE ShowFrame(s) /\ Gap(s)
    BY <1>1, <2>3, GotoMoves DEF ShowFrame, Offers, Places, Served
  <2>4. CASE ShowFrame(s) /\ ~Gap(s)
    BY <1>1, <2>4 DEF ShowFrame, At, Moved, TypeOK
  <2>5. CASE Hangup(s)
    BY <1>1, <2>5, GotoMoves DEF Hangup, Offers, Places, Served
  <2>6. CASE CloseLease(s)
    BY <1>1, <2>6, GotoMoves DEF CloseLease, Offers, Places, Served
  <2> QED
    BY <2>1, <2>2, <2>3, <2>4, <2>5, <2>6
<1>5. TypeOK'
  BY <1>1, <1>2, <1>3, <1>4 DEF Moved, TypeOK
<1>6. th[s].at \in {"open", "serve", "closeLease"}
  BY DEF OpenConnection, OpenFails, ShowFrame, Hangup, CloseLease, At
<1>7. Handler(th'[s]) /\ Acquired(s) /\ Acquired(s)' /\ ~At(s, "subscribe")
  BY <1>4, <1>6 DEF Handler, Acquired, At, Calls, Served
<1> QED
  BY <1>1, <1>2, <1>4, <1>5, <1>7, QuietKeeps

(* A socket that finds a room in the hub becomes a consumer of it.         *)
LEMMA AcquireKeeps ==
  ASSUME FeedInv, NEW s \in Sockets, AcquireRoom(s)
  PROVE  FeedInv'
<1>1. /\ TypeOK /\ s \in Threads /\ s \notin Rooms /\ hub \in Rooms /\ mu = NoSocket
      /\ room[hub] \in [revision : 0 .. MaxRevision, consumers : SUBSET Sockets]
  BY SocketsAssumption, ThreadTyped DEF FeedInv, Threads, TypeOK, Rooms, AcquireRoom, Unlocked
<1>2. /\ Moved(s) /\ th'[s].to = NoSocket
      /\ th'[s].at = "open" \/ (th'[s].at = "deliver" /\ th'[s].then = "open")
  <2>1. CASE room[hub].revision = 0
    BY <1>1, <2>1, GotoMoves DEF AcquireRoom, Places, Served
  <2>2. CASE room[hub].revision # 0
    <3> DEFINE y == [Thread EXCEPT !.at = "deliver", !.then = "open",
                                   !.got = room[hub].revision, !.todo = {s}]
    <3>1. y \in ThreadType /\ y.at = "deliver" /\ y.then = "open" /\ y.to = NoSocket
      BY <1>1, ThreadTyped DEF Thread, ThreadType, Calls
    <3>2. th' = [th EXCEPT ![s] = y]
      BY <2>2 DEF AcquireRoom
    <3> HIDE DEF y
    <3> QED
      BY <1>1, <3>1, <3>2, BecomesMoves
  <2> QED
    BY <2>1, <2>2
<1>3. Handler(th'[s]) /\ Acquired(s)' /\ ~At(s, "subscribe")'
  BY <1>2 DEF Handler, Offers, Acquired, At, Calls, Served
<1>4. \A u \in Threads : u # s => th'[u] = th[u]
  BY <1>2 DEF Moved
<1>5. /\ room' \in [Rooms -> [revision : 0 .. MaxRevision, consumers : SUBSET Sockets]]
      /\ room'[hub].consumers = room[hub].consumers \cup {s}
  BY <1>1 DEF AcquireRoom, TypeOK
<1>6. TypeOK'
  BY <1>1, <1>2, <1>5 DEF AcquireRoom, db, Moved, TypeOK
<1>7. Creation'
  BY <1>1, <1>3, <1>4 DEF AcquireRoom, FeedInv, Creation, Fresh, At, Threads
<1>8. Membership'
  BY <1>1, <1>3, <1>4, <1>5 DEF AcquireRoom, FeedInv, Membership, Acquired, Threads
<1>9. (\A u \in Sockets : Handler(th'[u])) /\ (\A o \in Rooms : Runner(th'[o]))
  BY <1>1, <1>3, <1>4 DEF FeedInv, Threads
<1> QED
  BY <1>6, <1>7, <1>8, <1>9 DEF FeedInv

(* A socket that finds none creates one and holds h.mu.                    *)
LEMMA CreateKeeps ==
  ASSUME FeedInv, NEW s \in Sockets, CreateRoom(s)
  PROVE  FeedInv'
<1>1. /\ TypeOK /\ s \in Threads /\ s \notin Rooms /\ hub = 0 /\ mu = NoSocket
      /\ made \in Nat /\ made < MaxRooms /\ made + 1 \in Rooms /\ made' = made + 1 /\ s # NoSocket
  BY SocketsAssumption, ThreadTyped DEF FeedInv, Threads, TypeOK, Rooms, CreateRoom, Unlocked
<1>2. Moved(s) /\ th'[s].to = NoSocket /\ th'[s].at = "subscribe"
  BY <1>1, GotoMoves DEF CreateRoom, Places, Idle
<1>3. Handler(th'[s]) /\ ~Acquired(s)' /\ ~Acquired(s)
  BY <1>1, <1>2 DEF Handler, Offers, Acquired, At, Calls, Idle, CreateRoom
<1>4. \A u \in Threads : u # s => th'[u] = th[u]
  BY <1>2 DEF Moved
<1>5. TypeOK'
  BY <1>1, <1>2, ThreadTyped DEF CreateRoom, db, Moved, TypeOK
<1>6. Creation'
  <2>1. \A o \in Rooms : o > made => Fresh(o)'
    BY <1>1, <1>4 DEF CreateRoom, FeedInv, Creation, Fresh, Threads
  <2>2. Fresh(made)'
    BY <1>1, <2>1
  <2>3. \A u \in Sockets : At(u, "subscribe")' <=> mu' = u
    BY <1>1, <1>2, <1>4, SocketsAssumption DEF CreateRoom, FeedInv, Creation, At, Threads
  <2> QED
    BY <1>1, <2>1, <2>2, <2>3 DEF CreateRoom, Creation, Rooms
<1>7. Membership'
  BY <1>1, <1>3, <1>4 DEF CreateRoom, FeedInv, Membership, Acquired, Threads
<1>8. (\A u \in Sockets : Handler(th'[u])) /\ (\A o \in Rooms : Runner(th'[o]))
  BY <1>1, <1>3, <1>4 DEF FeedInv, Threads
<1> QED
  BY <1>5, <1>6, <1>7, <1>8 DEF FeedInv

(* The socket that holds h.mu to subscribe has acquired no room, nor has   *)
(* any other, and its localRoom has no thread yet.                         *)
LEMMA Subscribing ==
  ASSUME FeedInv, NEW s \in Sockets, At(s, "subscribe")
  PROVE  /\ TypeOK /\ s \in Threads /\ s \notin Rooms /\ s # NoSocket
         /\ mu = s /\ hub = 0 /\ made \in Rooms /\ made \in Threads /\ made # s
         /\ Fresh(made) /\ MaxRooms \in Nat /\ made \in Nat
         /\ \A u \in Sockets : ~Acquired(u) /\ (u # s => ~At(u, "subscribe"))
<1>1. /\ TypeOK /\ s \in Threads /\ s \notin Rooms /\ s # NoSocket /\ mu = s
      /\ MaxRooms \in Nat /\ made \in 0 .. MaxRooms
  BY SocketsAssumption, ThreadTyped DEF FeedInv, TypeOK, Creation, Threads
<1>2. hub = 0 /\ made # 0 /\ Fresh(made)
  BY <1>1 DEF FeedInv, Creation
<1>3. made \in Rooms /\ made \in Threads /\ made # s /\ made \in Nat
  BY <1>1, <1>2 DEF Rooms, Threads
<1>4. \A u \in Sockets : ~Acquired(u) /\ (u # s => ~At(u, "subscribe"))
  BY <1>1, <1>2 DEF FeedInv, Creation, Membership
<1> QED
  BY <1>1, <1>2, <1>3, <1>4

(* The confirmed subscription runs for the room and its first consumer.    *)
LEMMA SubscribedKeeps ==
  ASSUME FeedInv, NEW s \in Sockets, Subscribed(s)
  PROVE  FeedInv'
<1>1. /\ TypeOK /\ s \in Threads /\ s \notin Rooms /\ s # NoSocket
      /\ mu = s /\ hub = 0 /\ made \in Rooms /\ made \in Threads /\ made # s
      /\ Fresh(made) /\ MaxRooms \in Nat /\ made \in Nat
      /\ \A u \in Sockets : ~Acquired(u) /\ (u # s => ~At(u, "subscribe"))
  BY Subscribing DEF Subscribed
<1> DEFINE x == [Thread EXCEPT !.at = "wait"]
           y == [Thread EXCEPT !.at = "check", !.force = TRUE, !.then = "open"]
<1>2. x \in ThreadType /\ x.at = "wait" /\ x.to = NoSocket
  BY ThreadTyped DEF Thread, ThreadType
<1>3. y \in ThreadType /\ y.at = "check" /\ y.then = "open" /\ y.to = NoSocket
  BY ThreadTyped DEF Thread, ThreadType, Calls
<1>4. th' = [th EXCEPT ![made] = x, ![s] = y]
  BY DEF Subscribed
<1> HIDE DEF x, y
<1>5. /\ th' \in [Threads -> ThreadType] /\ th'[made] = x /\ th'[s] = y
      /\ \A u \in Threads : u # s /\ u # made => th'[u] = th[u]
  BY <1>1, <1>2, <1>3, <1>4 DEF TypeOK
<1>6. hub' = made /\ made' = made /\ mu' = NoSocket
  BY DEF Subscribed
<1>7. /\ room' \in [Rooms -> [revision : 0 .. MaxRevision, consumers : SUBSET Sockets]]
      /\ room'[made].consumers = {s}
  BY <1>1 DEF Subscribed, TypeOK
<1>8. /\ link' \in [Rooms -> LinkType]
      /\ \A p \in Rooms : link'[p].cancelled = link[p].cancelled
  <2>1. link' = [link EXCEPT ![made] = [link[made] EXCEPT !.up = TRUE]]
    BY DEF Subscribed
  <2> QED
    BY <1>1, <2>1, UpDown, LinkKeeps
<1>9. TypeOK'
  <2>1. hub' \in 0 .. made' /\ made' \in 0 .. MaxRooms /\ mu' \in Sockets \cup {NoSocket}
    BY <1>1, <1>6 DEF TypeOK
  <2> QED
    BY <1>1, <1>5, <1>7, <1>8, <2>1 DEF Subscribed, db, TypeOK
<1>10. \A u \in Sockets : Handler(th'[u])
  <2>1. Handler(y)
    BY <1>3 DEF Handler, Offers, Calls
  <2> QED
    BY <1>1, <1>5, <2>1, SocketsAssumption DEF FeedInv, Threads
<1>11. \A o \in Rooms : Runner(th'[o])
  <2>1. Runner(x)
    BY <1>2 DEF Runner, Offers, Calls
  <2> QED
    BY <1>1, <1>5, <2>1 DEF FeedInv, Threads
<1>12. Creation'
  <2>1. \A u \in Sockets : ~At(u, "subscribe")' /\ mu' # u
    BY <1>1, <1>3, <1>5, <1>6, SocketsAssumption DEF At, Threads
  <2>2. ASSUME NEW o \in Rooms, o > made' PROVE Fresh(o)'
    <3>1. o # made /\ o # s /\ o \in Threads /\ o > made
      BY <1>1, <1>6, <2>2 DEF Threads
    <3> QED
      BY <1>5, <1>8, <3>1 DEF FeedInv, Creation, Fresh
  <2> QED
    BY <1>6, <2>1, <2>2 DEF Creation
<1>13. Membership'
  <2>1. \A u \in Sockets : Acquired(u)' <=> u = s
    BY <1>1, <1>3, <1>5, SocketsAssumption DEF Acquired, Threads
  <2> QED
    BY <1>1, <1>2, <1>5, <1>6, <1>7, <1>8, <2>1 DEF Membership, Fresh, Rooms
<1> QED
  BY <1>9, <1>10, <1>11, <1>12, <1>13 DEF FeedInv

(* A subscription that fails frees h.mu, and its number is not used again. *)
LEMMA SubscribeFailsKeeps ==
  ASSUME FeedInv, NEW s \in Sockets, SubscribeFails(s)
  PROVE  FeedInv'
<1>1. /\ TypeOK /\ s \in Threads /\ s \notin Rooms /\ s # NoSocket
      /\ mu = s /\ hub = 0 /\ made \in Rooms /\ made \in Threads /\ made # s
      /\ Fresh(made) /\ MaxRooms \in Nat /\ made \in Nat
      /\ \A u \in Sockets : ~Acquired(u) /\ (u # s => ~At(u, "subscribe"))
  BY Subscribing DEF SubscribeFails
<1>2. Moved(s) /\ th'[s].at = "out" /\ th'[s].to = NoSocket
  BY <1>1, GotoMoves DEF SubscribeFails, Places, Idle
<1>3. \A u \in Threads : u # s => th'[u] = th[u]
  BY <1>2 DEF Moved
<1>4. hub' = 0 /\ made' = made /\ mu' = NoSocket /\ link' = link
  BY <1>1 DEF SubscribeFails
<1>5. faults' \in 0 .. MaxFaults
  BY <1>1, FeedBoundsAssumption DEF SubscribeFails, Fault, TypeOK
<1>6. TypeOK'
  BY <1>1, <1>2, <1>5 DEF SubscribeFails, db, Moved, TypeOK
<1>7. (\A u \in Sockets : Handler(th'[u])) /\ (\A o \in Rooms : Runner(th'[o]))
  BY <1>1, <1>2, <1>3 DEF FeedInv, Handler, Offers, Calls, Idle, Threads
<1>8. Creation'
  BY <1>1, <1>2, <1>3, <1>4, SocketsAssumption DEF FeedInv, Creation, Fresh, At, Threads
<1>9. Membership'
  BY <1>1, <1>2, <1>3, <1>4 DEF Membership, Acquired, Threads
<1> QED
  BY <1>6, <1>7, <1>8, <1>9 DEF FeedInv

(* The thread of an abandoned subscription serves no room of the hub.      *)
LEMMA AbandonedKeeps ==
  ASSUME FeedInv, NEW s \in Sockets, SubscriptionAbandoned(s)
  PROVE  FeedInv'
<1>1. /\ TypeOK /\ s \in Threads /\ s \notin Rooms /\ s # NoSocket
      /\ mu = s /\ hub = 0 /\ made \in Rooms /\ made \in Threads /\ made # s
      /\ Fresh(made) /\ MaxRooms \in Nat /\ made \in Nat
      /\ \A u \in Sockets : ~Acquired(u) /\ (u # s => ~At(u, "subscribe"))
  BY Subscribing DEF SubscriptionAbandoned
<1> DEFINE x == [Thread EXCEPT !.at = "wait"]
<1>2. x \in ThreadType /\ x.at = "wait" /\ x.to = NoSocket
  BY ThreadTyped DEF Thread, ThreadType
<1>3. Thread \in ThreadType /\ Thread.at = "out" /\ Thread.to = NoSocket
  BY ThreadTyped DEF Thread
<1>4. th' = [th EXCEPT ![made] = x, ![s] = Thread]
  BY DEF SubscriptionAbandoned
<1> HIDE DEF x
<1>5. /\ th' \in [Threads -> ThreadType] /\ th'[made] = x /\ th'[s] = Thread
      /\ \A u \in Threads : u # s /\ u # made => th'[u] = th[u]
  BY <1>1, <1>2, <1>3, <1>4 DEF TypeOK
<1>6. hub' = 0 /\ made' = made /\ mu' = NoSocket
  BY <1>1 DEF SubscriptionAbandoned
<1>7. /\ link' \in [Rooms -> LinkType]
      /\ \A p \in Rooms : p # made => link'[p] = link[p]
  <2> DEFINE n == [link[made] EXCEPT !.up = TRUE, !.cancelled = {"room"}]
  <2>1. n \in LinkType
    <3>1. link[made] \in LinkType
      BY <1>1 DEF TypeOK
    <3> QED
      BY <3>1 DEF LinkType
  <2>2. link' = [link EXCEPT ![made] = n]
    BY <1>1 DEF SubscriptionAbandoned, TypeOK
  <2> HIDE DEF n
  <2> QED
    BY <1>1, <2>1, <2>2 DEF TypeOK
<1>8. faults' \in 0 .. MaxFaults
  BY <1>1, FeedBoundsAssumption DEF SubscriptionAbandoned, Fault, TypeOK
<1>9. TypeOK'
  BY <1>1, <1>5, <1>6, <1>7, <1>8 DEF SubscriptionAbandoned, db, TypeOK
<1>10. \A u \in Sockets : Handler(th'[u])
  <2>1. Handler(Thread)
    BY <1>3 DEF Handler, Offers, Calls, Idle
  <2> QED
    BY <1>1, <1>5, <2>1, SocketsAssumption DEF FeedInv, Threads
<1>11. \A o \in Rooms : Runner(th'[o])
  <2>1. Runner(x)
    BY <1>2 DEF Runner, Offers, Calls
  <2> QED
    BY <1>1, <1>5, <2>1 DEF FeedInv, Threads
<1>12. Creation'
  <2>1. \A u \in Sockets : ~At(u, "subscribe")' /\ mu' # u
    BY <1>1, <1>3, <1>5, <1>6, SocketsAssumption DEF At, Threads
  <2>2. ASSUME NEW o \in Rooms, o > made' PROVE Fresh(o)'
    <3>1. o # made /\ o # s /\ o \in Threads /\ o > made
      BY <1>1, <1>6, <2>2 DEF Threads
    <3> QED
      BY <1>5, <1>7, <3>1 DEF FeedInv, Creation, Fresh
  <2> QED
    BY <1>6, <2>1, <2>2 DEF Creation
<1>13. Membership'
  <2>1. \A u \in Sockets : ~Acquired(u)'
    BY <1>1, <1>3, <1>5, SocketsAssumption DEF Acquired, Threads
  <2> QED
    BY <1>6, <2>1 DEF Membership
<1> QED
  BY <1>9, <1>10, <1>11, <1>12, <1>13 DEF FeedInv

(* The queue of a socket that leaves is forgotten by every other thread,   *)
(* which goes on where it was.                                             *)
LEMMA ForgetMoves ==
  ASSUME FeedInv, NEW s \in Sockets, NEW t \in Threads, t # s
  PROVE  /\ Forget(s, t) \in ThreadType
         /\ Forget(s, t).then = th[t].then /\ Offers(Forget(s, t))
         /\ Forget(s, t).at = th[t].at
            \/ (th[t].at = "offer" /\ Forget(s, t).at = "deliver")
<1>1. th[t] \in ThreadType /\ Offers(th[t]) /\ s # NoSocket
  BY SocketsAssumption DEF FeedInv, Handler, Runner, Threads, TypeOK
<1>2. CASE th[t].to = s
  BY <1>1, <1>2 DEF Forget, ThreadType, Offers, Calls
<1>3. CASE th[t].to # s
  BY <1>1, <1>3 DEF Forget, ThreadType, Offers
<1> QED
  BY <1>2, <1>3

(* A socket that leaves is a consumer no more; the last one takes the room *)
(* out of the hub, and nobody else had acquired it.                        *)
LEMMA ReleaseKeeps ==
  ASSUME FeedInv, NEW s \in Sockets, Release(s)
  PROVE  FeedInv'
<1>1. /\ TypeOK /\ s \in Threads /\ s \notin Rooms /\ mu = NoSocket /\ th[s].at = "release"
      /\ hub # 0 /\ hub \in Rooms /\ s \in room[hub].consumers
  <2>1. Acquired(s)
    BY DEF Release, At, Acquired
  <2> QED
    BY <2>1, SocketsAssumption, ThreadTyped
       DEF FeedInv, Membership, Threads, TypeOK, Rooms, Release, Unlocked, At
<1>2. /\ room' \in [Rooms -> [revision : 0 .. MaxRevision, consumers : SUBSET Sockets]]
      /\ room'[hub].consumers = room[hub].consumers \ {s}
  BY <1>1 DEF Release, TypeOK
<1>3. /\ th' \in [Threads -> ThreadType]
      /\ th'[s].at = (IF LastConsumer(s) THEN "await" ELSE "out") /\ th'[s].to = NoSocket
      /\ \A t \in Threads : t # s => th'[t] = Forget(s, t)
  <2> DEFINE y == [Thread EXCEPT !.at = "await", !.room = hub]
             z == IF LastConsumer(s) THEN y ELSE Thread
  <2>1. /\ z \in ThreadType /\ z.at = (IF LastConsumer(s) THEN "await" ELSE "out")
        /\ z.to = NoSocket
    <3>1. hub \in 0 .. MaxRooms
      BY <1>1 DEF Rooms
    <3> QED
      BY <3>1, ThreadTyped DEF Thread, ThreadType, Idle
  <2> HIDE DEF z
  <2>2. /\ th' = [t \in Threads |-> th'[t]] /\ th'[s] = z
        /\ \A t \in Threads : t # s => th'[t] = Forget(s, t)
    <3>1. CASE LastConsumer(s)
      BY <1>1, <3>1 DEF Release, z
    <3>2. CASE ~LastConsumer(s)
      BY <1>1, <3>2 DEF Release, z
    <3> QED
      BY <3>1, <3>2
  <2>3. ASSUME NEW t \in Threads PROVE th'[t] \in ThreadType
    <3>1. CASE t = s
      BY <2>1, <2>2, <3>1
    <3>2. CASE t # s
      BY <2>2, <3>2, ForgetMoves
    <3> QED
      BY <3>1, <3>2
  <2> QED
    BY <2>1, <2>2, <2>3
<1>4. /\ hub' = (IF LastConsumer(s) THEN 0 ELSE hub) /\ made' = made /\ mu' = mu
      /\ link' \in [Rooms -> LinkType]
      /\ \A o \in Rooms : o # hub => link'[o] = link[o]
      /\ ~LastConsumer(s) => link' = link
  <2>1. CASE LastConsumer(s)
    <3> DEFINE n == [link[hub] EXCEPT !.cancelled = {"room", "subscription"}]
    <3>1. n \in LinkType
      <4> PICK l \in LinkType : l = link[hub]
        BY <1>1 DEF TypeOK
      <4> QED
        BY DEF LinkType
    <3>2. link' = [link EXCEPT ![hub].cancelled = {"room", "subscription"}]
      BY <2>1 DEF Release
    <3>3. link' = [link EXCEPT ![hub] = n]
      BY <3>2
    <3> HIDE DEF n
    <3> QED
      BY <1>1, <2>1, <3>1, <3>3 DEF Release, TypeOK
  <2>2. CASE ~LastConsumer(s)
    BY <2>2 DEF Release, FeedInv, TypeOK
  <2> QED
    BY <2>1, <2>2
<1>5. /\ queue' \in [Sockets -> 0 .. MaxRevision]
      /\ client' \in [Sockets -> [last : 0 .. MaxRevision, initial : BOOLEAN]]
  <2>1. 0 \in 0 .. MaxRevision
    BY ThreadTyped
  <2> QED
    BY <1>1, <2>1 DEF Release, TypeOK
<1>6. TypeOK'
  <2>1. hub' \in 0 .. made'
    BY <1>1, <1>4, ThreadTyped DEF TypeOK
  <2> QED
    BY <1>1, <1>2, <1>3, <1>4, <1>5, <2>1 DEF Release, db, TypeOK
<1>7. \A u \in Sockets : Handler(th'[u])
  <2>1. Handler(th'[s])
    BY <1>3 DEF Handler, Offers, Calls, Idle
  <2>2. ASSUME NEW u \in Sockets, u # s PROVE Handler(th'[u])
    BY <1>3, <2>2, ForgetMoves DEF FeedInv, Handler, Threads, Calls
  <2> QED
    BY <2>1, <2>2
<1>8. \A o \in Rooms : Runner(th'[o])
  <2>1. ASSUME NEW o \in Rooms PROVE Runner(th'[o])
    BY <1>1, <1>3, <2>1, ForgetMoves DEF FeedInv, Runner, Threads, Calls
  <2> QED
    BY <2>1
<1>9. \A u \in Sockets : u # s => (Acquired(u)' <=> Acquired(u))
                                  /\ (At(u, "subscribe")' <=> At(u, "subscribe"))
  <2>1. ASSUME NEW u \in Sockets, u # s
        PROVE  (Acquired(u)' <=> Acquired(u)) /\ (At(u, "subscribe")' <=> At(u, "subscribe"))
    BY <1>3, <2>1, ForgetMoves DEF Acquired, At, Threads
  <2> QED
    BY <2>1
<1>10. \A o \in Rooms : o # hub /\ Fresh(o) => Fresh(o)'
  <2>1. ASSUME NEW o \in Rooms, o # hub, Fresh(o) PROVE Fresh(o)'
    <3>1. th'[o].at = "out"
      BY <1>1, <1>3, <2>1, ForgetMoves DEF Fresh, Threads
    <3> QED
      BY <1>4, <2>1, <3>1 DEF Fresh
  <2> QED
    BY <2>1
<1>11. Creation'
  <2>1. ~At(s, "subscribe") /\ ~At(s, "subscribe")' /\ s # NoSocket
    BY <1>1, <1>3, SocketsAssumption DEF At
  <2>2. \A o \in Rooms : o > made => o # hub
    BY <1>1 DEF TypeOK
  <2> QED
    BY <1>1, <1>4, <1>9, <1>10, <2>1, <2>2 DEF FeedInv, Creation
<1>12. ~Acquired(s)'
  BY <1>3 DEF Acquired
<1>13. Membership'
  <2>1. CASE LastConsumer(s)
    BY <1>1, <1>4, <1>9, <1>12, <2>1 DEF FeedInv, Membership, LastConsumer
  <2>2. CASE ~LastConsumer(s)
    <3>1. th'[hub].at \notin {"out", "closed"}
      BY <1>1, <1>3, ForgetMoves DEF FeedInv, Membership, Threads
    <3>2. room'[hub].consumers # {}
      BY <1>1, <1>2, <2>2 DEF LastConsumer
    <3> QED
      BY <1>1, <1>2, <1>4, <1>9, <1>12, <2>2, <3>1, <3>2 DEF FeedInv, Membership
  <2> QED
    BY <2>1, <2>2
<1> QED
  BY <1>6, <1>7, <1>8, <1>11, <1>13 DEF FeedInv

(* A socket that waited for its subscription to end has left.              *)
LEMMA ClosedKeeps ==
  ASSUME FeedInv, NEW s \in Sockets, SubscriptionClosed(s)
  PROVE  FeedInv'
<1>1. TypeOK /\ s \in Threads /\ s \notin Rooms /\ th[s].at = "await"
  BY SocketsAssumption DEF FeedInv, Threads, SubscriptionClosed, At
<1>2. Moved(s) /\ th'[s].at = "out" /\ th'[s].to = NoSocket
  BY <1>1, GotoMoves DEF SubscriptionClosed, Places, Idle
<1>3. \A u \in Threads : u # s => th'[u] = th[u]
  BY <1>2 DEF Moved
<1>4. hub' = hub /\ made' = made /\ mu' = mu /\ room' = room /\ link' = link
  BY DEF SubscriptionClosed, hubState
<1>5. TypeOK'
  BY <1>1, <1>2 DEF SubscriptionClosed, db, hubState, Moved, TypeOK
<1>6. (\A u \in Sockets : Handler(th'[u])) /\ (\A o \in Rooms : Runner(th'[o]))
  BY <1>1, <1>2, <1>3 DEF FeedInv, Handler, Offers, Calls, Idle, Threads
<1>7. /\ made # 0 => made \in Rooms
      /\ hub # 0 => hub \in Rooms
  BY FeedBoundsAssumption DEF FeedInv, TypeOK, Rooms
<1>8. Creation'
  BY <1>1, <1>2, <1>3, <1>4, <1>7 DEF FeedInv, Creation, Fresh, At, Threads
<1>9. Membership'
  BY <1>1, <1>2, <1>3, <1>4, <1>7 DEF FeedInv, Membership, Acquired, Threads
<1> QED
  BY <1>5, <1>6, <1>8, <1>9 DEF FeedInv

-----------------------------------------------------------------------------
(* Nobody is connected when the server starts.                             *)
LEMMA FeedInitially == Init => FeedInv
<1> SUFFICES ASSUME Init PROVE FeedInv
  OBVIOUS
<1>1. Thread.at = "out" /\ Thread.to = NoSocket /\ \A t \in Threads : th[t] = Thread
  BY DEF Init, Thread
<1>2. TypeOK
  <2>1. 0 \in 0 .. MaxRooms /\ 0 \in 0 .. MaxRevision /\ 0 \in 0 .. MaxFaults /\ 1 \in Revisions
    BY FeedBoundsAssumption DEF Revisions
  <2>2. [up |-> FALSE, hints |-> <<>>, cancelled |-> {}] \in LinkType
    BY DEF LinkType
  <2>3. th \in [Threads -> ThreadType]
    BY ThreadTyped DEF Init
  <2> QED
    <3>1. room \in [Rooms -> [revision : 0 .. MaxRevision, consumers : SUBSET Sockets]]
      BY <2>1 DEF Init
    <3>2. /\ queue \in [Sockets -> 0 .. MaxRevision]
          /\ client \in [Sockets -> [last : 0 .. MaxRevision, initial : BOOLEAN]]
      BY <2>1 DEF Init
    <3>3. link \in [Rooms -> LinkType]
      BY <2>2 DEF Init
    <3> QED
      <4>1. /\ revision \in Revisions /\ unsent \subseteq Revisions
            /\ missed \in BOOLEAN /\ faults \in 0 .. MaxFaults
        BY <2>1 DEF Init
      <4>2. hub \in 0 .. made /\ made \in 0 .. MaxRooms /\ mu \in Sockets \cup {NoSocket}
        BY <2>1 DEF Init
      <4> QED
        BY <2>3, <3>1, <3>2, <3>3, <4>1, <4>2 DEF TypeOK
<1>3. \A t \in Threads : Handler(th[t]) /\ Runner(th[t])
  BY <1>1 DEF Handler, Runner, Offers, Calls, Idle
<1>4. Creation /\ Membership
  BY <1>1, SocketsAssumption DEF Init, Creation, Membership, Fresh, At, Acquired, Threads
<1> QED
  BY <1>2, <1>3, <1>4 DEF FeedInv, Threads

(* Every step of the server, Redis, PostgreSQL and the browsers keeps it.  *)
LEMMA FeedSteps == FeedInv /\ [Next]_vars => FeedInv'
<1> SUFFICES ASSUME FeedInv, [Next]_vars PROVE FeedInv'
  OBVIOUS
<1>1. CASE Commit
  BY <1>1, BackboneKeeps
<1>2. ASSUME NEW r \in Revisions, PublishRevision(r) \/ PublishAgain(r) PROVE FeedInv'
  BY <1>2, BackboneKeeps
<1>3. ASSUME NEW o \in Rooms, Disconnect(o) \/ Subscription(o) PROVE FeedInv'
  BY <1>3, BackboneKeeps, SubscriptionKeeps
<1>4. ASSUME NEW t \in Threads, Reconcile(t) \/ LoadFails(t) PROVE FeedInv'
  BY <1>4, ReconcileKeeps, LoadFailsKeeps
<1>5. ASSUME NEW s \in Sockets,
             \/ Setup(s) \/ Handle(s) \/ Hangup(s)
             \/ SubscribeFails(s) \/ SubscriptionAbandoned(s) \/ OpenFails(s)
      PROVE  FeedInv'
  BY <1>5, AcquireKeeps, CreateKeeps, SubscribedKeeps, ServeKeeps, ReleaseKeeps, ClosedKeeps,
     SubscribeFailsKeeps, AbandonedKeeps DEF Setup, Handle
<1>6. CASE UNCHANGED vars
  <2>1. TypeOK'
    BY <1>6 DEF vars, db, hubState, FeedInv, TypeOK
  <2> QED
    BY <1>6, <2>1, StillKeeps DEF vars, hubState
<1> QED
  BY <1>1, <1>2, <1>3, <1>4, <1>5, <1>6 DEF Next

(* The invariant of the hub, its subscriptions and its sockets: where the  *)
(* threads may stand, what they call from there, who holds h.mu to create  *)
(* a room and who has acquired it.                                         *)
THEOREM FeedInvariant == Spec => []FeedInv
BY FeedInitially, FeedSteps, PTL DEF Spec

(* The hub keeps a room only while it has a consumer (Acquire and release  *)
(* of hub.go), and every variable has its type.                            *)
THEOREM FeedTyped == Spec => []FeedTypeOK
<1>1. FeedInv => FeedTypeOK
  BY DEF FeedInv, TypeOK, Membership, FeedTypeOK
<1> QED
  BY <1>1, FeedInvariant, PTL

(* A socket that has acquired the room is a consumer of the hub's, whose   *)
(* subscription runs, in every order in which the others connect, leave,   *)
(* fail, time out and reconcile (Acquire, release and runSubscription of   *)
(* hub.go).                                                                *)
THEOREM SocketsStayServed == Spec => []ServedFromHub
<1>1. FeedInv => ServedFromHub
  BY DEF FeedInv, Membership, ServedFromHub, At
<1> QED
  BY <1>1, FeedInvariant, PTL
=============================================================================
