------------------------------ MODULE RoomFeed ------------------------------
(***************************************************************************)
(* How the committed revisions of one room reach the browsers connected to *)
(* one server: Redis hints, the hub with one subscription for the room     *)
(* while somebody is connected, a queue of one snapshot for each socket,   *)
(* and the client (internal/realtime, frontend/src/realtime.js).           *)
(*                                                                         *)
(* A snapshot is its revision.  Threads are the handlers of the sockets    *)
(* and, one for each localRoom, the goroutine of its subscription; th[t]   *)
(* is where a thread stands in its code and what it has in its variables.  *)
(* A step is what happens under h.mu at once, or one operation on a queue, *)
(* on the database or on Redis.                                            *)
(***************************************************************************)
EXTENDS Integers, Sequences

CONSTANTS
  Sockets,
  NoSocket,
  MaxRooms,      \* bound: how often the hub creates a localRoom
  MaxRevision,   \* bound: revisions of the room
  MaxFaults      \* bound: failures of Redis, PostgreSQL or the network, and hangups

Rooms == 1 .. MaxRooms
Revisions == 1 .. MaxRevision
Threads == Sockets \cup Rooms

ASSUME SocketsAssumption == NoSocket \notin Sockets /\ Sockets \cap Rooms = {}
ASSUME FeedBoundsAssumption ==
  {MaxRooms, MaxRevision} \subseteq Nat \ {0} /\ MaxFaults \in Nat

VARIABLES
  revision,   \* room_rooms.revision, committed
  unsent,     \* the revisions whose hint is still in the outbox
  hub,        \* h.rooms[roomID]: the current localRoom, 0 if there is none
  made,       \* how many localRooms were created; they are numbered
  room,       \* each localRoom: its revision and its consumers
  link,       \* each subscription: whether it is connected, its hints, and which of
              \* its contexts are cancelled, the room's or the subscription's own
  mu,         \* the socket that holds h.mu while it subscribes
  th,         \* the threads
  queue,      \* the snapshot in the queue of each socket, 0 if it is empty
  client,     \* what each browser has shown: lastRevision and initialFrame
  missed,     \* a hint was dropped because its load failed
  faults

db == <<revision, unsent>>
hubState == <<hub, made, room, mu>>
vars == <<db, hubState, link, th, queue, client, missed, faults>>

(* then: where a thread goes on after reconcile or Offer returns.          *)
Thread == [at |-> "out", then |-> "out", min |-> 0, force |-> FALSE, room |-> 0,
           holds |-> FALSE, got |-> 0, todo |-> {}, to |-> NoSocket]

Init ==
  /\ revision = 1 /\ unsent = {1}
  /\ hub = 0 /\ made = 0 /\ mu = NoSocket
  /\ room = [o \in Rooms |-> [revision |-> 0, consumers |-> {}]]
  /\ link = [o \in Rooms |-> [up |-> FALSE, hints |-> <<>>, cancelled |-> {}]]
  /\ th = [t \in Threads |-> Thread]
  /\ queue = [s \in Sockets |-> 0]
  /\ client = [s \in Sockets |-> [last |-> 0, initial |-> TRUE]]
  /\ missed = FALSE /\ faults = 0

At(t, place) == th[t].at = place
Goto(t, place) == th' = [th EXCEPT ![t] = [Thread EXCEPT !.at = place]]
Call(t, min, force, then) ==
  th' = [th EXCEPT ![t] = [Thread EXCEPT !.at = "check", !.min = min, !.force = force,
                                         !.then = then]]
Return(t) == Goto(t, th[t].then)

Fault == faults < MaxFaults /\ faults' = faults + 1

-----------------------------------------------------------------------------
(* PostgreSQL and Redis.                                                   *)

(* A revision is committed with its outbox row.                            *)
Bump ==
  /\ revision < MaxRevision
  /\ revision' = revision + 1
  /\ unsent' = unsent \cup {revision'}

Commit == Bump /\ UNCHANGED <<hubState, link, th, queue, client, missed, faults>>

(* The outbox publishes every revision, in any order, at least once; the   *)
(* subscriptions that are connected receive the hint.                      *)
Received(r) ==
  link' = [o \in Rooms |-> IF link[o].up THEN [link[o] EXCEPT !.hints = Append(@, r)] ELSE link[o]]

PublishRevision(r) ==
  /\ r \in unsent
  /\ unsent' = unsent \ {r}
  /\ Received(r)
  /\ UNCHANGED <<revision, hubState, th, queue, client, missed, faults>>

PublishAgain(r) ==
  /\ r <= revision /\ Fault
  /\ Received(r)
  /\ UNCHANGED <<db, hubState, th, queue, client, missed>>

(* The connection of a subscription breaks and its hints are lost.         *)
Disconnect(o) ==
  /\ link[o].up /\ Fault
  /\ link' = [link EXCEPT ![o].up = FALSE, ![o].hints = <<>>]
  /\ UNCHANGED <<db, hubState, th, queue, client, missed>>

-----------------------------------------------------------------------------
(* runSubscription: the thread of localRoom o.                             *)

ReceiveHint(o) ==
  /\ At(o, "wait") /\ "subscription" \notin link[o].cancelled
  /\ link[o].hints # <<>>
  /\ link' = [link EXCEPT ![o].hints = Tail(@)]
  /\ Call(o, Head(link[o].hints), FALSE, "wait")
  /\ UNCHANGED <<db, hubState, queue, client, missed, faults>>

ResubscribeQuietly(o) ==  \* mutant: the restored subscription is not announced
  /\ At(o, "wait") /\ "subscription" \notin link[o].cancelled
  /\ ~link[o].up
  /\ link' = [link EXCEPT ![o].up = TRUE]
  /\ UNCHANGED <<db, hubState, th, queue, client, missed, faults>>
Resubscribe(o) ==
  /\ At(o, "wait") /\ "subscription" \notin link[o].cancelled
  /\ ~link[o].up
  /\ link' = [link EXCEPT ![o].up = TRUE]
  /\ Call(o, 0, TRUE, "wait")
  /\ UNCHANGED <<db, hubState, queue, client, missed, faults>>

EndSubscription(o) ==
  /\ At(o, "wait") /\ "subscription" \in link[o].cancelled
  /\ link' = [link EXCEPT ![o].up = FALSE, ![o].hints = <<>>]
  /\ Goto(o, "closed")
  /\ UNCHANGED <<db, hubState, queue, client, missed, faults>>

-----------------------------------------------------------------------------
(* Hub.reconcile, called by any thread.                                    *)

Unlocked == mu = NoSocket
Stale(t) == hub = 0 \/ (~th[t].force /\ th[t].min <= room[hub].revision)

CheckRevision(t) ==
  /\ At(t, "check") /\ Unlocked
  /\ IF Stale(t) THEN Return(t)
     ELSE th' = [th EXCEPT ![t].at = "lock", ![t].room = hub]
  /\ UNCHANGED <<db, hubState, link, queue, client, missed, faults>>

(* reconcileMu, and the check again under h.mu; nobody who holds h.mu      *)
(* waits for a reconcileMu.                                                *)
LockReconcile(t) ==
  /\ At(t, "lock") /\ Unlocked
  /\ \A u \in Threads : ~(th[u].holds /\ th[u].room = th[t].room)
  /\ IF Stale(t) THEN Return(t)
     ELSE th' = [th EXCEPT ![t].at = "load", ![t].holds = TRUE,
                           ![t].min = 0, ![t].force = FALSE]
  /\ UNCHANGED <<db, hubState, link, queue, client, missed, faults>>

Cancelled(t) == t \in Rooms /\ "room" \in link[t].cancelled

LoadRoom(t) ==
  /\ At(t, "load") /\ ~Cancelled(t)
  /\ th' = [th EXCEPT ![t].at = "apply", ![t].got = revision]
  /\ UNCHANGED <<db, hubState, link, queue, client, missed, faults>>

(* A failed load ends the setup of a socket; the handler of a hint ignores *)
(* it, and the hint is gone.                                               *)
Failed(t) ==
  CASE th[t].then = "open" -> "release"
    [] th[t].then = "serve" -> "closeLease"
    [] OTHER -> th[t].then

LoadFailsHolding(t) ==  \* mutant: the error path keeps reconcileMu
  /\ At(t, "load")
  /\ Fault \/ (Cancelled(t) /\ UNCHANGED faults)
  /\ th' = [th EXCEPT ![t].at = Failed(t)]
  /\ missed' = (missed \/ t = hub)
  /\ UNCHANGED <<db, hubState, link, queue, client>>
LoadFails(t) ==
  /\ At(t, "load")
  /\ Fault \/ (Cancelled(t) /\ UNCHANGED faults)
  /\ Goto(t, Failed(t))
  /\ missed' = (missed \/ t = hub)
  /\ UNCHANGED <<db, hubState, link, queue, client>>

(* The revision of the room that is there now is raised, which need not be *)
(* the one whose reconcileMu the thread holds.                             *)
ApplySnapshot(t) ==
  /\ At(t, "apply") /\ Unlocked
  /\ IF hub = 0 \/ th[t].got <= room[hub].revision
     THEN Return(t) /\ UNCHANGED <<room, missed>>
     ELSE /\ room' = [room EXCEPT ![hub].revision = th[t].got]
          /\ missed' = (missed /\ th[t].got < revision)
          /\ th' = [th EXCEPT ![t].at = "deliver", ![t].todo = room[hub].consumers]
  /\ UNCHANGED <<db, hub, made, mu, link, queue, client, faults>>

(* The consumers of the snapshot, in any order.  snapshotQueue.Offer puts  *)
(* it into an empty queue; it evicts what it finds in a full one, and puts *)
(* the snapshot there if nobody else was faster.                           *)
Deliver(t) ==
  /\ At(t, "deliver")
  /\ \/ th[t].todo = {} /\ Return(t) /\ UNCHANGED queue
     \/ \E s \in th[t].todo :
          /\ queue' = [queue EXCEPT ![s] = IF @ = 0 THEN th[t].got ELSE 0]
          /\ IF queue[s] = 0 THEN th' = [th EXCEPT ![t].todo = @ \ {s}]
             ELSE th' = [th EXCEPT ![t].at = "offer", ![t].to = s, ![t].todo = @ \ {s}]
  /\ UNCHANGED <<db, hubState, link, client, missed, faults>>

OfferAgain(t) ==
  /\ At(t, "offer")
  /\ queue' = [queue EXCEPT ![th[t].to] = IF @ = 0 THEN th[t].got ELSE @]
  /\ th' = [th EXCEPT ![t].at = "deliver", ![t].to = NoSocket]
  /\ UNCHANGED <<db, hubState, link, client, missed, faults>>

Reconcile(t) ==
  \/ CheckRevision(t) \/ LockReconcile(t) \/ LoadRoom(t)
  \/ ApplySnapshot(t) \/ Deliver(t) \/ OfferAgain(t)

-----------------------------------------------------------------------------
(* The handler of a socket: ServeHTTP, Hub.Acquire, release.               *)

(* A room that is there hands out the snapshot it has, after h.mu is free. *)
AcquireRoom(s) ==
  /\ At(s, "out") /\ Unlocked /\ hub # 0
  /\ room' = [room EXCEPT ![hub].consumers = @ \cup {s}]
  /\ IF room[hub].revision = 0 THEN Goto(s, "open")
     ELSE th' = [th EXCEPT ![s] = [Thread EXCEPT !.at = "deliver", !.then = "open",
                                     !.got = room[hub].revision, !.todo = {s}]]
  /\ UNCHANGED <<db, hub, made, mu, link, queue, client, missed, faults>>

(* Otherwise the first socket subscribes, and holds h.mu meanwhile.        *)
CreateRoom(s) ==
  /\ At(s, "out") /\ Unlocked /\ hub = 0
  /\ made < MaxRooms
  /\ made' = made + 1 /\ mu' = s
  /\ Goto(s, "subscribe")
  /\ UNCHANGED <<db, hub, room, link, queue, client, missed, faults>>

Subscribed(s) ==
  /\ At(s, "subscribe")
  /\ hub' = made /\ mu' = NoSocket
  /\ room' = [room EXCEPT ![made].consumers = {s}]
  /\ link' = [link EXCEPT ![made].up = TRUE]
  /\ th' = [th EXCEPT ![made] = [Thread EXCEPT !.at = "wait"],
                      ![s] = [Thread EXCEPT !.at = "check", !.force = TRUE, !.then = "open"]]
  /\ UNCHANGED <<db, made, queue, client, missed, faults>>

SubscribeFails(s) ==
  /\ At(s, "subscribe") /\ Fault
  /\ mu' = NoSocket
  /\ Goto(s, "out")
  /\ UNCHANGED <<db, hub, made, room, link, queue, client, missed>>

(* When the time to subscribe is over just as the subscription is          *)
(* confirmed, only the context of the room is cancelled: the thread of the *)
(* subscription runs on, and all its loads fail.                           *)
SubscriptionAbandoned(s) ==
  /\ At(s, "subscribe") /\ Fault
  /\ mu' = NoSocket
  /\ link' = [link EXCEPT ![made].up = TRUE, ![made].cancelled = {"room"}]
  /\ th' = [th EXCEPT ![made] = [Thread EXCEPT !.at = "wait"], ![s] = Thread]
  /\ UNCHANGED <<db, hub, made, room, queue, client, missed>>

(* OpenConnection takes a revision when the player was absent.             *)
OpenConnection(s) ==
  /\ At(s, "open")
  /\ Bump \/ UNCHANGED db
  /\ Call(s, 0, TRUE, "serve")
  /\ UNCHANGED <<hubState, link, queue, client, missed, faults>>

OpenFails(s) ==
  /\ At(s, "open") /\ Fault
  /\ Goto(s, "release")
  /\ UNCHANGED <<db, hubState, link, queue, client, missed>>

(* The frame of a snapshot is written and read by the browser: it ignores  *)
(* what it has shown already and reconnects when it missed a revision.     *)
Gap(s) == ~client[s].initial /\ queue[s] > client[s].last + 1

ShowFrame(s) ==
  /\ At(s, "serve") /\ queue[s] # 0
  /\ queue' = [queue EXCEPT ![s] = 0]
  /\ IF queue[s] > client[s].last /\ ~Gap(s)
     THEN client' = [client EXCEPT ![s] = [last |-> queue[s], initial |-> FALSE]]
     ELSE UNCHANGED client
  /\ IF Gap(s) THEN Goto(s, "closeLease") ELSE UNCHANGED th
  /\ UNCHANGED <<db, hubState, link, missed, faults>>

(* The browser leaves, its session ends or the network fails.              *)
Hangup(s) ==
  /\ At(s, "serve") /\ Fault
  /\ Goto(s, "closeLease")
  /\ UNCHANGED <<db, hubState, link, queue, client, missed>>

(* CloseConnection takes a revision when the player is absent now.         *)
CloseLease(s) ==
  /\ At(s, "closeLease")
  /\ Bump \/ UNCHANGED db
  /\ Goto(s, "release")
  /\ UNCHANGED <<hubState, link, queue, client, missed, faults>>

AnyConsumer(s) == hub # 0  \* mutant: the first to leave closes the room
NobodyLeft(s) ==  \* mutant: counted before the consumer is deleted
  hub # 0 /\ room[hub].consumers = {}
LastConsumer(s) == hub # 0 /\ room[hub].consumers \subseteq {s}

(* The queue ends with its socket: nothing is offered to it any more, and  *)
(* the next socket of the browser has a new one.                           *)
Forget(s, t) ==
  IF th[t].to = s THEN [th[t] EXCEPT !.at = "deliver", !.to = NoSocket]
  ELSE [th[t] EXCEPT !.todo = @ \ {s}]

Release(s) ==
  /\ At(s, "release") /\ Unlocked
  /\ room' = [o \in Rooms |-> IF o = hub THEN [room[o] EXCEPT !.consumers = @ \ {s}] ELSE room[o]]
  /\ IF LastConsumer(s)
     THEN hub' = 0 /\ link' = [link EXCEPT ![hub].cancelled = {"room", "subscription"}]
     ELSE UNCHANGED <<hub, link>>
  /\ th' = [t \in Threads |->
       IF t # s THEN Forget(s, t)
       ELSE IF LastConsumer(s) THEN [Thread EXCEPT !.at = "await", !.room = hub]
       ELSE Thread]
  /\ queue' = [queue EXCEPT ![s] = 0]
  /\ client' = [client EXCEPT ![s].initial = TRUE]
  /\ UNCHANGED <<db, made, mu, missed, faults>>

(* subscription.Close waits for the thread of the subscription.            *)
SubscriptionClosed(s) ==
  /\ At(s, "await") /\ At(th[s].room, "closed")
  /\ Goto(s, "out")
  /\ UNCHANGED <<db, hubState, link, queue, client, missed, faults>>

Setup(s) == AcquireRoom(s) \/ CreateRoom(s)
Handle(s) ==
  \/ Subscribed(s) \/ OpenConnection(s) \/ ShowFrame(s) \/ CloseLease(s)
  \/ Release(s) \/ SubscriptionClosed(s)
Subscription(o) == ReceiveHint(o) \/ Resubscribe(o) \/ EndSubscription(o)

Next ==
  \/ Commit
  \/ \E r \in Revisions : PublishRevision(r) \/ PublishAgain(r)
  \/ \E o \in Rooms : Disconnect(o) \/ Subscription(o)
  \/ \E t \in Threads : Reconcile(t) \/ LoadFails(t)
  \/ \E s \in Sockets :
       \/ Setup(s) \/ Handle(s) \/ Hangup(s)
       \/ SubscribeFails(s) \/ SubscriptionAbandoned(s) \/ OpenFails(s)

Spec == Init /\ [][Next]_vars

(* Goroutines run on, what waits for Redis or PostgreSQL goes on, and the  *)
(* outbox publishes; nobody has to connect, stay or commit anything.       *)
Fairness ==
  /\ \A r \in Revisions : WF_vars(PublishRevision(r))
  /\ \A o \in Rooms : WF_vars(Subscription(o))
  /\ \A t \in Threads : WF_vars(Reconcile(t) \/ LoadFails(t))
  /\ \A s \in Sockets :
       WF_vars(Handle(s) \/ SubscribeFails(s) \/ SubscriptionAbandoned(s) \/ OpenFails(s))

FairSpec == Spec /\ Fairness

-----------------------------------------------------------------------------
(* The hub keeps a room only for its consumers.                            *)
FeedTypeOK ==
  /\ hub # 0 => room[hub].consumers # {}
  /\ revision \in Revisions /\ unsent \subseteq Revisions
  /\ hub \in 0 .. made /\ made \in 0 .. MaxRooms /\ mu \in Sockets \cup {NoSocket}
  /\ room \in [Rooms -> [revision : 0 .. MaxRevision, consumers : SUBSET Sockets]]
  /\ queue \in [Sockets -> 0 .. MaxRevision]
  /\ client \in [Sockets -> [last : 0 .. MaxRevision, initial : BOOLEAN]]
  /\ missed \in BOOLEAN /\ faults \in 0 .. MaxFaults

(* A socket that has acquired the room and not released it is a consumer   *)
(* of the room the hub has now, whose subscription is alive: nobody else's *)
(* leaving, failing or reconnecting takes the feed away from it.           *)
Acquired(s) == th[s].at \notin {"out", "subscribe", "await"}

ServedFromHub ==
  \A s \in Sockets :
    Acquired(s) => /\ hub # 0 /\ s \in room[hub].consumers
                   /\ ~At(hub, "closed") /\ link[hub].cancelled = {}

(* When nothing is under way any more, every socket that is served has     *)
(* shown the revision that is committed.                                   *)
Settled ==
  /\ unsent = {} /\ ~missed
  /\ \A o \in Rooms : link[o].hints = <<>> /\ (At(o, "wait") => link[o].up)
  /\ \A t \in Threads : th[t].at \in {"out", "wait", "closed", "serve"}
  /\ \A s \in Sockets : queue[s] = 0

SocketsConverge ==
  Settled => \A s \in Sockets : At(s, "serve") => client[s].last = revision

(* The setup of a socket ends: no lock of the hub is held for ever.        *)
SetupEnds == \A s \in Sockets : []<>(At(s, "serve") \/ At(s, "out"))

(* The hub never stays behind the committed revision while somebody is     *)
(* connected, unless a load it asked for failed: hints may be lost,        *)
(* repeated or reordered.                                                  *)
HubCatchesUp == []<>(hub = 0 \/ room[hub].revision = revision \/ missed)
=============================================================================
