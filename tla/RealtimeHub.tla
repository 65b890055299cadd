------------------------------ MODULE RealtimeHub ------------------------------
(***************************************************************************)
(* Realtime delivery: the in-process event bus, the bridge that routes      *)
(* domain events to rooms, the WebSocket hub, the two pumps of every        *)
(* connection, and the Redis relay between instances of the server.         *)
(*                                                                         *)
(* A step is what happens under one acquisition of the hub's lock, one      *)
(* channel operation, or one call of Redis.  Every connection is known to   *)
(* the hub twice: as the client that Register built, which knows its rooms, *)
(* and as the client Session.Start built around the same id and the same    *)
(* channel, which knows none.                                              *)
(***************************************************************************)
EXTENDS Naturals, FiniteSets, Sequences

CONSTANTS
  Instances,       \* server processes
  Users, Tenants,  \* accounts; organization and app pairs
  Channels,        \* channel names clients may subscribe to
  Conns,           \* connections: every one has a fresh client id
  Home, Owner,     \* the instance and the user of a connection
  Tenant,          \* its organization and app, or None (ExecuteUser)
  None,
  MaxConnections,  \* WS_MAX_CONNECTIONS, per instance
  SendBuffer,      \* capacity of a send channel
  BusBuffer,       \* capacity of the event bus
  UserLists,       \* the user lists payment events are published for
  Scopes,          \* the sets of tenants platform events are routed to
  MaxEvents        \* bound: events published

ASSUME RealtimeAssumption ==
  /\ Home \in [Conns -> Instances]
  /\ Owner \in [Conns -> Users]
  /\ Tenant \in [Conns -> Tenants \cup {None}] /\ None \notin Tenants
  /\ {"events", "payments"} \subseteq Channels
  /\ UserLists \subseteq Seq(Users) /\ Scopes \subseteq SUBSET Tenants
  /\ {MaxConnections, SendBuffer, BusBuffer, MaxEvents} \subseteq Nat \ {0}

VARIABLES
  socket,      \* socket[c]: where connection c is in its life
  clients,     \* Hub.clients of all instances
  rooms,       \* Hub.rooms of all instances
  closes,      \* closes[c]: how often the send channel of c has been closed
  send,        \* send[c]: the send channel of c
  received,    \* received[c]: what writePump has written to the socket
  gauge,       \* the connection gauge of each instance
  bus,         \* InProcessBus.ch of each instance
  relay,       \* what Redis has for the listener of each instance
  task,        \* what each delivering goroutine is doing
  published,   \* number of events published so far
  panicked     \* instances a panic has brought down

connVars == <<socket, clients, rooms, closes, send, received, gauge>>
busVars  == <<bus, relay, task, published, panicked>>
vars     == <<socket, clients, rooms, closes, send, received, gauge,
              bus, relay, task, published, panicked>>

\* none -> open -> lost -> left -> gone: registered and pumped, the socket dead,
\* readPump's deferred removal done, unregister done.
Stage == {"none", "open", "lost", "left", "gone"}

\* Room keys: "user:u:channel:payments" and "org:o:app:a:channel:ch".
UserRoom(u) == [user |-> u]
TenantRoom(t, ch) == [tenant |-> t, channel |-> ch]
Rooms == {UserRoom(u) : u \in Users} \cup {TenantRoom(t, ch) : t \in Tenants, ch \in Channels}

\* An event is broadcast to a sequence of sets of rooms, each under one lock.
Event == [id : 1..MaxEvents, origin : Instances, payment : BOOLEAN,
          audience : Seq(SUBSET Rooms)]

\* The goroutines that broadcast: the bus dispatcher and the relay listener.
Deliverers == Instances \X {"bus", "relay"}
Resting == [event |-> None, todo |-> <<>>]

-------------------------------------------------------------------------------
\* The default room of a client's tenant and the payments room of its user.
DefaultRooms(c) ==
  {UserRoom(Owner[c])} \cup
  (IF Tenant[c] = None THEN {} ELSE {TenantRoom(Tenant[c], "events")})

At(i) == {c \in Conns : Home[c] = i}

MutantFullLate(i) == Cardinality(clients \cap At(i)) > MaxConnections
Full(i) == Cardinality(clients \cap At(i)) >= MaxConnections

\* The upgraded connection registers, and Session.Start runs its pumps.  A full
\* hub closes the channel at once.  (Pongs, acknowledgements and the
\* welcome message are no events and are left out; what the send of the welcome
\* on a closed channel panics with, the router's Recoverer middleware recovers.)
Register(c) ==
  LET i == Home[c] IN
  /\ socket[c] = "none"
  /\ socket' = [socket EXCEPT ![c] = "open"]
  /\ IF Full(i)
     THEN closes' = [closes EXCEPT ![c] = @ + 1] /\ UNCHANGED <<clients, rooms, gauge>>
     ELSE /\ clients' = clients \cup {c}
          /\ rooms' = [r \in Rooms |-> IF r \in DefaultRooms(c) THEN rooms[r] \cup {c} ELSE rooms[r]]
          /\ gauge' = [gauge EXCEPT ![i] = @ + 1]
          /\ UNCHANGED closes
  /\ UNCHANGED <<send, received, busVars>>

\* The room a client means by a channel; users without a tenant have one.
MutantSharedRoom(c, ch) ==
  IF Tenant[c] = None THEN {UserRoom(u) : u \in Users} ELSE {TenantRoom(Tenant[c], ch)}
RoomFor(c, ch) ==
  IF Tenant[c] # None THEN {TenantRoom(Tenant[c], ch)}
  ELSE IF ch = "payments" THEN {UserRoom(Owner[c])}
  ELSE {}

Subscribe(c, ch) ==
  /\ socket[c] = "open"
  /\ c \in clients
  /\ rooms' = [r \in Rooms |-> IF r \in RoomFor(c, ch) THEN rooms[r] \cup {c} ELSE rooms[r]]
  /\ UNCHANGED <<socket, clients, closes, send, received, gauge, busVars>>

Unsubscribe(c, ch) ==
  /\ socket[c] = "open"
  /\ c \in clients
  /\ rooms' = [r \in Rooms |-> IF r \in RoomFor(c, ch) THEN rooms[r] \ {c} ELSE rooms[r]]
  /\ UNCHANGED <<socket, clients, closes, send, received, gauge, busVars>>

\* writePump writes the oldest message; on a closed and empty channel, or when
\* the write fails, it closes the connection.
Write(c) ==
  /\ socket[c] = "open"
  /\ send[c] # <<>>
  /\ received' = [received EXCEPT ![c] = Append(@, Head(send[c]))]
  /\ send' = [send EXCEPT ![c] = Tail(@)]
  /\ UNCHANGED <<socket, clients, rooms, closes, gauge, busVars>>

\* The peer goes away, a read or write deadline passes, a write fails, or
\* writePump finds its channel closed.
Disconnect(c) ==
  /\ socket[c] = "open"
  /\ socket' = [socket EXCEPT ![c] = "lost"]
  /\ UNCHANGED <<clients, rooms, closes, send, received, gauge, busVars>>

\* removeClient(cl), whose client knows of the rooms in known: only the first
\* call for an id does anything.
MutantUnguarded(c) == TRUE
Registered(c) == c \in clients

RemoveClient(c, known) ==
  IF Registered(c)
  THEN /\ clients' = clients \ {c}
       /\ gauge' = [gauge EXCEPT ![Home[c]] = @ - 1]
       /\ rooms' = [r \in Rooms |-> IF r \in known THEN rooms[r] \ {c} ELSE rooms[r]]
       /\ closes' = [closes EXCEPT ![c] = @ + 1]
  ELSE UNCHANGED <<clients, gauge, rooms, closes>>

\* readPump returns: its deferred removal is of the session's client, which was
\* never subscribed to a room.
ReadPumpEnds(c) ==
  /\ socket[c] = "lost"
  /\ RemoveClient(c, {})
  /\ socket' = [socket EXCEPT ![c] = "left"]
  /\ UNCHANGED <<send, received, busVars>>

\* Then the deferred unregister removes the client Register built.
Unregister(c) ==
  /\ socket[c] = "left"
  /\ RemoveClient(c, {r \in Rooms : c \in rooms[r]})
  /\ socket' = [socket EXCEPT ![c] = "gone"]
  /\ UNCHANGED <<send, received, busVars>>

-------------------------------------------------------------------------------
\* Events.

\* DeliverToUsers: the payments room of every user, a user named twice once
\* (UniqueUserIDs).
FirstNamed(users, n) == \A m \in 1..n - 1 : users[m] # users[n]

PaymentAudience(users) ==
  [n \in DOMAIN users |-> IF FirstNamed(users, n) THEN {UserRoom(users[n])} ELSE {}]

\* handleEvent: the default channel of the tenants, then the topic's channel.
PlatformAudience(scope, ch) ==
  <<{TenantRoom(t, "events") : t \in scope}, {TenantRoom(t, ch) : t \in scope}>>

\* InProcessBus.Publish: a full buffer drops the event.
Publish(i, payment, audience) ==
  LET event == [id |-> published + 1, origin |-> i, payment |-> payment,
                audience |-> audience] IN
  /\ published < MaxEvents
  /\ published' = published + 1
  /\ bus' = [bus EXCEPT ![i] = IF Len(@) < BusBuffer THEN Append(@, event) ELSE @]
  /\ UNCHANGED <<connVars, relay, task, panicked>>

\* dispatch takes the oldest event and its handler begins.
Dispatch(i) ==
  /\ task[<<i, "bus">>] = Resting
  /\ bus[i] # <<>>
  /\ task' = [task EXCEPT ![<<i, "bus">>] =
                [event |-> Head(bus[i]), todo |-> Head(bus[i]).audience]]
  /\ bus' = [bus EXCEPT ![i] = Tail(@)]
  /\ UNCHANGED <<connVars, relay, published, panicked>>

\* RedisRelay.Listen takes the oldest message, and skips its own.
MutantEcho(i, event) == TRUE
Foreign(i, event) == event.origin # i

Listen(i) ==
  /\ task[<<i, "relay">>] = Resting
  /\ relay[i] # <<>>
  /\ relay' = [relay EXCEPT ![i] = Tail(@)]
  /\ task' = IF Foreign(i, Head(relay[i]))
             THEN [task EXCEPT ![<<i, "relay">>] =
                     [event |-> Head(relay[i]), todo |-> Head(relay[i]).audience]]
             ELSE task
  /\ UNCHANGED <<connVars, bus, published, panicked>>

Members(d) ==
  {c \in Conns : Home[c] = d[1] /\ \E r \in Head(task[d].todo) : c \in rooms[r]}

\* Broadcast (or BroadcastToOrganization) to the next rooms: a full channel
\* loses the message.
Broadcast(d) ==
  /\ task[d].todo # <<>>
  /\ \A c \in Members(d) : closes[c] = 0
  /\ send' = [c \in Conns |-> IF c \in Members(d) /\ Len(send[c]) < SendBuffer
                              THEN Append(send[c], task[d].event) ELSE send[c]]
  /\ task' = [task EXCEPT ![d].todo = Tail(@)]
  /\ UNCHANGED <<socket, clients, rooms, closes, received, gauge, bus, relay,
                 published, panicked>>

\* A send on a closed channel panics in a goroutine nobody recovers: the
\* process ends with everything it held, and is started again.
Panic(d) ==
  LET i == d[1] IN
  /\ task[d].todo # <<>>
  /\ \E c \in Members(d) : closes[c] > 0
  /\ panicked' = panicked \cup {i}
  /\ socket' = [c \in Conns |-> IF c \in At(i) /\ socket[c] # "none" THEN "gone" ELSE socket[c]]
  /\ clients' = clients \ At(i)
  /\ rooms' = [r \in Rooms |-> rooms[r] \ At(i)]
  /\ send' = [c \in Conns |-> IF c \in At(i) THEN <<>> ELSE send[c]]
  /\ gauge' = [gauge EXCEPT ![i] = 0]
  /\ bus' = [bus EXCEPT ![i] = <<>>]
  /\ relay' = [relay EXCEPT ![i] = <<>>]
  /\ task' = [x \in Deliverers |-> IF x[1] = i THEN Resting ELSE task[x]]
  /\ UNCHANGED <<closes, received, published>>

\* The handler returns.  handlePaymentEvent has then passed the event on to
\* Redis, which gives it to every listener, or has failed to.
Finish(d) ==
  /\ task[d] # Resting
  /\ task[d].todo = <<>>
  /\ \/ relay' = relay
     \/ /\ d[2] = "bus" /\ task[d].event.payment
        /\ relay' = [i \in Instances |-> Append(relay[i], task[d].event)]
  /\ task' = [task EXCEPT ![d] = Resting]
  /\ UNCHANGED <<connVars, bus, published, panicked>>

-------------------------------------------------------------------------------
Init ==
  /\ socket = [c \in Conns |-> "none"]
  /\ clients = {}
  /\ rooms = [r \in Rooms |-> {}]
  /\ closes = [c \in Conns |-> 0]
  /\ send = [c \in Conns |-> <<>>]
  /\ received = [c \in Conns |-> <<>>]
  /\ gauge = [i \in Instances |-> 0]
  /\ bus = [i \in Instances |-> <<>>]
  /\ relay = [i \in Instances |-> <<>>]
  /\ task = [d \in Deliverers |-> Resting]
  /\ published = 0
  /\ panicked = {}

Connection(c) ==
  \/ Register(c) \/ Write(c) \/ Disconnect(c)
  \/ ReadPumpEnds(c) \/ Unregister(c)
  \/ \E ch \in Channels : Subscribe(c, ch) \/ Unsubscribe(c, ch)

Events(i) ==
  \/ \E users \in UserLists : Publish(i, TRUE, PaymentAudience(users))
  \/ \E scope \in Scopes, ch \in Channels \ {"events", "payments"} :
       Publish(i, FALSE, PlatformAudience(scope, ch))
  \/ Dispatch(i) \/ Listen(i)

Delivery(d) == Broadcast(d) \/ Panic(d) \/ Finish(d)

Next ==
  \/ \E c \in Conns : Connection(c)
  \/ \E i \in Instances : Events(i)
  \/ \E d \in Deliverers : Delivery(d)

Spec == Init /\ [][Next]_vars

-------------------------------------------------------------------------------
\* Properties.

\* The type invariant.
TypeOK ==
  /\ socket \in [Conns -> Stage]
  /\ clients \subseteq Conns
  /\ rooms \in [Rooms -> SUBSET Conns]
  /\ closes \in [Conns -> Nat]
  /\ send \in [Conns -> Seq(Event)]
  /\ received \in [Conns -> Seq(Event)]
  /\ gauge \in [Instances -> Nat]
  /\ bus \in [Instances -> Seq(Event)]
  /\ relay \in [Instances -> Seq(Event)]
  /\ task \in [Deliverers -> [event : Event \cup {None}, todo : Seq(SUBSET Rooms)]]
  /\ published \in 0..MaxEvents
  /\ panicked \subseteq Instances

\* The two clients of a connection share one channel and each has a guard of
\* its own against closing it; even so nobody ever closes it twice.
ClosedOnce == \A c \in Conns : closes[c] <= 1

\* The gauge counts the connections the hub knows, through refusals, double
\* removals and restarts, and they never exceed the cap.
GaugeExact ==
  \A i \in Instances :
    gauge[i] = Cardinality(clients \cap At(i)) /\ gauge[i] <= MaxConnections

\* Whatever it subscribed to and whoever published where: a connection only
\* ever gets events for its own user or its own tenant.
OnlyOwnEvents ==
  \A c \in Conns : \A n \in DOMAIN received[c] :
    \E k \in DOMAIN received[c][n].audience :
      received[c][n].audience[k] \cap
        ({UserRoom(Owner[c])} \cup {TenantRoom(Tenant[c], ch) : ch \in Channels}) # {}

\* Payment events of one instance reach a connection in the order they were
\* published in and never twice, locally and through Redis.
InOrderOnce ==
  \A c \in Conns : \A m, n \in DOMAIN received[c] :
    /\ m < n
    /\ received[c][m].payment /\ received[c][n].payment
    /\ received[c][m].origin = received[c][n].origin
    => received[c][m].id < received[c][n].id

\* Nobody sends on the channel of a connection that has been closed.
NeverPanics == panicked = {}
===============================================================================
