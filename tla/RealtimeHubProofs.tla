--------------------------- MODULE RealtimeHubProofs ---------------------------
(***************************************************************************)
(* Theorems of RealtimeHub for any servers, users, tenants, channels,       *)
(* connections, buffers and number of events.                              *)
(***************************************************************************)
EXTENDS RealtimeHub, FiniteSetTheorems, SequenceTheorems, TLAPS

-------------------------------------------------------------------------------
(***************************************************************************)
(* The invariant behind type correctness: the gauge is a natural number     *)
(* because it counts the registered connections, each of which is removed   *)
(* once; and a goroutine that still has rooms to serve has an event.        *)
(***************************************************************************)

\* A registered connection is open or has just been lost, and its channel is open;
\* one that is yet to come has never been closed.
ConnShape ==
  \A c \in Conns :
    /\ c \in clients => closes[c] = 0 /\ socket[c] \in {"open", "lost"}
    /\ socket[c] = "none" => closes[c] = 0

TasksMeant == \A d \in Deliverers : task[d].todo # <<>> => task[d].event \in Event

HubInv ==
  /\ TypeOK
  /\ ConnShape /\ ClosedOnce
  /\ IsFiniteSet(clients) /\ GaugeExact
  /\ TasksMeant

\* Appending to and consuming from a queue keeps its type.
LEMMA Queues ==
  ASSUME NEW S, NEW q \in Seq(S)
  PROVE  /\ \A e \in S : Append(q, e) \in Seq(S)
         /\ q # <<>> => Head(q) \in S /\ Tail(q) \in Seq(S)
         /\ <<>> \in Seq(S)
BY HeadTailProperties, AppendProperties, EmptySeq

\* The audiences of events are sequences of sets of rooms.
LEMMA Audiences ==
  /\ \A users \in UserLists : PaymentAudience(users) \in Seq(SUBSET Rooms)
  /\ \A scope \in Scopes, ch \in Channels : PlatformAudience(scope, ch) \in Seq(SUBSET Rooms)
<1>1. ASSUME NEW users \in UserLists PROVE PaymentAudience(users) \in Seq(SUBSET Rooms)
  <2>1. users \in Seq(Users)
    BY RealtimeAssumption
  <2>2. Len(users) \in Nat /\ DOMAIN users = 1..Len(users)
    BY <2>1, LenProperties
  <2>3. \A n \in 1..Len(users) : users[n] \in Users
    BY <2>1, <2>2, ElementOfSeq
  <2>4. PaymentAudience(users) \in [1..Len(users) -> SUBSET Rooms]
    BY <2>2, <2>3 DEF PaymentAudience, Rooms
  <2> QED BY <2>2, <2>4, SeqDef
<1>2. ASSUME NEW scope \in Scopes, NEW ch \in Channels
      PROVE  PlatformAudience(scope, ch) \in Seq(SUBSET Rooms)
  <2>1. /\ {TenantRoom(t, "events") : t \in scope} \in SUBSET Rooms
        /\ {TenantRoom(t, ch) : t \in scope} \in SUBSET Rooms
    BY RealtimeAssumption DEF Rooms
  <2> QED BY <2>1 DEF PlatformAudience
<1> QED BY <1>1, <1>2

\* The connections registered with one instance are finitely many, and a removal or
\* a registration changes their number by one.
LEMMA RegisteredCount ==
  ASSUME IsFiniteSet(clients), NEW c \in Conns, NEW i
  PROVE  /\ Cardinality(clients \cap At(i)) \in Nat
         /\ IsFiniteSet(clients \cup {c}) /\ IsFiniteSet(clients \ {c})
         /\ c \notin clients =>
              Cardinality((clients \cup {c}) \cap At(i))
                = IF Home[c] = i THEN Cardinality(clients \cap At(i)) + 1
                  ELSE Cardinality(clients \cap At(i))
         /\ c \in clients =>
              Cardinality((clients \ {c}) \cap At(i))
                = IF Home[c] = i THEN Cardinality(clients \cap At(i)) - 1
                  ELSE Cardinality(clients \cap At(i))
<1> DEFINE here == clients \cap At(i)
<1>1. IsFiniteSet(here) /\ Cardinality(here) \in Nat
  <2>1. here \subseteq clients
    OBVIOUS
  <2> QED BY <2>1, FS_Subset, FS_CardinalityType
<1>2. IsFiniteSet(clients \cup {c}) /\ IsFiniteSet(clients \ {c})
  BY FS_AddElement, FS_RemoveElement
<1>3. ASSUME Home[c] = i
      PROVE  /\ (clients \cup {c}) \cap At(i) = here \cup {c}
             /\ (clients \ {c}) \cap At(i) = here \ {c}
             /\ c \in clients <=> c \in here
  BY <1>3 DEF At
<1>4. ASSUME Home[c] # i
      PROVE  /\ (clients \cup {c}) \cap At(i) = here
             /\ (clients \ {c}) \cap At(i) = here
  BY <1>4 DEF At
<1>5. /\ c \notin here => Cardinality(here \cup {c}) = Cardinality(here) + 1
      /\ c \in here => Cardinality(here \ {c}) = Cardinality(here) - 1
  BY <1>1, FS_AddElement, FS_RemoveElement
<1> QED BY <1>1, <1>2, <1>3, <1>4, <1>5

\* Whichever of the two clients of a connection is removed, with whatever rooms: only
\* the first removal closes the channel and lowers the gauge.
LEMMA RemoveClientStep ==
  ASSUME HubInv, NEW c \in Conns, NEW known, RemoveClient(c, known),
         NEW s \in {"left", "gone"}, socket' = [socket EXCEPT ![c] = s],
         UNCHANGED <<send, received, busVars>>
  PROVE  HubInv'
<1> USE DEF HubInv, TypeOK, busVars
<1>1. /\ s \in Stage /\ s # "none" /\ socket' \in [Conns -> Stage]
      /\ \A x \in Conns : socket'[x] = IF x = c THEN s ELSE socket[x]
  BY DEF Stage
<1>2. CASE c \notin clients
  <2>1. UNCHANGED <<clients, gauge, rooms, closes>>
    BY <1>2 DEF RemoveClient, Registered
  <2>2. ConnShape' /\ ClosedOnce'
    BY <1>1, <1>2, <2>1 DEF ConnShape, ClosedOnce
  <2>3. TypeOK' /\ GaugeExact' /\ TasksMeant' /\ IsFiniteSet(clients')
    BY <1>1, <2>1 DEF GaugeExact, TasksMeant
  <2> QED BY <2>2, <2>3
<1>3. CASE c \in clients
  <2>1. /\ clients' = clients \ {c}
        /\ gauge' = [gauge EXCEPT ![Home[c]] = @ - 1]
        /\ rooms' = [r \in Rooms |-> IF r \in known THEN rooms[r] \ {c} ELSE rooms[r]]
        /\ closes' = [closes EXCEPT ![c] = @ + 1]
    BY <1>3 DEF RemoveClient, Registered
  <2>2. closes' \in [Conns -> Nat] /\ closes[c] = 0
        /\ \A x \in Conns : closes'[x] = IF x = c THEN 1 ELSE closes[x]
    BY <1>3, <2>1 DEF ConnShape
  <2>3. ConnShape' /\ ClosedOnce'
    BY <1>1, <2>1, <2>2 DEF ConnShape, ClosedOnce
  <2>4. Home[c] \in Instances
    BY RealtimeAssumption
  <2>5. ASSUME NEW i \in Instances
        PROVE  /\ gauge'[i] = Cardinality(clients' \cap At(i)) /\ gauge'[i] <= MaxConnections
               /\ gauge'[i] \in Nat
    <3>1. /\ Cardinality(clients \cap At(i)) \in Nat
          /\ Cardinality(clients' \cap At(i))
                = IF Home[c] = i THEN Cardinality(clients \cap At(i)) - 1
                  ELSE Cardinality(clients \cap At(i))
      BY <1>3, <2>1, RegisteredCount
    <3>2. Cardinality(clients' \cap At(i)) \in Nat
      <4>1. IsFiniteSet(clients')
        BY <2>1, RegisteredCount
      <4>2. clients' \cap At(i) \subseteq clients'
        OBVIOUS
      <4> QED BY <4>1, <4>2, FS_Subset, FS_CardinalityType
    <3>3. gauge[i] = Cardinality(clients \cap At(i)) /\ gauge[i] <= MaxConnections
      BY DEF GaugeExact
    <3>4. gauge'[i] = IF Home[c] = i THEN gauge[i] - 1 ELSE gauge[i]
      BY <2>1
    <3> QED BY <3>1, <3>2, <3>3, <3>4, RealtimeAssumption
  <2>6. gauge' \in [Instances -> Nat] /\ GaugeExact'
    <3>1. gauge' \in [Instances -> Nat]
      <4>1. \A i \in Instances : gauge'[i] \in Nat
        BY <2>5
      <4>2. gauge' = [i \in Instances |-> gauge'[i]]
        BY <2>1
      <4> QED BY <4>1, <4>2
    <3> QED BY <2>5, <3>1 DEF GaugeExact, At
  <2>7. rooms' \in [Rooms -> SUBSET Conns] /\ clients' \subseteq Conns /\ IsFiniteSet(clients')
    BY <2>1, RegisteredCount
  <2>8. TasksMeant'
    BY DEF TasksMeant
  <2>9. TypeOK'
    BY <1>1, <2>2, <2>6, <2>7
  <2> QED BY <2>3, <2>6, <2>7, <2>8, <2>9
<1> QED BY <1>2, <1>3

\* Registration, refused or not, and everything else a connection does.
LEMMA ConnectionStep == ASSUME HubInv, NEW c \in Conns, Connection(c) PROVE HubInv'
<1> USE DEF HubInv, TypeOK
<1>1. CASE Register(c)
  <2> DEFINE i == Home[c]
  <2>0. i \in Instances
    BY RealtimeAssumption
  <2>1. /\ socket[c] = "none" /\ closes[c] = 0 /\ c \notin clients
        /\ socket' \in [Conns -> Stage]
        /\ \A x \in Conns : socket'[x] = IF x = c THEN "open" ELSE socket[x]
        /\ TasksMeant'
    BY <1>1 DEF Register, ConnShape, Stage, TasksMeant, busVars
  <2>2. CASE Full(i)
    <3>1. /\ closes' = [closes EXCEPT ![c] = @ + 1] /\ UNCHANGED <<clients, rooms, gauge>>
      BY <1>1, <2>2 DEF Register
    <3>2. closes' \in [Conns -> Nat] /\ \A x \in Conns : closes'[x] = IF x = c THEN 1 ELSE closes[x]
      BY <2>1, <3>1
    <3>3. ConnShape'
      BY <2>1, <3>1, <3>2 DEF ConnShape
    <3>5. ClosedOnce'
      <4>1. \A x \in Conns : closes[x] \in Nat /\ closes[x] <= 1
        BY DEF ClosedOnce
      <4>2. ASSUME NEW x \in Conns PROVE closes'[x] <= 1
        <5>1. CASE x = c
          BY <3>2, <5>1
        <5>2. CASE x # c
          BY <3>2, <4>1, <5>2
        <5> QED BY <5>1, <5>2
      <4> QED BY <4>2 DEF ClosedOnce
    <3>6. GaugeExact'
      BY <3>1 DEF GaugeExact
    <3>4. TypeOK'
      BY <1>1, <2>1, <3>1, <3>2 DEF Register, busVars
    <3> QED BY <2>1, <3>1, <3>3, <3>4, <3>5, <3>6
  <2>3. CASE ~Full(i)
    <3>1. /\ clients' = clients \cup {c}
          /\ rooms' = [r \in Rooms |-> IF r \in DefaultRooms(c) THEN rooms[r] \cup {c} ELSE rooms[r]]
          /\ gauge' = [gauge EXCEPT ![i] = @ + 1]
          /\ UNCHANGED closes
      BY <1>1, <2>3 DEF Register
    <3>2. ConnShape' /\ ClosedOnce'
      BY <2>1, <3>1 DEF ConnShape, ClosedOnce
    <3>3. gauge' \in [Instances -> Nat] /\ rooms' \in [Rooms -> SUBSET Conns] /\ clients' \subseteq Conns
      <4>1. gauge[i] + 1 \in Nat
        BY <2>0
      <4>2. \A r \in Rooms : rooms'[r] \in SUBSET Conns
        BY <3>1
      <4>3. rooms' = [r \in Rooms |-> rooms'[r]]
        BY <3>1
      <4> QED BY <3>1, <4>1, <4>2, <4>3
    <3>4. IsFiniteSet(clients')
      BY <3>1, RegisteredCount
    <3>5. ASSUME NEW j \in Instances
          PROVE  gauge'[j] = Cardinality(clients' \cap At(j)) /\ gauge'[j] <= MaxConnections
      <4>1. /\ gauge'[j] = IF j = i THEN gauge[j] + 1 ELSE gauge[j]
            /\ gauge[j] = Cardinality(clients \cap At(j)) /\ gauge[j] <= MaxConnections
        BY <3>1 DEF GaugeExact
      <4>2. /\ Cardinality(clients \cap At(j)) \in Nat
            /\ Cardinality(clients' \cap At(j))
                 = IF Home[c] = j THEN Cardinality(clients \cap At(j)) + 1
                   ELSE Cardinality(clients \cap At(j))
        BY <2>1, <3>1, RegisteredCount
      <4>3. j = i => Cardinality(clients \cap At(j)) < MaxConnections
        BY <2>3, <4>2, RealtimeAssumption DEF Full
      <4> QED BY <4>1, <4>2, <4>3, RealtimeAssumption
    <3>6. GaugeExact'
      BY <3>5 DEF GaugeExact, At
    <3>7. TypeOK'
      BY <1>1, <2>1, <3>1, <3>3 DEF Register, busVars
    <3> QED BY <2>1, <3>2, <3>4, <3>6, <3>7
  <2> QED BY <2>2, <2>3
<1>2. ASSUME NEW ch \in Channels, Subscribe(c, ch) \/ Unsubscribe(c, ch) PROVE HubInv'
  <2>1. rooms' \in [Rooms -> SUBSET Conns]
    <3>1. /\ rooms' = [r \in Rooms |-> rooms'[r]]
          /\ \A r \in Rooms : rooms'[r] \in {rooms[r], rooms[r] \cup {c}, rooms[r] \ {c}}
      BY <1>2 DEF Subscribe, Unsubscribe
    <3>2. \A r \in Rooms : rooms'[r] \in SUBSET Conns
      BY <3>1
    <3> QED BY <3>1, <3>2
  <2> QED BY <1>2, <2>1 DEF Subscribe, Unsubscribe, busVars, ConnShape, ClosedOnce,
                            GaugeExact, TasksMeant
<1>3. CASE Write(c)
  <2>1. Head(send[c]) \in Event /\ Tail(send[c]) \in Seq(Event)
        /\ Append(received[c], Head(send[c])) \in Seq(Event)
    BY <1>3, Queues DEF Write
  <2>2. send' \in [Conns -> Seq(Event)] /\ received' \in [Conns -> Seq(Event)]
    BY <1>3, <2>1 DEF Write
  <2> QED BY <1>3, <2>2 DEF Write, busVars, ConnShape, ClosedOnce, GaugeExact, TasksMeant
<1>4. CASE Disconnect(c)
  <2>1. socket' \in [Conns -> Stage]
    BY <1>4 DEF Disconnect, Stage
  <2>2. ConnShape'
    BY <1>4 DEF Disconnect, ConnShape
  <2> QED BY <1>4, <2>1, <2>2 DEF Disconnect, busVars, ClosedOnce, GaugeExact, TasksMeant
<1>5. CASE ReadPumpEnds(c)
  BY <1>5, RemoveClientStep DEF ReadPumpEnds
<1>6. CASE Unregister(c)
  BY <1>6, RemoveClientStep DEF Unregister
<1> QED BY <1>1, <1>2, <1>3, <1>4, <1>5, <1>6 DEF Connection

\* Publishing, dispatching and listening do not touch the hub.
LEMMA EventStep == ASSUME HubInv, NEW i \in Instances, Events(i) PROVE HubInv'
<1> USE DEF HubInv, TypeOK
<1>0. ASSUME UNCHANGED connVars PROVE ConnShape' /\ ClosedOnce' /\ GaugeExact' /\ IsFiniteSet(clients')
  BY <1>0 DEF connVars, ConnShape, ClosedOnce, GaugeExact
<1>1. ASSUME NEW payment \in BOOLEAN, NEW audience \in Seq(SUBSET Rooms),
             Publish(i, payment, audience)
      PROVE  HubInv'
  <2> DEFINE event == [id |-> published + 1, origin |-> i, payment |-> payment,
                       audience |-> audience]
  <2>1. event \in Event /\ published' \in 0..MaxEvents
    BY <1>1, RealtimeAssumption DEF Publish, Event
  <2>2. Append(bus[i], event) \in Seq(Event)
    BY <2>1, Queues
  <2>3. bus' \in [Instances -> Seq(Event)]
    BY <1>1, <2>2 DEF Publish
  <2>4. TasksMeant'
    BY <1>1 DEF Publish, TasksMeant
  <2> QED BY <1>0, <1>1, <2>1, <2>3, <2>4 DEF Publish, connVars
<1>2. ASSUME NEW d \in Deliverers, NEW event \in Event,
             task' = [task EXCEPT ![d] = [event |-> event, todo |-> event.audience]]
      PROVE  /\ task' \in [Deliverers -> [event : Event \cup {None}, todo : Seq(SUBSET Rooms)]]
             /\ TasksMeant'
  <2>1. event.audience \in Seq(SUBSET Rooms)
    BY DEF Event
  <2> QED BY <1>2, <2>1 DEF TasksMeant
<1>3. CASE Dispatch(i)
  <2>1. <<i, "bus">> \in Deliverers
    BY DEF Deliverers
  <2>2. Head(bus[i]) \in Event /\ Tail(bus[i]) \in Seq(Event)
    BY <1>3, Queues DEF Dispatch
  <2>3. bus' \in [Instances -> Seq(Event)]
    BY <1>3, <2>2 DEF Dispatch
  <2> QED BY <1>0, <1>2, <1>3, <2>1, <2>2, <2>3 DEF Dispatch, connVars
<1>4. CASE Listen(i)
  <2>1. <<i, "relay">> \in Deliverers
    BY DEF Deliverers
  <2>2. Head(relay[i]) \in Event /\ Tail(relay[i]) \in Seq(Event)
    BY <1>4, Queues DEF Listen
  <2>3. relay' \in [Instances -> Seq(Event)]
    BY <1>4, <2>2 DEF Listen
  <2>4. CASE task' = task
    BY <1>0, <1>4, <2>3, <2>4 DEF Listen, connVars, TasksMeant
  <2>5. CASE task' # task
    BY <1>0, <1>2, <1>4, <2>1, <2>2, <2>3, <2>5 DEF Listen, connVars
  <2> QED BY <2>4, <2>5
<1> QED BY <1>1, <1>3, <1>4, Audiences DEF Events

\* The instances not brought down keep their connections, and the gauge of the one
\* that is begins at zero.
LEMMA PanicStep == ASSUME HubInv, NEW d \in Deliverers, Panic(d) PROVE HubInv'
<1> USE DEF HubInv, TypeOK
<1> DEFINE i == d[1]
<1>0. i \in Instances
  BY DEF Deliverers
<1>1. ConnShape' /\ ClosedOnce'
  BY DEF Panic, At, ConnShape, ClosedOnce
<1>2. IsFiniteSet(clients')
  BY FS_Subset DEF Panic
<1>3. ASSUME NEW j \in Instances
      PROVE  gauge'[j] = Cardinality(clients' \cap At(j)) /\ gauge'[j] <= MaxConnections
  <2>1. CASE j = i
    <3>1. clients' \cap At(j) = {}
      BY <2>1 DEF Panic
    <3>2. gauge'[j] = 0 /\ 0 <= MaxConnections
      BY <1>0, <2>1, RealtimeAssumption DEF Panic
    <3> QED BY <3>1, <3>2, FS_EmptySet
  <2>2. CASE j # i
    <3>1. clients' \cap At(j) = clients \cap At(j)
      BY <2>2 DEF Panic, At
    <3> QED BY <2>2, <3>1 DEF Panic, GaugeExact
  <2> QED BY <2>1, <2>2
<1>4. GaugeExact'
  BY <1>3 DEF GaugeExact, At
<1>5. /\ socket' \in [Conns -> Stage] /\ clients' \subseteq Conns
      /\ rooms' \in [Rooms -> SUBSET Conns] /\ closes' \in [Conns -> Nat]
      /\ gauge' \in [Instances -> Nat] /\ published' \in 0..MaxEvents
      /\ panicked' \subseteq Instances
  BY <1>0 DEF Panic, Stage
<1>6. /\ send' \in [Conns -> Seq(Event)] /\ received' \in [Conns -> Seq(Event)]
      /\ bus' \in [Instances -> Seq(Event)] /\ relay' \in [Instances -> Seq(Event)]
  BY EmptySeq DEF Panic
<1>7. /\ task' \in [Deliverers -> [event : Event \cup {None}, todo : Seq(SUBSET Rooms)]]
      /\ TasksMeant'
  <2>1. Resting \in [event : Event \cup {None}, todo : Seq(SUBSET Rooms)]
        /\ Resting.todo = <<>>
    BY EmptySeq DEF Resting
  <2> QED BY <2>1 DEF Panic, TasksMeant
<1> QED BY <1>1, <1>2, <1>4, <1>5, <1>6, <1>7

\* Broadcasting, panicking and finishing.
LEMMA DeliveryStep == ASSUME HubInv, NEW d \in Deliverers, Delivery(d) PROVE HubInv'
<1> USE DEF HubInv, TypeOK
<1>1. CASE Broadcast(d)
  <2>1. task[d].event \in Event /\ Tail(task[d].todo) \in Seq(SUBSET Rooms)
    BY <1>1, Queues DEF Broadcast, TasksMeant
  <2>2. \A c \in Conns : Append(send[c], task[d].event) \in Seq(Event)
    BY <2>1, Queues
  <2>3. send' \in [Conns -> Seq(Event)]
    BY <1>1, <2>2 DEF Broadcast
  <2>4. /\ task' \in [Deliverers -> [event : Event \cup {None}, todo : Seq(SUBSET Rooms)]]
        /\ TasksMeant'
    BY <1>1, <2>1 DEF Broadcast, TasksMeant
  <2> QED BY <1>1, <2>3, <2>4 DEF Broadcast, ConnShape, ClosedOnce, GaugeExact
<1>2. CASE Panic(d)
  BY <1>2, PanicStep
<1>3. CASE Finish(d)
  <2>1. task[d].event \in Event
    BY <1>3 DEF Finish, Resting
  <2>2. \A i \in Instances : Append(relay[i], task[d].event) \in Seq(Event)
    BY <2>1, Queues
  <2>3. relay' \in [Instances -> Seq(Event)]
    BY <1>3, <2>2 DEF Finish
  <2>4. Resting \in [event : Event \cup {None}, todo : Seq(SUBSET Rooms)]
        /\ Resting.todo = <<>>
    BY EmptySeq DEF Resting
  <2>5. /\ task' \in [Deliverers -> [event : Event \cup {None}, todo : Seq(SUBSET Rooms)]]
        /\ TasksMeant'
    BY <1>3, <2>4 DEF Finish, TasksMeant
  <2> QED BY <1>3, <2>3, <2>5 DEF Finish, connVars, ConnShape, ClosedOnce, GaugeExact
<1> QED BY <1>1, <1>2, <1>3 DEF Delivery

\* No connections, no events: the invariant holds.
LEMMA InitHubInv == Init => HubInv
<1> SUFFICES ASSUME Init PROVE HubInv
  OBVIOUS
<1>1. ConnShape /\ ClosedOnce /\ IsFiniteSet(clients)
  BY FS_EmptySet DEF Init, ConnShape, ClosedOnce
<1>2. GaugeExact
  <2>1. \A i : clients \cap At(i) = {}
    BY DEF Init
  <2> QED BY <2>1, FS_EmptySet, RealtimeAssumption DEF Init, GaugeExact
<1>3. Resting \in [event : Event \cup {None}, todo : Seq(SUBSET Rooms)] /\ Resting.todo = <<>>
  BY EmptySeq DEF Resting
<1>4. TasksMeant
  BY <1>3 DEF Init, TasksMeant
<1>5. TypeOK
  BY <1>3, EmptySeq, RealtimeAssumption DEF Init, TypeOK, Stage
<1> QED BY <1>1, <1>2, <1>4, <1>5 DEF HubInv

\* The invariant holds in every reachable state.
LEMMA HubInvariant == Spec => []HubInv
<1>1. HubInv /\ [Next]_vars => HubInv'
  <2> SUFFICES ASSUME HubInv, [Next]_vars PROVE HubInv'
    OBVIOUS
  <2>1. CASE UNCHANGED vars
    BY <2>1 DEF vars, HubInv, TypeOK, ConnShape, ClosedOnce, GaugeExact, TasksMeant
  <2> QED BY <2>1, ConnectionStep, EventStep, DeliveryStep DEF Next
<1> QED BY <1>1, InitHubInv, PTL DEF Spec

\* Every reachable state is well typed; the gauge never goes below zero.
THEOREM TypeCorrect == Spec => []TypeOK
<1>1. HubInv => TypeOK
  BY DEF HubInv
<1> QED BY <1>1, HubInvariant, PTL

\* Refused, removed by either of its two clients or cut off by a crash: no send
\* channel is ever closed twice.
THEOREM NeverClosedTwice == Spec => []ClosedOnce
<1>1. HubInv => ClosedOnce
  BY DEF HubInv
<1> QED BY <1>1, HubInvariant, PTL

\* The gauge of every server is the number of its registered connections, and never
\* more than the cap.
THEOREM GaugeCounts == Spec => []GaugeExact
<1>1. HubInv => GaugeExact
  BY DEF HubInv
<1> QED BY <1>1, HubInvariant, PTL
-------------------------------------------------------------------------------
(***************************************************************************)
(* Nobody gets an event of another user or tenant: rooms, channels and the  *)
(* rooms still to be served keep to it all the way to the socket.           *)
(***************************************************************************)

\* The rooms of a connection's own user and tenant.
Own(c) == {UserRoom(Owner[c])} \cup {TenantRoom(Tenant[c], ch) : ch \in Channels}

\* An event some of whose rooms are c's own.
Concerns(event, c) == \E k \in DOMAIN event.audience : event.audience[k] \cap Own(c) # {}

RoomsOwn == \A c \in Conns, r \in Rooms : c \in rooms[r] => r \in Own(c)

MailOwn ==
  \A c \in Conns :
    /\ \A n \in DOMAIN send[c] : Concerns(send[c][n], c)
    /\ \A n \in DOMAIN received[c] : Concerns(received[c][n], c)

TasksOwn ==
  \A d \in Deliverers : \A k \in DOMAIN task[d].todo :
    \E n \in DOMAIN task[d].event.audience : task[d].event.audience[n] = task[d].todo[k]

OwnInv == RoomsOwn /\ MailOwn /\ TasksOwn

\* What is in a queue after an append or a removal was in it before, or appended.
LEMMA QueueMembers ==
  ASSUME NEW S, NEW q \in Seq(S)
  PROVE  /\ \A e : \A n \in DOMAIN Append(q, e) :
              Append(q, e)[n] = e \/ \E m \in DOMAIN q : Append(q, e)[n] = q[m]
         /\ q # <<>> =>
              /\ 1 \in DOMAIN q /\ Head(q) = q[1]
              /\ \A n \in DOMAIN Tail(q) : \E m \in DOMAIN q : Tail(q)[n] = q[m]
<1>1. Len(q) \in Nat /\ DOMAIN q = 1..Len(q)
  BY LenProperties
<1>2. ASSUME NEW e, NEW n \in DOMAIN Append(q, e)
      PROVE  Append(q, e)[n] = e \/ \E m \in DOMAIN q : Append(q, e)[n] = q[m]
  <2>1. /\ Append(q, e) \in Seq(S \cup {e}) /\ q \in Seq(S \cup {e})
        /\ Len(Append(q, e)) = Len(q) + 1
        /\ \A m \in 1..Len(q) : Append(q, e)[m] = q[m]
        /\ Append(q, e)[Len(q) + 1] = e
    <3>1. q \in Seq(S \cup {e}) /\ e \in S \cup {e}
      BY SeqMonotonic
    <3> QED BY <3>1, AppendProperties
  <2>2. DOMAIN Append(q, e) = 1..(Len(q) + 1)
    BY <2>1, LenProperties
  <2> QED BY <1>1, <2>1, <2>2
<1>3. ASSUME q # <<>>
      PROVE  /\ 1 \in DOMAIN q /\ Head(q) = q[1]
             /\ \A n \in DOMAIN Tail(q) : \E m \in DOMAIN q : Tail(q)[n] = q[m]
  <2>1. /\ Tail(q) \in Seq(S) /\ Len(Tail(q)) = Len(q) - 1 /\ Len(q) # 0
        /\ \A n \in 1..Len(Tail(q)) : Tail(q)[n] = q[n + 1]
        /\ Head(q) = q[1]
    BY <1>1, <1>3, HeadTailProperties, EmptySeq
  <2>2. DOMAIN Tail(q) = 1..(Len(q) - 1)
    BY <2>1, LenProperties
  <2> QED BY <1>1, <2>1, <2>2
<1> QED BY <1>2, <1>3

\* A connection only ever joins rooms of its own.
LEMMA RoomsOwnStep ==
  ASSUME HubInv, RoomsOwn, NEW c \in Conns, Connection(c)
  PROVE  RoomsOwn'
<1> USE DEF HubInv, TypeOK
<1>1. DefaultRooms(c) \subseteq Own(c) /\ \A ch \in Channels : RoomFor(c, ch) \subseteq Own(c)
  BY RealtimeAssumption DEF DefaultRooms, RoomFor, Own
<1>2. ASSUME \A r \in Rooms : \/ rooms'[r] = rooms[r] \/ rooms'[r] = rooms[r] \ {c}
                              \/ r \in Own(c) /\ rooms'[r] = rooms[r] \cup {c}
      PROVE  RoomsOwn'
  <2>1. ASSUME NEW x \in Conns, NEW r \in Rooms, x \in rooms'[r] PROVE r \in Own(x)
    <3>1. x \in rooms[r] \/ (x = c /\ r \in Own(c))
      BY <1>2, <2>1
    <3> QED BY <1>2, <3>1 DEF RoomsOwn
  <2> QED BY <2>1 DEF RoomsOwn, Own
<1>3. ASSUME \A r \in Rooms : rooms'[r] = rooms[r] \/ rooms'[r] = rooms[r] \ {c}
      PROVE  RoomsOwn'
  BY <1>2, <1>3
<1>4. ASSUME rooms' = rooms PROVE RoomsOwn'
  BY <1>3, <1>4
<1>5. CASE Register(c)
  <2>1. CASE Full(Home[c])
    BY <1>4, <1>5, <2>1 DEF Register
  <2>2. CASE ~Full(Home[c])
    <3>1. rooms' = [r \in Rooms |-> IF r \in DefaultRooms(c) THEN rooms[r] \cup {c} ELSE rooms[r]]
      BY <1>5, <2>2 DEF Register
    <3>2. ASSUME NEW r \in Rooms
          PROVE  rooms'[r] = rooms[r] \/ (r \in DefaultRooms(c) /\ rooms'[r] = rooms[r] \cup {c})
      <4>1. CASE r \in DefaultRooms(c)
        BY <3>1, <4>1
      <4>2. CASE r \notin DefaultRooms(c)
        BY <3>1, <4>2
      <4> QED BY <4>1, <4>2
    <3> QED BY <1>1, <1>2, <3>2
  <2> QED BY <2>1, <2>2
<1>6. ASSUME NEW ch \in Channels, Subscribe(c, ch) PROVE RoomsOwn'
  <2>1. rooms' = [r \in Rooms |-> IF r \in RoomFor(c, ch) THEN rooms[r] \cup {c} ELSE rooms[r]]
    BY <1>6 DEF Subscribe
  <2>2. ASSUME NEW r \in Rooms
        PROVE  rooms'[r] = rooms[r] \/ (r \in RoomFor(c, ch) /\ rooms'[r] = rooms[r] \cup {c})
    <3>1. CASE r \in RoomFor(c, ch)
      BY <2>1, <3>1
    <3>2. CASE r \notin RoomFor(c, ch)
      BY <2>1, <3>2
    <3> QED BY <3>1, <3>2
  <2> QED BY <1>1, <1>2, <2>2
<1>7. ASSUME NEW ch \in Channels, Unsubscribe(c, ch) PROVE RoomsOwn'
  <2>1. \A r \in Rooms : rooms'[r] = rooms[r] \/ rooms'[r] = rooms[r] \ {c}
    BY <1>7 DEF Unsubscribe
  <2> QED BY <1>3, <2>1
<1>8. ASSUME NEW known, RemoveClient(c, known) PROVE RoomsOwn'
  <2>1. \A r \in Rooms : rooms'[r] = rooms[r] \/ rooms'[r] = rooms[r] \ {c}
    BY <1>8 DEF RemoveClient
  <2> QED BY <1>3, <2>1
<1> QED BY <1>4, <1>5, <1>6, <1>7, <1>8 DEF Connection, Write, Disconnect, ReadPumpEnds, Unregister

\* What a connection does moves mail from its channel to its socket only.
LEMMA ConnectionOwnStep ==
  ASSUME HubInv, OwnInv, NEW c \in Conns, Connection(c)
  PROVE  OwnInv'
<1> USE DEF HubInv, TypeOK, OwnInv
<1>1. RoomsOwn'
  BY RoomsOwnStep
<1>2. task' = task
  BY DEF Connection, Register, Subscribe, Unsubscribe, Write, Disconnect, ReadPumpEnds,
         Unregister, busVars
<1>3. CASE Write(c)
  <2>1. ASSUME NEW x \in Conns
        PROVE  /\ \A n \in DOMAIN send'[x] : Concerns(send'[x][n], x)
               /\ \A n \in DOMAIN received'[x] : Concerns(received'[x][n], x)
    <3>1. CASE x = c
      <4>1. send[c] # <<>> /\ send'[c] = Tail(send[c])
            /\ received'[c] = Append(received[c], Head(send[c]))
        BY <1>3 DEF Write
      <4>2. /\ Concerns(Head(send[c]), c)
            /\ \A n \in DOMAIN Tail(send[c]) : Concerns(Tail(send[c])[n], c)
        BY <4>1, QueueMembers DEF MailOwn
      <4>3. \A n \in DOMAIN received'[c] :
              received'[c][n] = Head(send[c]) \/ \E m \in DOMAIN received[c] :
                                                    received'[c][n] = received[c][m]
        BY <4>1, QueueMembers
      <4> QED BY <3>1, <4>1, <4>2, <4>3 DEF MailOwn
    <3>2. CASE x # c
      BY <1>3, <3>2 DEF Write, MailOwn
    <3> QED BY <3>1, <3>2
  <2>2. MailOwn'
    BY <2>1 DEF MailOwn, Concerns, Own
  <2> QED BY <1>1, <1>2, <2>2 DEF TasksOwn
<1>4. CASE ~Write(c)
  <2>1. send' = send /\ received' = received
    BY <1>4 DEF Connection, Register, Subscribe, Unsubscribe, Disconnect, ReadPumpEnds, Unregister
  <2> QED BY <1>1, <1>2, <2>1 DEF TasksOwn, MailOwn, Concerns, Own
<1> QED BY <1>3, <1>4

\* A goroutine begins with the whole audience of its event, and serves rooms in turn.
LEMMA BusOwnStep ==
  ASSUME HubInv, OwnInv, \/ \E i \in Instances : Events(i)
                         \/ \E d \in Deliverers : Delivery(d)
  PROVE  OwnInv'
<1> USE DEF HubInv, TypeOK, OwnInv
<1>0. ASSUME UNCHANGED connVars PROVE RoomsOwn' /\ MailOwn'
  BY <1>0 DEF connVars, RoomsOwn, MailOwn, Concerns, Own
<1>1. ASSUME NEW d \in Deliverers, NEW event,
             task' = [task EXCEPT ![d] = [event |-> event, todo |-> event.audience]]
      PROVE  TasksOwn'
  BY <1>1 DEF TasksOwn
<1>2. ASSUME NEW i \in Instances, Events(i) PROVE OwnInv'
  <2>1. UNCHANGED connVars
    BY <1>2 DEF Events, Publish, Dispatch, Listen
  <2>2. CASE task' = task
    BY <1>0, <2>1, <2>2 DEF TasksOwn
  <2>3. CASE task' # task
    <3>1. <<i, "bus">> \in Deliverers /\ <<i, "relay">> \in Deliverers
      BY DEF Deliverers
    <3>2. Dispatch(i) \/ Listen(i)
      BY <1>2, <2>3 DEF Events, Publish
    <3> QED BY <1>0, <1>1, <2>1, <2>3, <3>1, <3>2 DEF Dispatch, Listen
  <2> QED BY <2>2, <2>3
<1>3. ASSUME NEW d \in Deliverers, Broadcast(d) PROVE OwnInv'
  <2>1. task[d].todo \in Seq(SUBSET Rooms) /\ task[d].todo # <<>>
    BY <1>3 DEF Broadcast
  <2>2. /\ 1 \in DOMAIN task[d].todo /\ Head(task[d].todo) = task[d].todo[1]
        /\ \A n \in DOMAIN Tail(task[d].todo) :
             \E m \in DOMAIN task[d].todo : Tail(task[d].todo)[n] = task[d].todo[m]
        /\ Head(task[d].todo) \subseteq Rooms
    BY <2>1, QueueMembers, Queues
  <2>3. \A c \in Members(d) : Concerns(task[d].event, c)
    <3> SUFFICES ASSUME NEW c \in Members(d) PROVE Concerns(task[d].event, c)
      OBVIOUS
    <3>1. PICK r \in Head(task[d].todo) : c \in rooms[r]
      BY DEF Members
    <3>2. c \in Conns /\ r \in Own(c)
      BY <2>2, <3>1 DEF Members, RoomsOwn
    <3>3. PICK n \in DOMAIN task[d].event.audience :
            task[d].event.audience[n] = task[d].todo[1]
      BY <2>2 DEF TasksOwn
    <3> QED BY <2>2, <3>1, <3>2, <3>3 DEF Concerns
  <2>4. ASSUME NEW c \in Conns
        PROVE  \A n \in DOMAIN send'[c] : Concerns(send'[c][n], c)
    <3>1. send'[c] = send[c] \/ (c \in Members(d) /\ send'[c] = Append(send[c], task[d].event))
      <4> DEFINE fits(x) == x \in Members(d) /\ Len(send[x]) < SendBuffer
      <4>1. send' = [x \in Conns |-> IF fits(x) THEN Append(send[x], task[d].event) ELSE send[x]]
        BY <1>3 DEF Broadcast
      <4>2. fits(c) => c \in Members(d)
        OBVIOUS
      <4> HIDE DEF fits
      <4>3. send'[c] = IF fits(c) THEN Append(send[c], task[d].event) ELSE send[c]
        BY <4>1
      <4> QED BY <4>2, <4>3
    <3>2. CASE send'[c] = send[c]
      BY <3>2 DEF MailOwn
    <3>3. CASE c \in Members(d) /\ send'[c] = Append(send[c], task[d].event)
      <4>1. \A n \in DOMAIN send'[c] :
              send'[c][n] = task[d].event \/ \E m \in DOMAIN send[c] : send'[c][n] = send[c][m]
        BY <3>3, QueueMembers
      <4>2. Concerns(task[d].event, c) /\ \A m \in DOMAIN send[c] : Concerns(send[c][m], c)
        BY <2>3, <3>3 DEF MailOwn
      <4> QED BY <4>1, <4>2
    <3> QED BY <3>1, <3>2, <3>3
  <2>5. MailOwn'
    <3>1. ASSUME NEW c \in Conns
          PROVE  /\ \A n \in DOMAIN send'[c] : Concerns(send'[c][n], c)
                 /\ \A n \in DOMAIN received'[c] : Concerns(received'[c][n], c)
      <4>1. received' = received
        BY <1>3 DEF Broadcast
      <4> QED BY <2>4, <4>1 DEF MailOwn
    <3> QED BY <3>1 DEF MailOwn, Concerns, Own
  <2>6. TasksOwn'
    <3>1. task'[d].event = task[d].event /\ task'[d].todo = Tail(task[d].todo)
          /\ \A x \in Deliverers \ {d} : task'[x] = task[x]
      BY <1>3 DEF Broadcast
    <3>2. ASSUME NEW x \in Deliverers, NEW k \in DOMAIN task'[x].todo
          PROVE  \E n \in DOMAIN task'[x].event.audience :
                   task'[x].event.audience[n] = task'[x].todo[k]
      <4>1. CASE x = d
        <5>1. k \in DOMAIN Tail(task[d].todo) /\ task'[x].todo[k] = Tail(task[d].todo)[k]
          BY <3>1, <3>2, <4>1
        <5>2. PICK m \in DOMAIN task[d].todo : Tail(task[d].todo)[k] = task[d].todo[m]
          BY <2>2, <5>1
        <5>3. PICK n \in DOMAIN task[d].event.audience :
                task[d].event.audience[n] = task[d].todo[m]
          BY DEF TasksOwn
        <5> QED BY <3>1, <4>1, <5>1, <5>2, <5>3
      <4>2. CASE x # d
        <5>1. task'[x] = task[x]
          BY <3>1, <4>2
        <5>2. PICK n \in DOMAIN task[x].event.audience :
                task[x].event.audience[n] = task[x].todo[k]
          BY <3>2, <5>1 DEF TasksOwn
        <5> QED BY <5>1, <5>2
      <4> QED BY <4>1, <4>2
    <3> QED BY <3>2 DEF TasksOwn
  <2>7. RoomsOwn'
    BY <1>3 DEF Broadcast, RoomsOwn, Own
  <2> QED BY <2>5, <2>6, <2>7
<1>4. Resting.todo = <<>> /\ DOMAIN Resting.todo = {}
  BY DEF Resting
<1>7. ASSUME \A x \in Deliverers : task'[x] = Resting \/ task'[x] = task[x]
      PROVE  TasksOwn'
  <2>1. ASSUME NEW x \in Deliverers, NEW k \in DOMAIN task'[x].todo
        PROVE  \E n \in DOMAIN task'[x].event.audience :
                 task'[x].event.audience[n] = task'[x].todo[k]
    <3>1. task'[x] = task[x]
      BY <1>4, <1>7, <2>1
    <3>2. PICK n \in DOMAIN task[x].event.audience :
            task[x].event.audience[n] = task[x].todo[k]
      BY <2>1, <3>1 DEF TasksOwn
    <3> QED BY <3>1, <3>2
  <2> QED BY <2>1 DEF TasksOwn
<1>5. ASSUME NEW d \in Deliverers, Panic(d) PROVE OwnInv'
  <2>1. RoomsOwn'
    BY <1>5 DEF Panic, RoomsOwn, Own
  <2>2. \A c \in Conns : send'[c] = <<>> \/ send'[c] = send[c]
    BY <1>5 DEF Panic
  <2>3. MailOwn'
    <3>1. ASSUME NEW c \in Conns
          PROVE  /\ \A n \in DOMAIN send'[c] : Concerns(send'[c][n], c)
                 /\ \A n \in DOMAIN received'[c] : Concerns(received'[c][n], c)
      <4>1. received' = received
        BY <1>5 DEF Panic
      <4>2. send'[c] = <<>> => DOMAIN send'[c] = {}
        OBVIOUS
      <4> QED BY <2>2, <4>1, <4>2 DEF MailOwn
    <3> QED BY <3>1 DEF MailOwn, Concerns, Own
  <2>4. TasksOwn'
    <3>1. \A x \in Deliverers : task'[x] = Resting \/ task'[x] = task[x]
      BY <1>5 DEF Panic
    <3> QED BY <1>7, <3>1
  <2> QED BY <2>1, <2>3, <2>4
<1>6. ASSUME NEW d \in Deliverers, Finish(d) PROVE OwnInv'
  <2>1. \A x \in Deliverers : task'[x] = Resting \/ task'[x] = task[x]
    BY <1>6 DEF Finish
  <2>2. TasksOwn'
    BY <1>7, <2>1
  <2> QED BY <1>0, <1>6, <2>2 DEF Finish
<1> QED BY <1>2, <1>3, <1>5, <1>6 DEF Delivery

LEMMA OwnInvariant == Spec => []OwnInv
<1>1. Init => OwnInv
  BY DEF Init, OwnInv, RoomsOwn, MailOwn, TasksOwn, Resting
<1>2. HubInv /\ OwnInv /\ [Next]_vars => OwnInv'
  <2> SUFFICES ASSUME HubInv, OwnInv, [Next]_vars PROVE OwnInv'
    OBVIOUS
  <2>1. CASE UNCHANGED vars
    BY <2>1 DEF vars, OwnInv, RoomsOwn, MailOwn, TasksOwn, Concerns, Own
  <2> QED BY <2>1, ConnectionOwnStep, BusOwnStep DEF Next
<1> QED BY <1>1, <1>2, HubInvariant, PTL DEF Spec

\* Whatever it subscribed to and whoever published where: a connection only gets
\* events for its own user or its own tenant.
THEOREM NobodyElsesEvents == Spec => []OnlyOwnEvents
<1>1. OwnInv => OnlyOwnEvents
  BY DEF OwnInv, MailOwn, Concerns, Own, OnlyOwnEvents
<1> QED BY <1>1, OwnInvariant, PTL
-------------------------------------------------------------------------------
(***************************************************************************)
(* Payment events arrive in the order of their publication, and once.  An   *)
(* event waits in the bus of its origin, is served there, waits in the      *)
(* relay of another instance, is served there, and is mail: whatever is     *)
(* further along this line is older.                                       *)
(***************************************************************************)

Items(q) == {q[n] : n \in DOMAIN q}

Before(x, y) == x.payment /\ y.payment /\ x.origin = y.origin => x.id < y.id
AllBefore(A, B) == \A x \in A, y \in B : Before(x, y)
Ordered(q) == \A m, n \in DOMAIN q : m < n => Before(q[m], q[n])

\* The event a goroutine is serving, and the mail of a connection.
Current(d) == IF task[d] = Resting THEN {} ELSE {task[d].event}
Mail(c) == Items(received[c]) \cup Items(send[c])

\* Nobody is addressed twice: a payment goes to rooms of users, each named once.
OncePerUser(todo) ==
  /\ \A k \in DOMAIN todo : todo[k] \subseteq {UserRoom(u) : u \in Users}
  /\ \A k, m \in DOMAIN todo : k # m => todo[k] \cap todo[m] = {}

\* The goroutine d has no room of c's user left to serve.
Served(c, d) == \A k \in DOMAIN task[d].todo : UserRoom(Owner[c]) \notin task[d].todo[k]

Sources ==
  \A i \in Instances :
    /\ \A x \in Items(bus[i]) \cup Current(<<i, "bus">>) : x.origin = i
    /\ \A x \in Items(relay[i]) \cup Current(<<i, "relay">>) : x.payment
    /\ \A x \in Current(<<i, "relay">>) : x.origin # i

Numbered ==
  /\ \A i \in Instances : \A x \in Items(bus[i]) \cup Items(relay[i]) : x.id <= published
  /\ \A d \in Deliverers : \A x \in Current(d) : x.id <= published
  /\ \A c \in Conns : \A x \in Mail(c) : x.id <= published

Addressed ==
  /\ \A i \in Instances : \A x \in Items(bus[i]) \cup Items(relay[i]) :
       x.payment => OncePerUser(x.audience)
  /\ \A d \in Deliverers : \A x \in Current(d) :
       x.payment => OncePerUser(x.audience) /\ OncePerUser(task[d].todo)

\* Between the bus of j and the goroutine that listens at i.
LineOrder ==
  \A i, j \in Instances :
    /\ Ordered(bus[i]) /\ Ordered(relay[i])
    /\ AllBefore(Current(<<i, "bus">>), Items(bus[i]))
    /\ AllBefore(Items(relay[i]), Items(bus[j]) \cup Current(<<j, "bus">>))
    /\ AllBefore(Current(<<i, "relay">>),
                 Items(relay[i]) \cup Items(bus[j]) \cup Current(<<j, "bus">>))

\* What connection c has got is older than all that may still come to it.
Settled(c, x) ==
  /\ \A j \in Instances :
       /\ AllBefore({x}, Items(bus[j]))
       /\ j # Home[c] => AllBefore({x}, Current(<<j, "bus">>))
  /\ x.origin # Home[c] => AllBefore({x}, Items(relay[Home[c]]))
  /\ \A d \in Deliverers : d[1] = Home[c] => AllBefore({x}, Current(d)) \/ Served(c, d)

MailOrder ==
  \A c \in Conns :
    /\ Ordered(received[c]) /\ Ordered(send[c])
    /\ AllBefore(Items(received[c]), Items(send[c]))
    /\ \A x \in Mail(c) : Settled(c, x)

OrderInv == Sources /\ Numbered /\ Addressed /\ LineOrder /\ MailOrder

\* What queueing does to the items of a queue and to their order.
LEMMA QueueItems ==
  ASSUME NEW q \in Seq(Event)
  PROVE  /\ Items(q) \subseteq Event
         /\ \A e \in Event : Items(Append(q, e)) = Items(q) \cup {e}
         /\ \A e \in Event : Ordered(q) /\ AllBefore(Items(q), {e}) => Ordered(Append(q, e))
         /\ q # <<>> => /\ Head(q) \in Items(q) /\ Items(Tail(q)) \subseteq Items(q)
                        /\ Ordered(q) => Ordered(Tail(q)) /\ AllBefore({Head(q)}, Items(Tail(q)))
<1>1. Len(q) \in Nat /\ DOMAIN q = 1..Len(q) /\ \A n \in 1..Len(q) : q[n] \in Event
  BY LenProperties, ElementOfSeq
<1>2. Items(q) \subseteq Event
  BY <1>1 DEF Items
<1>3. ASSUME NEW e \in Event
      PROVE  /\ Items(Append(q, e)) = Items(q) \cup {e}
             /\ Ordered(q) /\ AllBefore(Items(q), {e}) => Ordered(Append(q, e))
  <2>1. /\ Append(q, e) \in Seq(Event) /\ Len(Append(q, e)) = Len(q) + 1
        /\ \A m \in 1..Len(q) : Append(q, e)[m] = q[m]
        /\ Append(q, e)[Len(q) + 1] = e
    BY AppendProperties
  <2>2. DOMAIN Append(q, e) = 1..(Len(q) + 1)
    BY <2>1, LenProperties
  <2>3. Items(Append(q, e)) = Items(q) \cup {e}
    <3>1. Items(Append(q, e)) \subseteq Items(q) \cup {e}
      BY <1>1, <2>1, <2>2 DEF Items
    <3>2. e \in Items(Append(q, e))
      BY <1>1, <2>1, <2>2 DEF Items
    <3>3. Items(q) \subseteq Items(Append(q, e))
      BY <1>1, <2>1, <2>2 DEF Items
    <3> QED BY <3>1, <3>2, <3>3
  <2>4. ASSUME Ordered(q), AllBefore(Items(q), {e}) PROVE Ordered(Append(q, e))
    <3> SUFFICES ASSUME NEW m \in 1..(Len(q) + 1), NEW n \in 1..(Len(q) + 1), m < n
                 PROVE  Before(Append(q, e)[m], Append(q, e)[n])
      BY <2>2 DEF Ordered
    <3>1. m \in 1..Len(q) /\ Append(q, e)[m] = q[m]
      BY <1>1, <2>1
    <3>2. CASE n \in 1..Len(q)
      BY <1>1, <2>1, <2>4, <3>1, <3>2 DEF Ordered
    <3>3. CASE n = Len(q) + 1
      <4>1. Append(q, e)[n] = e
        BY <2>1, <3>3
      <4>2. q[m] \in Items(q)
        BY <1>1, <3>1 DEF Items
      <4> QED BY <2>4, <3>1, <4>1, <4>2 DEF AllBefore
    <3> QED BY <1>1, <3>2, <3>3
  <2> QED BY <2>3, <2>4
<1>4. ASSUME q # <<>>
      PROVE  /\ Head(q) \in Items(q) /\ Items(Tail(q)) \subseteq Items(q)
             /\ Ordered(q) => Ordered(Tail(q)) /\ AllBefore({Head(q)}, Items(Tail(q)))
  <2>1. /\ Tail(q) \in Seq(Event) /\ Len(Tail(q)) = Len(q) - 1 /\ Len(q) # 0
        /\ \A n \in 1..Len(Tail(q)) : Tail(q)[n] = q[n + 1]
        /\ Head(q) = q[1]
    BY <1>1, <1>4, HeadTailProperties, EmptySeq
  <2>2. DOMAIN Tail(q) = 1..(Len(q) - 1)
    BY <2>1, LenProperties
  <2>3. \A n \in DOMAIN Tail(q) : n \in 1..(Len(q) - 1) /\ n + 1 \in 1..Len(q) /\ Tail(q)[n] = q[n + 1]
    BY <1>1, <2>1, <2>2
  <2>4. 1 \in 1..Len(q)
    BY <1>1, <2>1
  <2>5. Head(q) \in Items(q) /\ Items(Tail(q)) \subseteq Items(q)
    BY <1>1, <2>1, <2>3, <2>4 DEF Items
  <2>6. ASSUME Ordered(q) PROVE Ordered(Tail(q))
    <3> SUFFICES ASSUME NEW m \in DOMAIN Tail(q), NEW n \in DOMAIN Tail(q), m < n
                 PROVE  Before(Tail(q)[m], Tail(q)[n])
      BY DEF Ordered
    <3>1. m + 1 \in DOMAIN q /\ n + 1 \in DOMAIN q /\ m + 1 < n + 1
      BY <1>1, <2>3
    <3> QED BY <2>3, <2>6, <3>1 DEF Ordered
  <2>7. ASSUME Ordered(q) PROVE AllBefore({Head(q)}, Items(Tail(q)))
    <3> SUFFICES ASSUME NEW n \in DOMAIN Tail(q) PROVE Before(Head(q), Tail(q)[n])
      BY DEF AllBefore, Items
    <3>1. 1 \in DOMAIN q /\ n + 1 \in DOMAIN q /\ 1 < n + 1
      BY <1>1, <2>3, <2>4
    <3> QED BY <2>1, <2>3, <2>7, <3>1 DEF Ordered
  <2> QED BY <2>5, <2>6, <2>7
<1> QED BY <1>2, <1>3, <1>4

\* An empty queue has no items and is in order.
LEMMA EmptyQueue == Items(<<>>) = {} /\ Ordered(<<>>)
BY DEF Items, Ordered

\* An event addressed to nobody twice: the payment audience is.
LEMMA PaymentsOnce == \A users \in UserLists : OncePerUser(PaymentAudience(users))
<1> SUFFICES ASSUME NEW users \in UserLists PROVE OncePerUser(PaymentAudience(users))
  OBVIOUS
<1> DEFINE todo == PaymentAudience(users)
<1>1. /\ Len(users) \in Nat /\ DOMAIN users = 1..Len(users)
      /\ \A n \in 1..Len(users) : users[n] \in Users
  BY RealtimeAssumption, LenProperties, ElementOfSeq
<1>2. /\ DOMAIN todo = 1..Len(users)
      /\ \A n \in 1..Len(users) : todo[n] = IF FirstNamed(users, n) THEN {UserRoom(users[n])} ELSE {}
  BY <1>1 DEF PaymentAudience
<1>3. \A k \in DOMAIN todo : todo[k] \subseteq {UserRoom(u) : u \in Users}
  BY <1>1, <1>2
<1>4. ASSUME NEW k \in 1..Len(users), NEW m \in 1..Len(users), k < m
      PROVE  todo[k] \cap todo[m] = {}
  <2> SUFFICES ASSUME NEW r, r \in todo[k], r \in todo[m] PROVE FALSE
    OBVIOUS
  <2>1. FirstNamed(users, m) /\ r = UserRoom(users[k]) /\ r = UserRoom(users[m])
    BY <1>2
  <2>2. users[k] = users[m]
    BY <2>1 DEF UserRoom
  <2> QED BY <1>1, <1>4, <2>1, <2>2 DEF FirstNamed
<1>5. ASSUME NEW k \in DOMAIN todo, NEW m \in DOMAIN todo, k # m PROVE todo[k] \cap todo[m] = {}
  <2>1. k \in 1..Len(users) /\ m \in 1..Len(users) /\ (k < m \/ m < k)
    BY <1>1, <1>2, <1>5
  <2>2. CASE k < m
    BY <1>4, <2>1, <2>2
  <2>3. CASE m < k
    <3>1. todo[m] \cap todo[k] = {}
      BY <1>4, <2>1, <2>3
    <3> QED BY <3>1
  <2> QED BY <2>1, <2>2, <2>3
<1> QED BY <1>3, <1>5 DEF OncePerUser

\* The event a goroutine serves is an event.
LEMMA CurrentTyped ==
  ASSUME HubInv, NEW d \in Deliverers
  PROVE  /\ Current(d) \subseteq Event
         /\ task[d] # Resting => Current(d) = {task[d].event} /\ task[d].event \in Event
<1>1. ASSUME task[d] # Resting PROVE task[d].event \in Event
  <2>1. task[d] \in [event : Event \cup {None}, todo : Seq(SUBSET Rooms)]
    BY DEF HubInv, TypeOK
  <2>2. CASE task[d].todo # <<>>
    BY <2>2 DEF HubInv, TasksMeant
  <2>3. CASE task[d].todo = <<>>
    BY <1>1, <2>1, <2>3 DEF Resting
  <2> QED BY <2>2, <2>3
<1> QED BY <1>1 DEF Current

\* Nothing comes out of order when queues are emptied and goroutines come to rest.
LEMMA Shrinks ==
  ASSUME HubInv, OrderInv, received' = received, published' = published,
         \A c \in Conns : Ordered(send'[c]) /\ Items(send'[c]) \subseteq Items(send[c]),
         \A i \in Instances : Ordered(bus'[i]) /\ Items(bus'[i]) \subseteq Items(bus[i]),
         \A i \in Instances : Ordered(relay'[i]) /\ Items(relay'[i]) \subseteq Items(relay[i]),
         \A d \in Deliverers : task'[d] = task[d] \/ task'[d] = Resting
  PROVE  OrderInv'
<1>0. \A i \in Instances : <<i, "bus">> \in Deliverers /\ <<i, "relay">> \in Deliverers
  BY DEF Deliverers
<1>1. \A d \in Deliverers : Current(d)' \subseteq Current(d)
  BY DEF Current
<1>2. \A d \in Deliverers : Current(d)' # {} => task'[d] = task[d]
  BY DEF Current
<1>3. \A c \in Conns : Mail(c)' \subseteq Mail(c)
  BY DEF Mail
<1>4. \A c \in Conns, d \in Deliverers : Served(c, d) => Served(c, d)'
  BY DEF Served, Resting
<1>5. Sources'
  BY <1>0, <1>1 DEF OrderInv, Sources
<1>6. Numbered'
  BY <1>1, <1>3 DEF OrderInv, Numbered
<1>7. Addressed'
  <2>1. \A i \in Instances : \A x \in Items(bus'[i]) \cup Items(relay'[i]) :
          x.payment => OncePerUser(x.audience)
    BY DEF OrderInv, Addressed
  <2>2. ASSUME NEW d \in Deliverers, NEW x \in Current(d)', x.payment
        PROVE  OncePerUser(x.audience) /\ OncePerUser(task'[d].todo)
    BY <1>1, <1>2, <2>2 DEF OrderInv, Addressed
  <2> QED BY <2>1, <2>2 DEF Addressed
<1>8. LineOrder'
  BY <1>0, <1>1 DEF OrderInv, LineOrder, AllBefore
<1>9. MailOrder'
  <2>1. ASSUME NEW c \in Conns
        PROVE  /\ Ordered(received'[c]) /\ Ordered(send'[c])
               /\ AllBefore(Items(received'[c]), Items(send'[c]))
    BY <2>1 DEF OrderInv, MailOrder, AllBefore
  <2>2. ASSUME NEW c \in Conns, NEW x \in Mail(c)' PROVE Settled(c, x)'
    <3>1. Settled(c, x) /\ Home[c] \in Instances
      BY <1>3, RealtimeAssumption DEF OrderInv, MailOrder
    <3>2. ASSUME NEW j \in Instances
          PROVE  /\ AllBefore({x}, Items(bus'[j]))
                 /\ j # Home[c] => AllBefore({x}, Current(<<j, "bus">>)')
      <4>1. Current(<<j, "bus">>)' \subseteq Current(<<j, "bus">>)
        BY <1>0, <1>1
      <4>2. AllBefore({x}, Items(bus[j])) /\ (j # Home[c] => AllBefore({x}, Current(<<j, "bus">>)))
        BY <3>1 DEF Settled
      <4> QED BY <4>1, <4>2 DEF AllBefore
    <3>3. x.origin # Home[c] => AllBefore({x}, Items(relay'[Home[c]]))
      BY <3>1 DEF Settled, AllBefore
    <3>4. \A d \in Deliverers : d[1] = Home[c] => AllBefore({x}, Current(d)') \/ Served(c, d)'
      BY <1>1, <1>4, <3>1 DEF Settled, AllBefore
    <3> QED BY <3>2, <3>3, <3>4 DEF Settled, AllBefore
  <2> QED BY <2>1, <2>2 DEF MailOrder
<1> QED BY <1>5, <1>6, <1>7, <1>8, <1>9 DEF OrderInv

\* The oldest message of the channel becomes the newest the socket has got.
LEMMA WriteInOrder == ASSUME HubInv, OrderInv, NEW c \in Conns, Write(c) PROVE OrderInv'
<1> DEFINE h == Head(send[c])
<1>1. /\ UNCHANGED <<bus, relay, task, published>>
      /\ send[c] # <<>> /\ received[c] \in Seq(Event) /\ send[c] \in Seq(Event)
      /\ \A x \in Conns : send'[x] = IF x = c THEN Tail(send[c]) ELSE send[x]
      /\ \A x \in Conns : received'[x] = IF x = c THEN Append(received[c], h) ELSE received[x]
  BY DEF Write, busVars, HubInv, TypeOK
<1>2. /\ h \in Event /\ h \in Items(send[c]) /\ Items(Tail(send[c])) \subseteq Items(send[c])
      /\ Ordered(Tail(send[c])) /\ AllBefore({h}, Items(Tail(send[c])))
      /\ Items(Append(received[c], h)) = Items(received[c]) \cup {h}
      /\ Ordered(Append(received[c], h))
  <2>1. Ordered(send[c]) /\ Ordered(received[c]) /\ AllBefore(Items(received[c]), Items(send[c]))
    BY DEF OrderInv, MailOrder
  <2>2. /\ h \in Items(send[c]) /\ Items(Tail(send[c])) \subseteq Items(send[c])
        /\ Ordered(Tail(send[c])) /\ AllBefore({h}, Items(Tail(send[c])))
    BY <1>1, <2>1, QueueItems
  <2>3. h \in Event
    BY <1>1, <2>2, QueueItems
  <2>4. AllBefore(Items(received[c]), {h})
    BY <2>1, <2>2 DEF AllBefore
  <2> QED BY <1>1, <2>1, <2>2, <2>3, <2>4, QueueItems
<1>3. \A x \in Conns : Mail(x)' \subseteq Mail(x)
  BY <1>1, <1>2 DEF Mail
<1>4. \A d \in Deliverers : Current(d)' = Current(d) /\ \A x \in Conns : Served(x, d)' = Served(x, d)
  BY <1>1 DEF Current, Served
<1>0. \A i \in Instances : <<i, "bus">> \in Deliverers /\ <<i, "relay">> \in Deliverers
  BY DEF Deliverers
<1>5. Sources'
  <2> SUFFICES ASSUME NEW i \in Instances
               PROVE  /\ \A x \in Items(bus'[i]) \cup Current(<<i, "bus">>)' : x.origin = i
                      /\ \A x \in Items(relay'[i]) \cup Current(<<i, "relay">>)' : x.payment
                      /\ \A x \in Current(<<i, "relay">>)' : x.origin # i
    BY DEF Sources
  <2>1. Current(<<i, "bus">>)' = Current(<<i, "bus">>) /\ Current(<<i, "relay">>)' = Current(<<i, "relay">>)
    BY <1>0, <1>4
  <2> QED BY <1>1, <2>1 DEF OrderInv, Sources
<1>9. LineOrder'
  BY <1>0, <1>1, <1>4 DEF OrderInv, LineOrder
<1>6. Numbered' /\ Addressed'
  BY <1>1, <1>3, <1>4 DEF OrderInv, Numbered, Addressed
<1>7. ASSUME NEW x \in Conns, NEW y \in Mail(x)' PROVE Settled(x, y)'
  BY <1>0, <1>1, <1>3, <1>4 DEF OrderInv, MailOrder, Settled
<1>8. ASSUME NEW x \in Conns
      PROVE  /\ Ordered(received'[x]) /\ Ordered(send'[x])
             /\ AllBefore(Items(received'[x]), Items(send'[x]))
  <2>1. CASE x = c
    BY <1>1, <1>2, <2>1 DEF OrderInv, MailOrder, AllBefore
  <2>2. CASE x # c
    BY <1>1, <2>2 DEF OrderInv, MailOrder
  <2> QED BY <2>1, <2>2
<1> QED BY <1>5, <1>6, <1>7, <1>8, <1>9 DEF OrderInv, MailOrder

\* A new event has a number of its own, later than all.
LEMMA PublishInOrder ==
  ASSUME HubInv, OrderInv, NEW i \in Instances, NEW payment \in BOOLEAN,
         NEW audience \in Seq(SUBSET Rooms), payment => OncePerUser(audience),
         Publish(i, payment, audience)
  PROVE  OrderInv'
<1> DEFINE e == [id |-> published + 1, origin |-> i, payment |-> payment, audience |-> audience]
<1>0. \A j \in Instances : <<j, "bus">> \in Deliverers /\ <<j, "relay">> \in Deliverers
  BY DEF Deliverers
<1>1. /\ published \in Nat /\ published' = published + 1
      /\ UNCHANGED <<received, send, relay, task>>
      /\ \A j \in Instances : bus[j] \in Seq(Event)
      /\ \A j \in Instances : bus'[j] = bus[j] \/ (j = i /\ bus'[j] = Append(bus[j], e))
      /\ e \in Event
  <2>1. published \in 0..MaxEvents /\ published < MaxEvents /\ MaxEvents \in Nat
    BY RealtimeAssumption DEF Publish, HubInv, TypeOK
  <2>2. published \in Nat /\ published + 1 \in 1..MaxEvents
    BY <2>1
  <2>3. e \in Event
    BY <2>2 DEF Event
  <2>4. \A j \in Instances : bus[j] \in Seq(Event)
    BY DEF HubInv, TypeOK
  <2>5. published' = published + 1 /\ UNCHANGED <<received, send, relay, task>>
    BY DEF Publish, connVars
  <2>6. \A j \in Instances : bus'[j] = bus[j] \/ (j = i /\ bus'[j] = Append(bus[j], e))
    BY DEF Publish, HubInv, TypeOK
  <2> QED BY <2>2, <2>3, <2>4, <2>5, <2>6
<1>2. /\ e.id = published + 1 /\ e.origin = i /\ e.payment = payment /\ e.audience = audience
  OBVIOUS
<1> HIDE DEF e
<1>3. \A d \in Deliverers : Current(d)' = Current(d) /\ \A c \in Conns : Served(c, d)' = Served(c, d)
  BY <1>1 DEF Current, Served
<1>4. \A c \in Conns : Mail(c)' = Mail(c) /\ Mail(c) \subseteq Event
  <2>1. \A c \in Conns : Items(received[c]) \subseteq Event /\ Items(send[c]) \subseteq Event
    BY QueueItems DEF HubInv, TypeOK
  <2> QED BY <1>1, <2>1 DEF Mail
<1>5. /\ \A d \in Deliverers : Current(d) \subseteq Event
      /\ \A j \in Instances : Items(bus[j]) \subseteq Event /\ Items(relay[j]) \subseteq Event
  BY CurrentTyped, QueueItems DEF HubInv, TypeOK
<1>6. \A x \in Event : x.id \in Nat
  BY RealtimeAssumption DEF Event
<1>7. /\ \A d \in Deliverers : AllBefore(Current(d), {e})
      /\ \A j \in Instances : AllBefore(Items(bus[j]) \cup Items(relay[j]), {e})
      /\ \A c \in Conns : AllBefore(Mail(c), {e})
  <2>1. \A x \in Event : x.id <= published => Before(x, e)
    BY <1>1, <1>2, <1>6 DEF Before
  <2> QED BY <1>4, <1>5, <2>1 DEF OrderInv, Numbered, AllBefore
<1>8. \A j \in Instances :
        Items(bus'[j]) \subseteq Items(bus[j]) \cup {e} /\ Ordered(bus'[j])
        /\ (j # i => Items(bus'[j]) = Items(bus[j]))
  <2> SUFFICES ASSUME NEW j \in Instances
               PROVE  Items(bus'[j]) \subseteq Items(bus[j]) \cup {e} /\ Ordered(bus'[j])
                      /\ (j # i => Items(bus'[j]) = Items(bus[j]))
    OBVIOUS
  <2>1. Ordered(bus[j]) /\ AllBefore(Items(bus[j]), {e})
    BY <1>7 DEF OrderInv, LineOrder, AllBefore
  <2>2. CASE bus'[j] = bus[j]
    BY <2>1, <2>2
  <2>3. CASE j = i /\ bus'[j] = Append(bus[j], e)
    <3>1. Items(Append(bus[j], e)) = Items(bus[j]) \cup {e} /\ Ordered(Append(bus[j], e))
      BY <1>1, <2>1, QueueItems
    <3> QED BY <2>3, <3>1
  <2> QED BY <1>1, <2>2, <2>3
<1>9. Sources'
  <2> SUFFICES ASSUME NEW j \in Instances
               PROVE  /\ \A x \in Items(bus'[j]) \cup Current(<<j, "bus">>)' : x.origin = j
                      /\ \A x \in Items(relay'[j]) \cup Current(<<j, "relay">>)' : x.payment
                      /\ \A x \in Current(<<j, "relay">>)' : x.origin # j
    BY DEF Sources
  <2>1. Current(<<j, "bus">>)' = Current(<<j, "bus">>) /\ Current(<<j, "relay">>)' = Current(<<j, "relay">>)
    BY <1>0, <1>3
  <2>2. \A x \in Items(bus'[j]) : x \in Items(bus[j]) \/ (x = e /\ j = i)
    BY <1>8
  <2> QED BY <1>1, <1>2, <2>1, <2>2 DEF OrderInv, Sources
<1>10. Numbered'
  <2>1. \A x \in Event : x.id <= published => x.id <= published'
    BY <1>1, <1>6
  <2>2. e.id <= published'
    BY <1>1, <1>2
  <2>3. \A j \in Instances : \A x \in Items(bus'[j]) \cup Items(relay'[j]) : x.id <= published'
    BY <1>1, <1>5, <1>8, <2>1, <2>2 DEF OrderInv, Numbered
  <2>4. \A d \in Deliverers : \A x \in Current(d)' : x.id <= published'
    BY <1>3, <1>5, <2>1 DEF OrderInv, Numbered
  <2>5. \A c \in Conns : \A x \in Mail(c)' : x.id <= published'
    BY <1>4, <2>1 DEF OrderInv, Numbered
  <2> QED BY <2>3, <2>4, <2>5 DEF Numbered
<1>11. Addressed'
  BY <1>1, <1>2, <1>3, <1>8 DEF OrderInv, Addressed
<1>12. LineOrder'
  <2> SUFFICES ASSUME NEW j \in Instances, NEW k \in Instances
               PROVE  /\ Ordered(bus'[j]) /\ Ordered(relay'[j])
                      /\ AllBefore(Current(<<j, "bus">>)', Items(bus'[j]))
                      /\ AllBefore(Items(relay'[j]), Items(bus'[k]) \cup Current(<<k, "bus">>)')
                      /\ AllBefore(Current(<<j, "relay">>)',
                                   Items(relay'[j]) \cup Items(bus'[k]) \cup Current(<<k, "bus">>)')
    BY DEF LineOrder
  <2>1. /\ Current(<<j, "bus">>)' = Current(<<j, "bus">>)
        /\ Current(<<j, "relay">>)' = Current(<<j, "relay">>)
        /\ Current(<<k, "bus">>)' = Current(<<k, "bus">>)
    BY <1>0, <1>3
  <2>2. /\ AllBefore(Current(<<j, "bus">>), {e}) /\ AllBefore(Current(<<j, "relay">>), {e})
        /\ AllBefore(Items(relay[j]), {e})
    BY <1>0, <1>7 DEF AllBefore
  <2>3. /\ Items(bus'[j]) \subseteq Items(bus[j]) \cup {e} /\ Ordered(bus'[j])
        /\ Items(bus'[k]) \subseteq Items(bus[k]) \cup {e} /\ relay' = relay
    BY <1>1, <1>8
  <2> QED BY <2>1, <2>2, <2>3 DEF OrderInv, LineOrder, AllBefore
<1>13. ASSUME NEW c \in Conns, NEW x \in Mail(c)' PROVE Settled(c, x)'
  <2>1. Settled(c, x) /\ Before(x, e)
    BY <1>4, <1>7 DEF OrderInv, MailOrder, AllBefore
  <2> QED BY <1>0, <1>1, <1>3, <1>8, <2>1 DEF Settled, AllBefore
<1>14. MailOrder'
  BY <1>1, <1>13 DEF OrderInv, MailOrder
<1> QED BY <1>9, <1>10, <1>11, <1>12, <1>14 DEF OrderInv

\* A goroutine that rested begins with an event, and the others go on.
LEMMA Begins ==
  ASSUME NEW b \in Deliverers, NEW h, task[b] = Resting,
         \A d \in Deliverers :
           task'[d] = IF d = b THEN [event |-> h, todo |-> h.audience] ELSE task[d]
  PROVE  /\ Current(b)' \subseteq {h} /\ Current(b) = {}
         /\ task'[b].todo = h.audience
         /\ \A d \in Deliverers : d # b => Current(d)' = Current(d) /\ task'[d] = task[d]
<1>1. task'[b] = [event |-> h, todo |-> h.audience]
  OBVIOUS
<1>2. task'[b].todo = h.audience /\ task'[b].event = h
  BY <1>1
<1>3. Current(b)' \subseteq {h} /\ Current(b) = {}
  BY <1>2 DEF Current
<1>4. ASSUME NEW d \in Deliverers, d # b PROVE Current(d)' = Current(d) /\ task'[d] = task[d]
  <2>1. task'[d] = task[d]
    BY <1>4
  <2> QED BY <2>1 DEF Current
<1> QED BY <1>2, <1>3, <1>4

\* The dispatcher takes the oldest event of its bus: all mail and all that has been
\* passed on is older, all that still waits is later.
LEMMA DispatchInOrder == ASSUME HubInv, OrderInv, NEW i \in Instances, Dispatch(i) PROVE OrderInv'
<1> DEFINE h == Head(bus[i])
           b == <<i, "bus">>
<1>0. \A j \in Instances : <<j, "bus">> \in Deliverers /\ <<j, "relay">> \in Deliverers
                           /\ <<j, "relay">> # b /\ (j # i => <<j, "bus">> # b)
  BY DEF Deliverers
<1>1. /\ UNCHANGED <<received, send, relay, published>>
      /\ bus[i] \in Seq(Event) /\ bus[i] # <<>> /\ task[b] = Resting
      /\ \A j \in Instances : bus'[j] = IF j = i THEN Tail(bus[i]) ELSE bus[j]
      /\ \A d \in Deliverers :
           task'[d] = IF d = b THEN [event |-> h, todo |-> h.audience] ELSE task[d]
  BY <1>0 DEF Dispatch, connVars, HubInv, TypeOK
<1>2. /\ h \in Items(bus[i]) /\ Items(Tail(bus[i])) \subseteq Items(bus[i])
      /\ Ordered(Tail(bus[i])) /\ AllBefore({h}, Items(Tail(bus[i])))
  <2>1. Ordered(bus[i])
    BY DEF OrderInv, LineOrder
  <2> QED BY <1>1, <2>1, QueueItems
<1>3. /\ \A j \in Instances : Ordered(bus'[j]) /\ Items(bus'[j]) \subseteq Items(bus[j])
      /\ AllBefore({h}, Items(bus'[i]))
  <2>1. ASSUME NEW j \in Instances PROVE Ordered(bus'[j]) /\ Items(bus'[j]) \subseteq Items(bus[j])
    <3>1. CASE j = i
      BY <1>1, <1>2, <3>1
    <3>2. CASE j # i
      BY <1>1, <3>2 DEF OrderInv, LineOrder
    <3> QED BY <3>1, <3>2
  <2>2. bus'[i] = Tail(bus[i])
    BY <1>1
  <2> QED BY <1>2, <2>1, <2>2
<1>4. /\ Current(b)' \subseteq {h} /\ Current(b) = {}
      /\ task'[b].todo = h.audience
      /\ \A d \in Deliverers : d # b => Current(d)' = Current(d) /\ task'[d] = task[d]
  <2>1. /\ b \in Deliverers /\ task[b] = Resting
        /\ \A d \in Deliverers :
             task'[d] = IF d = b THEN [event |-> h, todo |-> h.audience] ELSE task[d]
    BY <1>0, <1>1
  <2> HIDE DEF h, b
  <2> QED BY <2>1, Begins
<1>5. \A c \in Conns : Mail(c)' = Mail(c)
  BY <1>1 DEF Mail
<1>6. Sources'
  <2> SUFFICES ASSUME NEW j \in Instances
               PROVE  /\ \A x \in Items(bus'[j]) \cup Current(<<j, "bus">>)' : x.origin = j
                      /\ \A x \in Items(relay'[j]) \cup Current(<<j, "relay">>)' : x.payment
                      /\ \A x \in Current(<<j, "relay">>)' : x.origin # j
    BY DEF Sources
  <2>1. Current(<<j, "relay">>)' = Current(<<j, "relay">>)
    BY <1>0, <1>4
  <2>2. \A x \in Current(<<j, "bus">>)' : x \in Current(<<j, "bus">>) \/ (x = h /\ j = i)
    BY <1>0, <1>4
  <2>3. relay' = relay /\ h.origin = i /\ Items(bus'[j]) \subseteq Items(bus[j])
    BY <1>1, <1>2, <1>3 DEF OrderInv, Sources
  <2>4. \A x \in Items(bus'[j]) \cup Current(<<j, "bus">>)' : x.origin = j
    BY <2>2, <2>3 DEF OrderInv, Sources
  <2> QED BY <2>1, <2>3, <2>4 DEF OrderInv, Sources
<1>7. Numbered'
  <2>1. ASSUME NEW d \in Deliverers, NEW x \in Current(d)' PROVE x.id <= published
    <3>1. CASE d = b
      BY <1>2, <1>4, <2>1, <3>1 DEF OrderInv, Numbered
    <3>2. CASE d # b
      BY <1>4, <2>1, <3>2 DEF OrderInv, Numbered
    <3> QED BY <3>1, <3>2
  <2> QED BY <1>1, <1>3, <1>5, <2>1 DEF OrderInv, Numbered
<1>8. Addressed'
  <2>1. ASSUME NEW d \in Deliverers, NEW x \in Current(d)', x.payment
        PROVE  OncePerUser(x.audience) /\ OncePerUser(task'[d].todo)
    <3>1. CASE d = b
      BY <1>2, <1>4, <2>1, <3>1 DEF OrderInv, Addressed
    <3>2. CASE d # b
      BY <1>4, <2>1, <3>2 DEF OrderInv, Addressed
    <3> QED BY <3>1, <3>2
  <2>2. \A j \in Instances : \A x \in Items(bus'[j]) \cup Items(relay'[j]) :
          x.payment => OncePerUser(x.audience)
    BY <1>1, <1>3 DEF OrderInv, Addressed
  <2> QED BY <2>1, <2>2 DEF Addressed
<1>9. LineOrder'
  <2> SUFFICES ASSUME NEW j \in Instances, NEW k \in Instances
               PROVE  /\ Ordered(bus'[j]) /\ Ordered(relay'[j])
                      /\ AllBefore(Current(<<j, "bus">>)', Items(bus'[j]))
                      /\ AllBefore(Items(relay'[j]), Items(bus'[k]) \cup Current(<<k, "bus">>)')
                      /\ AllBefore(Current(<<j, "relay">>)',
                                   Items(relay'[j]) \cup Items(bus'[k]) \cup Current(<<k, "bus">>)')
    BY DEF LineOrder
  <2>1. Current(<<j, "relay">>)' = Current(<<j, "relay">>)
    BY <1>0, <1>4
  <2>2. Items(bus'[k]) \cup Current(<<k, "bus">>)' \subseteq Items(bus[k]) \cup Current(<<k, "bus">>)
    <3>1. CASE k = i
      BY <1>2, <1>3, <1>4, <3>1
    <3>2. CASE k # i
      BY <1>0, <1>3, <1>4, <3>2
    <3> QED BY <3>1, <3>2
  <2>3. AllBefore(Current(<<j, "bus">>)', Items(bus'[j]))
    <3>1. CASE j = i
      BY <1>3, <1>4, <3>1 DEF AllBefore
    <3>2. CASE j # i
      <4>1. Current(<<j, "bus">>)' = Current(<<j, "bus">>)
        BY <1>0, <1>4, <3>2
      <4> QED BY <1>3, <4>1 DEF OrderInv, LineOrder, AllBefore
    <3> QED BY <3>1, <3>2
  <2>4. Ordered(bus'[j]) /\ Ordered(relay'[j])
    BY <1>1, <1>3 DEF OrderInv, LineOrder
  <2>5. relay' = relay
    BY <1>1
  <2> QED BY <2>1, <2>2, <2>3, <2>4, <2>5 DEF OrderInv, LineOrder, AllBefore
<1>10. ASSUME NEW c \in Conns, NEW x \in Mail(c)' PROVE Settled(c, x)'
  <2>1. Settled(c, x) /\ Home[c] \in Instances
    BY <1>5, RealtimeAssumption DEF OrderInv, MailOrder
  <2>2. AllBefore({x}, {h})
    BY <1>2, <2>1 DEF Settled, AllBefore
  <2>3. ASSUME NEW j \in Instances
        PROVE  /\ AllBefore({x}, Items(bus'[j]))
               /\ j # Home[c] => AllBefore({x}, Current(<<j, "bus">>)')
    <3>1. AllBefore({x}, Items(bus'[j]))
      BY <1>3, <2>1 DEF Settled, AllBefore
    <3>2. Current(<<j, "bus">>)' \subseteq Current(<<j, "bus">>) \cup {h}
      BY <1>0, <1>4
    <3>3. j # Home[c] => AllBefore({x}, Current(<<j, "bus">>))
      BY <2>1 DEF Settled
    <3> QED BY <2>2, <3>1, <3>2, <3>3 DEF AllBefore
  <2>4. x.origin # Home[c] => AllBefore({x}, Items(relay'[Home[c]]))
    BY <1>1, <2>1 DEF Settled
  <2>5. ASSUME NEW d \in Deliverers, d[1] = Home[c]
        PROVE  AllBefore({x}, Current(d)') \/ Served(c, d)'
    <3>1. CASE d = b
      BY <1>4, <2>2, <3>1 DEF AllBefore
    <3>2. CASE d # b
      <4>1. Current(d)' = Current(d) /\ task'[d] = task[d]
        BY <1>4, <3>2
      <4>2. AllBefore({x}, Current(d)) \/ Served(c, d)
        BY <2>1, <2>5 DEF Settled
      <4> QED BY <4>1, <4>2 DEF Served
    <3> QED BY <3>1, <3>2
  <2> QED BY <2>3, <2>4, <2>5 DEF Settled, AllBefore
<1>11. MailOrder'
  BY <1>1, <1>10 DEF OrderInv, MailOrder
<1> QED BY <1>6, <1>7, <1>8, <1>9, <1>11 DEF OrderInv

\* The listener takes the oldest message of its relay, unless it is an echo.
LEMMA ListenInOrder == ASSUME HubInv, OrderInv, NEW i \in Instances, Listen(i) PROVE OrderInv'
<1> DEFINE h == Head(relay[i])
           b == <<i, "relay">>
<1>0. \A j \in Instances : <<j, "bus">> \in Deliverers /\ <<j, "relay">> \in Deliverers
                           /\ <<j, "bus">> # b /\ (j # i => <<j, "relay">> # b)
  BY DEF Deliverers
<1>1. /\ UNCHANGED <<received, send, bus, published>>
      /\ relay[i] \in Seq(Event) /\ relay[i] # <<>> /\ task[b] = Resting
      /\ \A j \in Instances : relay'[j] = IF j = i THEN Tail(relay[i]) ELSE relay[j]
  BY DEF Listen, connVars, HubInv, TypeOK
<1>2. /\ h \in Items(relay[i]) /\ Items(Tail(relay[i])) \subseteq Items(relay[i])
      /\ Ordered(Tail(relay[i])) /\ AllBefore({h}, Items(Tail(relay[i])))
  <2>1. Ordered(relay[i])
    BY DEF OrderInv, LineOrder
  <2> QED BY <1>1, <2>1, QueueItems
<1>3. /\ \A j \in Instances : Ordered(relay'[j]) /\ Items(relay'[j]) \subseteq Items(relay[j])
      /\ AllBefore({h}, Items(relay'[i]))
  <2>1. ASSUME NEW j \in Instances PROVE Ordered(relay'[j]) /\ Items(relay'[j]) \subseteq Items(relay[j])
    <3>1. CASE j = i
      BY <1>1, <1>2, <3>1
    <3>2. CASE j # i
      BY <1>1, <3>2 DEF OrderInv, LineOrder
    <3> QED BY <3>1, <3>2
  <2>2. relay'[i] = Tail(relay[i])
    BY <1>1
  <2> QED BY <1>2, <2>1, <2>2
<1>4. CASE ~Foreign(i, h)
  <2>1. task' = task
    BY <1>4 DEF Listen
  <2>2. \A c \in Conns : Ordered(send'[c]) /\ Items(send'[c]) \subseteq Items(send[c])
    BY <1>1 DEF OrderInv, MailOrder
  <2>3. \A j \in Instances : Ordered(bus'[j]) /\ Items(bus'[j]) \subseteq Items(bus[j])
    BY <1>1 DEF OrderInv, LineOrder
  <2> QED BY <1>1, <1>3, <2>1, <2>2, <2>3, Shrinks
<1>5. CASE Foreign(i, h)
  <2>1. \A d \in Deliverers :
          task'[d] = IF d = b THEN [event |-> h, todo |-> h.audience] ELSE task[d]
    <3>1. b \in Deliverers /\ task \in [Deliverers -> [event : Event \cup {None}, todo : Seq(SUBSET Rooms)]]
      BY <1>0 DEF HubInv, TypeOK
    <3>2. task' = [task EXCEPT ![b] = [event |-> h, todo |-> h.audience]]
      BY <1>5 DEF Listen
    <3> QED BY <3>1, <3>2
  <2>2. /\ Current(b)' \subseteq {h} /\ Current(b) = {}
        /\ task'[b].todo = h.audience
        /\ \A d \in Deliverers : d # b => Current(d)' = Current(d) /\ task'[d] = task[d]
    <3>1. b \in Deliverers /\ task[b] = Resting
      BY <1>0, <1>1
    <3> HIDE DEF h, b
    <3> QED BY <2>1, <3>1, Begins
  <2>3. \A c \in Conns : Mail(c)' = Mail(c)
    BY <1>1 DEF Mail
  <2>4. h.payment /\ h.origin # i /\ h.id <= published /\ OncePerUser(h.audience)
    BY <1>2, <1>5 DEF Foreign, OrderInv, Sources, Numbered, Addressed
  <2>5. Sources'
    <3> SUFFICES ASSUME NEW j \in Instances
                 PROVE  /\ \A x \in Items(bus'[j]) \cup Current(<<j, "bus">>)' : x.origin = j
                        /\ \A x \in Items(relay'[j]) \cup Current(<<j, "relay">>)' : x.payment
                        /\ \A x \in Current(<<j, "relay">>)' : x.origin # j
      BY DEF Sources
    <3>1. Current(<<j, "bus">>)' = Current(<<j, "bus">>)
      BY <1>0, <2>2
    <3>2. \A x \in Current(<<j, "relay">>)' : x \in Current(<<j, "relay">>) \/ (x = h /\ j = i)
      BY <1>0, <2>2
    <3> QED BY <1>1, <1>3, <2>4, <3>1, <3>2 DEF OrderInv, Sources
  <2>6. Numbered'
    <3>1. ASSUME NEW d \in Deliverers, NEW x \in Current(d)' PROVE x.id <= published
      <4>1. CASE d = b
        BY <2>2, <2>4, <3>1, <4>1
      <4>2. CASE d # b
        BY <2>2, <3>1, <4>2 DEF OrderInv, Numbered
      <4> QED BY <4>1, <4>2
    <3> QED BY <1>1, <1>3, <2>3, <3>1 DEF OrderInv, Numbered
  <2>7. Addressed'
    <3>1. ASSUME NEW d \in Deliverers, NEW x \in Current(d)', x.payment
          PROVE  OncePerUser(x.audience) /\ OncePerUser(task'[d].todo)
      <4>1. CASE d = b
        BY <2>2, <2>4, <3>1, <4>1
      <4>2. CASE d # b
        BY <2>2, <3>1, <4>2 DEF OrderInv, Addressed
      <4> QED BY <4>1, <4>2
    <3>2. \A j \in Instances : \A x \in Items(bus'[j]) \cup Items(relay'[j]) :
            x.payment => OncePerUser(x.audience)
      BY <1>1, <1>3 DEF OrderInv, Addressed
    <3> QED BY <3>1, <3>2 DEF Addressed
  <2>8. LineOrder'
    <3> SUFFICES ASSUME NEW j \in Instances, NEW k \in Instances
                 PROVE  /\ Ordered(bus'[j]) /\ Ordered(relay'[j])
                        /\ AllBefore(Current(<<j, "bus">>)', Items(bus'[j]))
                        /\ AllBefore(Items(relay'[j]), Items(bus'[k]) \cup Current(<<k, "bus">>)')
                        /\ AllBefore(Current(<<j, "relay">>)',
                                     Items(relay'[j]) \cup Items(bus'[k]) \cup Current(<<k, "bus">>)')
      BY DEF LineOrder
    <3>1. /\ Current(<<j, "bus">>)' = Current(<<j, "bus">>)
          /\ Current(<<k, "bus">>)' = Current(<<k, "bus">>) /\ bus' = bus
      BY <1>0, <1>1, <2>2
    <3>2. AllBefore(Items(relay'[j]), Items(bus'[k]) \cup Current(<<k, "bus">>)')
      BY <1>3, <3>1 DEF OrderInv, LineOrder, AllBefore
    <3>3. AllBefore(Current(<<j, "relay">>)',
                    Items(relay'[j]) \cup Items(bus'[k]) \cup Current(<<k, "bus">>)')
      <4>1. CASE j = i
        <5>1. AllBefore({h}, Items(bus[k]) \cup Current(<<k, "bus">>))
          BY <1>2 DEF OrderInv, LineOrder, AllBefore
        <5> QED BY <1>3, <2>2, <3>1, <4>1, <5>1 DEF AllBefore
      <4>2. CASE j # i
        <5>1. Current(<<j, "relay">>)' = Current(<<j, "relay">>)
          BY <1>0, <2>2, <4>2
        <5> QED BY <1>3, <3>1, <5>1 DEF OrderInv, LineOrder, AllBefore
      <4> QED BY <4>1, <4>2
    <3> QED BY <1>3, <3>1, <3>2, <3>3 DEF OrderInv, LineOrder
  <2>9. ASSUME NEW c \in Conns, NEW x \in Mail(c)' PROVE Settled(c, x)'
    <3>1. Settled(c, x) /\ Home[c] \in Instances
      BY <2>3, RealtimeAssumption DEF OrderInv, MailOrder
    <3>2. ASSUME NEW j \in Instances
          PROVE  /\ AllBefore({x}, Items(bus'[j]))
                 /\ j # Home[c] => AllBefore({x}, Current(<<j, "bus">>)')
      <4>1. Current(<<j, "bus">>)' = Current(<<j, "bus">>) /\ bus' = bus
        BY <1>0, <1>1, <2>2
      <4> QED BY <3>1, <4>1 DEF Settled
    <3>3. x.origin # Home[c] => AllBefore({x}, Items(relay'[Home[c]]))
      BY <1>3, <3>1 DEF Settled, AllBefore
    <3>4. ASSUME NEW d \in Deliverers, d[1] = Home[c]
          PROVE  AllBefore({x}, Current(d)') \/ Served(c, d)'
      <4>1. CASE d = b
        <5>1. Home[c] = i
          BY <3>4, <4>1
        <5>2. Before(x, h)
          <6>1. CASE x.origin = i
            BY <2>4, <6>1 DEF Before
          <6>2. CASE x.origin # i
            BY <1>2, <3>1, <5>1, <6>2 DEF Settled, AllBefore
          <6> QED BY <6>1, <6>2
        <5> QED BY <2>2, <4>1, <5>2 DEF AllBefore
      <4>2. CASE d # b
        <5>1. Current(d)' = Current(d) /\ task'[d] = task[d]
          BY <2>2, <4>2
        <5>2. AllBefore({x}, Current(d)) \/ Served(c, d)
          BY <3>1, <3>4 DEF Settled
        <5> QED BY <5>1, <5>2 DEF Served
      <4> QED BY <4>1, <4>2
    <3> QED BY <3>2, <3>3, <3>4 DEF Settled, AllBefore
  <2>10. MailOrder'
    BY <1>1, <2>9 DEF OrderInv, MailOrder
  <2> QED BY <2>5, <2>6, <2>7, <2>8, <2>10 DEF OrderInv
<1> QED BY <1>4, <1>5

\* The next rooms get the event.  Whoever is in them is a user the payment is meant
\* for and has not had it yet, so that all its mail is older; and nobody among them
\* is in a room that is still to come.
LEMMA BroadcastInOrder ==
  ASSUME HubInv, OwnInv, OrderInv, NEW d \in Deliverers, Broadcast(d)
  PROVE  OrderInv'
<1> DEFINE e == task[d].event
           todo == task[d].todo
<1>0. /\ \A j \in Instances : <<j, "bus">> \in Deliverers /\ <<j, "relay">> \in Deliverers
      /\ d[1] \in Instances /\ (d = <<d[1], "bus">> \/ d = <<d[1], "relay">>)
  BY DEF Deliverers
<1>1. /\ UNCHANGED <<received, bus, relay, published>>
      /\ todo \in Seq(SUBSET Rooms) /\ todo # <<>> /\ e \in Event
      /\ \A c \in Conns : send[c] \in Seq(Event) /\ received[c] \in Seq(Event)
  BY DEF Broadcast, HubInv, TypeOK, TasksMeant
<1>2. /\ task'[d].event = e /\ task'[d].todo = Tail(todo)
      /\ \A x \in Deliverers : x # d => task'[x] = task[x]
  <2>1. /\ task' = [task EXCEPT ![d].todo = Tail(@)]
        /\ task \in [Deliverers -> [event : Event \cup {None}, todo : Seq(SUBSET Rooms)]]
    BY DEF Broadcast, HubInv, TypeOK
  <2> QED BY <2>1
<1>3. ASSUME NEW c \in Conns
      PROVE  send'[c] = send[c] \/ (c \in Members(d) /\ send'[c] = Append(send[c], e))
  <2> DEFINE fits(x) == x \in Members(d) /\ Len(send[x]) < SendBuffer
  <2>1. send' = [x \in Conns |-> IF fits(x) THEN Append(send[x], e) ELSE send[x]]
    BY DEF Broadcast
  <2>2. fits(c) => c \in Members(d)
    OBVIOUS
  <2> HIDE DEF fits
  <2>3. send'[c] = IF fits(c) THEN Append(send[c], e) ELSE send[c]
    BY <2>1
  <2> QED BY <2>2, <2>3
<1>4. Current(d) = {e} /\ \A x \in Deliverers : Current(x)' \subseteq Current(x)
  <2>1. Current(d) = {e}
    BY <1>1 DEF Current, Resting
  <2>2. ASSUME NEW x \in Deliverers PROVE Current(x)' \subseteq Current(x)
    <3>1. CASE x = d
      BY <1>2, <2>1, <3>1 DEF Current
    <3>2. CASE x # d
      BY <1>2, <3>2 DEF Current
    <3> QED BY <3>1, <3>2
  <2> QED BY <2>1, <2>2
<1>5. /\ Head(todo) = todo[1] /\ 1 \in DOMAIN todo
      /\ \A n \in DOMAIN Tail(todo) :
           n \in Nat /\ n + 1 \in DOMAIN todo /\ n + 1 # 1 /\ Tail(todo)[n] = todo[n + 1]
  <2>1. /\ Tail(todo) \in Seq(SUBSET Rooms) /\ Len(Tail(todo)) = Len(todo) - 1 /\ Len(todo) # 0
        /\ \A n \in 1..Len(Tail(todo)) : Tail(todo)[n] = todo[n + 1]
        /\ Head(todo) = todo[1]
    BY <1>1, HeadTailProperties, EmptySeq
  <2>2. /\ DOMAIN Tail(todo) = 1..(Len(todo) - 1) /\ Len(todo) \in Nat
        /\ DOMAIN todo = 1..Len(todo)
    BY <1>1, <2>1, LenProperties
  <2> QED BY <2>1, <2>2
<1>6. \A c \in Conns, x \in Deliverers : Served(c, x) => Served(c, x)'
  <2> SUFFICES ASSUME NEW c \in Conns, NEW x \in Deliverers, Served(c, x) PROVE Served(c, x)'
    OBVIOUS
  <2>1. CASE x = d
    BY <1>2, <1>5, <2>1 DEF Served
  <2>2. CASE x # d
    BY <1>2, <2>2 DEF Served
  <2> QED BY <2>1, <2>2
<1>7. e.payment => OncePerUser(e.audience) /\ OncePerUser(todo) /\ OncePerUser(Tail(todo))
  <2>1. e.payment => OncePerUser(e.audience) /\ OncePerUser(todo)
    BY <1>4 DEF OrderInv, Addressed
  <2>2. ASSUME OncePerUser(todo) PROVE OncePerUser(Tail(todo))
    BY <1>5, <2>2 DEF OncePerUser
  <2> QED BY <2>1, <2>2
<1>8. ASSUME NEW c \in Members(d), e.payment
      PROVE  ~Served(c, d) /\ Served(c, d)'
  <2>1. PICK r \in Head(todo) : c \in rooms[r]
    BY DEF Members
  <2>2. PICK u \in Users : r = UserRoom(u)
    BY <1>5, <1>7, <1>8, <2>1 DEF OncePerUser
  <2>3. c \in Conns /\ r \in Own(c)
    BY <2>1, <2>2 DEF Members, OwnInv, RoomsOwn, Rooms
  <2>4. r = UserRoom(Owner[c])
    BY <2>2, <2>3 DEF Own, UserRoom, TenantRoom
  <2>5. ~Served(c, d)
    BY <1>5, <2>1, <2>4 DEF Served
  <2>6. ASSUME NEW n \in DOMAIN Tail(todo) PROVE UserRoom(Owner[c]) \notin Tail(todo)[n]
    BY <1>5, <1>7, <1>8, <2>1, <2>4, <2>6 DEF OncePerUser
  <2> QED BY <1>2, <2>5, <2>6 DEF Served
<1>9. ASSUME NEW c \in Members(d) PROVE AllBefore(Mail(c), {e})
  <2>1. c \in Conns /\ Home[c] = d[1]
    BY DEF Members
  <2>2. ASSUME NEW x \in Mail(c) PROVE Before(x, e)
    <3>1. Settled(c, x)
      BY <2>1 DEF OrderInv, MailOrder
    <3>2. AllBefore({x}, Current(d)) \/ Served(c, d)
      BY <2>1, <3>1 DEF Settled
    <3>3. CASE e.payment
      BY <1>4, <1>8, <3>2, <3>3 DEF AllBefore
    <3>4. CASE ~e.payment
      BY <3>4 DEF Before
    <3> QED BY <3>3, <3>4
  <2> QED BY <2>2 DEF AllBefore
<1>10. ASSUME NEW c \in Members(d), NEW m, m = e PROVE Settled(c, m)'
  <2>1. c \in Conns /\ Home[c] = d[1]
    BY DEF Members
  <2>2. CASE ~e.payment
    BY <1>10, <2>2 DEF Settled, AllBefore, Before
  <2>3. CASE e.payment /\ d = <<d[1], "bus">>
    <3>1. m.origin = Home[c]
      BY <1>0, <1>4, <1>10, <2>1, <2>3 DEF OrderInv, Sources
    <3>2. ASSUME NEW j \in Instances
          PROVE  /\ AllBefore({m}, Items(bus'[j]))
                 /\ j # Home[c] => AllBefore({m}, Current(<<j, "bus">>)')
      <4>1. CASE j = d[1]
        BY <1>0, <1>1, <1>4, <1>10, <2>1, <2>3, <4>1 DEF OrderInv, LineOrder
      <4>2. CASE j # d[1]
        <5>1. \A y \in Items(bus'[j]) \cup Current(<<j, "bus">>)' : y.origin = j
          BY <1>0, <1>1, <1>4 DEF OrderInv, Sources
        <5> QED BY <2>1, <3>1, <4>2, <5>1 DEF AllBefore, Before
      <4> QED BY <4>1, <4>2
    <3>3. ASSUME NEW x \in Deliverers, x[1] = Home[c]
          PROVE  AllBefore({m}, Current(x)') \/ Served(c, x)'
      <4>1. CASE x = d
        BY <1>8, <2>3, <4>1
      <4>2. CASE x # d
        <5>1. x = <<Home[c], "relay">>
          BY <2>1, <2>3, <3>3, <4>2 DEF Deliverers
        <5>2. \A y \in Current(x)' : y.origin # Home[c]
          BY <1>0, <1>4, <2>1, <5>1 DEF OrderInv, Sources
        <5> QED BY <3>1, <5>2 DEF AllBefore, Before
      <4> QED BY <4>1, <4>2
    <3> QED BY <3>1, <3>2, <3>3 DEF Settled
  <2>4. CASE e.payment /\ d = <<d[1], "relay">>
    <3>1. m.origin # Home[c]
      BY <1>0, <1>4, <1>10, <2>1, <2>4 DEF OrderInv, Sources
    <3>2. ASSUME NEW j \in Instances
          PROVE  /\ AllBefore({m}, Items(bus'[j]) \cup Items(relay'[Home[c]]))
                 /\ AllBefore({m}, Current(<<j, "bus">>)')
      <4>1. AllBefore({m}, Items(relay[d[1]]) \cup Items(bus[j]) \cup Current(<<j, "bus">>))
        BY <1>0, <1>4, <1>10, <2>4 DEF OrderInv, LineOrder
      <4>2. Current(<<j, "bus">>)' \subseteq Current(<<j, "bus">>)
        BY <1>0, <1>4
      <4> QED BY <1>1, <2>1, <4>1, <4>2 DEF AllBefore
    <3>3. ASSUME NEW x \in Deliverers, x[1] = Home[c]
          PROVE  AllBefore({m}, Current(x)') \/ Served(c, x)'
      <4>1. CASE x = d
        BY <1>8, <2>4, <4>1
      <4>2. CASE x # d
        <5>1. x = <<Home[c], "bus">>
          BY <2>1, <2>4, <3>3, <4>2 DEF Deliverers
        <5>2. \A y \in Current(x)' : y.origin = Home[c]
          BY <1>0, <1>4, <2>1, <5>1 DEF OrderInv, Sources
        <5> QED BY <3>1, <5>2 DEF AllBefore, Before
      <4> QED BY <4>1, <4>2
    <3>4. AllBefore({m}, Items(relay'[Home[c]]))
      BY <1>0, <3>2 DEF AllBefore
    <3>5. \A j \in Instances : AllBefore({m}, Items(bus'[j])) /\ AllBefore({m}, Current(<<j, "bus">>)')
      BY <3>2 DEF AllBefore
    <3> QED BY <3>3, <3>4, <3>5 DEF Settled
  <2> QED BY <1>0, <2>2, <2>3, <2>4
<1>11. Sources'
  BY <1>0, <1>1, <1>4 DEF OrderInv, Sources
<1>12. \A c \in Conns : \A x \in Mail(c)' : x \in Mail(c) \/ (x = e /\ c \in Members(d))
  <2> SUFFICES ASSUME NEW c \in Conns, NEW x \in Mail(c)'
               PROVE  x \in Mail(c) \/ (x = e /\ c \in Members(d))
    OBVIOUS
  <2>1. CASE send'[c] = send[c]
    BY <1>1, <2>1 DEF Mail
  <2>2. CASE c \in Members(d) /\ send'[c] = Append(send[c], e)
    <3>1. Items(send'[c]) = Items(send[c]) \cup {e}
      BY <1>1, <2>2, QueueItems
    <3> QED BY <1>1, <2>2, <3>1 DEF Mail
  <2> QED BY <1>3, <2>1, <2>2
<1>13. Numbered'
  <2>1. e.id <= published
    BY <1>4 DEF OrderInv, Numbered
  <2>2. \A c \in Conns : \A x \in Mail(c)' : x.id <= published'
    BY <1>1, <1>12, <2>1 DEF OrderInv, Numbered
  <2>3. \A x \in Deliverers : \A y \in Current(x)' : y.id <= published'
    BY <1>1, <1>4 DEF OrderInv, Numbered
  <2> QED BY <1>1, <2>2, <2>3 DEF OrderInv, Numbered
<1>14. Addressed'
  <2>1. ASSUME NEW x \in Deliverers, NEW y \in Current(x)', y.payment
        PROVE  OncePerUser(y.audience) /\ OncePerUser(task'[x].todo)
    <3>1. CASE x = d
      BY <1>2, <1>4, <1>7, <2>1, <3>1
    <3>2. CASE x # d
      BY <1>2, <1>4, <2>1, <3>2 DEF OrderInv, Addressed
    <3> QED BY <3>1, <3>2
  <2>2. \A j \in Instances : \A x \in Items(bus'[j]) \cup Items(relay'[j]) :
          x.payment => OncePerUser(x.audience)
    BY <1>1 DEF OrderInv, Addressed
  <2> QED BY <2>1, <2>2 DEF Addressed
<1>15. LineOrder'
  BY <1>0, <1>1, <1>4 DEF OrderInv, LineOrder, AllBefore
<1>16. ASSUME NEW c \in Conns, NEW x \in Mail(c) PROVE Settled(c, x)'
  <2>1. Settled(c, x) /\ Home[c] \in Instances
    BY RealtimeAssumption DEF OrderInv, MailOrder
  <2>2. ASSUME NEW j \in Instances
        PROVE  /\ AllBefore({x}, Items(bus'[j]))
               /\ j # Home[c] => AllBefore({x}, Current(<<j, "bus">>)')
    <3>1. Current(<<j, "bus">>)' \subseteq Current(<<j, "bus">>)
      BY <1>0, <1>4
    <3> QED BY <1>1, <2>1, <3>1 DEF Settled, AllBefore
  <2>3. x.origin # Home[c] => AllBefore({x}, Items(relay'[Home[c]]))
    BY <1>1, <2>1 DEF Settled
  <2>4. ASSUME NEW y \in Deliverers, y[1] = Home[c]
        PROVE  AllBefore({x}, Current(y)') \/ Served(c, y)'
    <3>1. AllBefore({x}, Current(y)) \/ Served(c, y)
      BY <2>1, <2>4 DEF Settled
    <3> QED BY <1>4, <1>6, <3>1 DEF AllBefore
  <2> QED BY <2>2, <2>3, <2>4 DEF Settled
<1>17. ASSUME NEW c \in Conns
       PROVE  /\ Ordered(received'[c]) /\ Ordered(send'[c])
              /\ AllBefore(Items(received'[c]), Items(send'[c]))
  <2>1. /\ Ordered(received[c]) /\ Ordered(send[c]) /\ received'[c] = received[c]
        /\ AllBefore(Items(received[c]), Items(send[c]))
    BY <1>1 DEF OrderInv, MailOrder
  <2>2. CASE send'[c] = send[c]
    BY <2>1, <2>2
  <2>3. CASE c \in Members(d) /\ send'[c] = Append(send[c], e)
    <3>1. AllBefore(Items(send[c]), {e}) /\ AllBefore(Items(received[c]), {e})
      BY <1>9, <2>3 DEF Mail, AllBefore
    <3>2. Ordered(send'[c]) /\ Items(send'[c]) = Items(send[c]) \cup {e}
      BY <1>1, <2>1, <2>3, <3>1, QueueItems
    <3> QED BY <2>1, <3>1, <3>2 DEF AllBefore
  <2> QED BY <1>3, <2>2, <2>3
<1>18. MailOrder'
  <2>1. ASSUME NEW c \in Conns, NEW x \in Mail(c)' PROVE Settled(c, x)'
    <3>1. CASE x \in Mail(c)
      BY <1>16, <3>1
    <3>2. CASE x = e /\ c \in Members(d)
      BY <1>10, <3>2
    <3> QED BY <1>12, <2>1, <3>1, <3>2
  <2> QED BY <1>17, <2>1 DEF MailOrder
<1> QED BY <1>11, <1>13, <1>14, <1>15, <1>18 DEF OrderInv

\* A handler returns.  What it passes on to Redis is older than all that its
\* own bus still holds, and later than all that Redis and its listeners have of it.
LEMMA FinishInOrder ==
  ASSUME HubInv, OrderInv, NEW d \in Deliverers, Finish(d) PROVE OrderInv'
<1> DEFINE e == task[d].event
<1>0. \A j \in Instances : <<j, "bus">> \in Deliverers /\ <<j, "relay">> \in Deliverers
  BY DEF Deliverers
<1>1. /\ UNCHANGED <<received, send, bus, published>> /\ task[d] # Resting
      /\ task'[d] = Resting
      /\ \A x \in Deliverers : task'[x] = task[x] \/ task'[x] = Resting
  BY DEF Finish, connVars, HubInv, TypeOK
<1>2. CASE relay' = relay
  <2>1. \A c \in Conns : Ordered(send'[c]) /\ Items(send'[c]) \subseteq Items(send[c])
    BY <1>1 DEF OrderInv, MailOrder
  <2>2. \A j \in Instances :
          /\ Ordered(bus'[j]) /\ Items(bus'[j]) \subseteq Items(bus[j])
          /\ Ordered(relay'[j]) /\ Items(relay'[j]) \subseteq Items(relay[j])
    BY <1>1, <1>2 DEF OrderInv, LineOrder
  <2> QED BY <1>1, <2>1, <2>2, Shrinks
<1>3. CASE /\ d[2] = "bus" /\ e.payment
           /\ relay' = [i \in Instances |-> Append(relay[i], e)]
  <2>1. PICK i \in Instances : d = <<i, "bus">>
    BY <1>3 DEF Deliverers
  <2>2. /\ Current(d) = {e} /\ e \in Event /\ e.payment
        /\ Current(d)' = {} /\ \A x \in Deliverers : Current(x)' \subseteq Current(x)
    <3>1. Current(d) = {e} /\ e \in Event
      BY <1>1, CurrentTyped
    <3>2. Current(d)' = {} /\ \A x \in Deliverers : Current(x)' \subseteq Current(x)
      BY <1>1 DEF Current
    <3> QED BY <1>3, <3>1, <3>2
  <2>3. e.origin = i /\ e.id <= published /\ OncePerUser(e.audience)
    BY <1>0, <2>1, <2>2 DEF OrderInv, Sources, Numbered, Addressed
  <2>4. ASSUME NEW j \in Instances
        PROVE  Ordered(relay'[j]) /\ Items(relay'[j]) = Items(relay[j]) \cup {e}
    <3>1. relay[j] \in Seq(Event) /\ relay'[j] = Append(relay[j], e)
      BY <1>3 DEF HubInv, TypeOK
    <3>2. Ordered(relay[j]) /\ AllBefore(Items(relay[j]), {e})
      BY <2>1, <2>2 DEF OrderInv, LineOrder, AllBefore
    <3>3. e \in Event
      BY <2>2
    <3> HIDE DEF e
    <3> QED BY <3>1, <3>2, <3>3, QueueItems
  <2>5. \A k \in Instances : AllBefore({e}, Items(bus[k]) \cup Current(<<k, "bus">>)')
    <3> SUFFICES ASSUME NEW k \in Instances
                 PROVE  AllBefore({e}, Items(bus[k]) \cup Current(<<k, "bus">>)')
      OBVIOUS
    <3>1. CASE k = i
      BY <2>1, <2>2, <3>1 DEF OrderInv, LineOrder
    <3>2. CASE k # i
      <4>1. \A y \in Items(bus[k]) \cup Current(<<k, "bus">>)' : y.origin = k
        BY <1>0, <2>2 DEF OrderInv, Sources
      <4> QED BY <2>3, <3>2, <4>1 DEF AllBefore, Before
    <3> QED BY <3>1, <3>2
  <2>6. Sources'
    <3> SUFFICES ASSUME NEW j \in Instances
                 PROVE  /\ \A x \in Items(bus'[j]) \cup Current(<<j, "bus">>)' : x.origin = j
                        /\ \A x \in Items(relay'[j]) \cup Current(<<j, "relay">>)' : x.payment
                        /\ \A x \in Current(<<j, "relay">>)' : x.origin # j
      BY DEF Sources
    <3>1. /\ Current(<<j, "bus">>)' \subseteq Current(<<j, "bus">>)
          /\ Current(<<j, "relay">>)' \subseteq Current(<<j, "relay">>)
      BY <1>0, <2>2
    <3> QED BY <1>1, <2>2, <2>4, <3>1 DEF OrderInv, Sources
  <2>7. Numbered'
    <3>1. \A j \in Instances : \A x \in Items(bus'[j]) \cup Items(relay'[j]) : x.id <= published'
      BY <1>1, <2>3, <2>4 DEF OrderInv, Numbered
    <3>2. \A x \in Deliverers : \A y \in Current(x)' : y.id <= published'
      BY <1>1, <2>2 DEF OrderInv, Numbered
    <3>3. \A c \in Conns : \A x \in Mail(c)' : x.id <= published'
      BY <1>1 DEF Mail, OrderInv, Numbered
    <3> QED BY <3>1, <3>2, <3>3 DEF Numbered
  <2>8. Addressed'
    <3>1. \A j \in Instances : \A x \in Items(bus'[j]) \cup Items(relay'[j]) :
            x.payment => OncePerUser(x.audience)
      BY <1>1, <2>3, <2>4 DEF OrderInv, Addressed
    <3>2. ASSUME NEW x \in Deliverers, NEW y \in Current(x)', y.payment
          PROVE  OncePerUser(y.audience) /\ OncePerUser(task'[x].todo)
      <4>1. task'[x] = task[x] /\ y \in Current(x)
        BY <1>1, <2>2, <3>2 DEF Current
      <4> QED BY <3>2, <4>1 DEF OrderInv, Addressed
    <3> QED BY <3>1, <3>2 DEF Addressed
  <2>9. LineOrder'
    <3> SUFFICES ASSUME NEW j \in Instances, NEW k \in Instances
                 PROVE  /\ Ordered(bus'[j]) /\ Ordered(relay'[j])
                        /\ AllBefore(Current(<<j, "bus">>)', Items(bus'[j]))
                        /\ AllBefore(Items(relay'[j]), Items(bus'[k]) \cup Current(<<k, "bus">>)')
                        /\ AllBefore(Current(<<j, "relay">>)',
                                     Items(relay'[j]) \cup Items(bus'[k]) \cup Current(<<k, "bus">>)')
      BY DEF LineOrder
    <3>1. /\ Current(<<j, "bus">>)' \subseteq Current(<<j, "bus">>)
          /\ Current(<<j, "relay">>)' \subseteq Current(<<j, "relay">>)
          /\ Current(<<k, "bus">>)' \subseteq Current(<<k, "bus">>)
      BY <1>0, <2>2
    <3>2. AllBefore(Current(<<j, "relay">>), {e})
      BY <2>1, <2>2 DEF OrderInv, LineOrder, AllBefore
    <3>3. /\ Ordered(bus[j]) /\ AllBefore(Current(<<j, "bus">>), Items(bus[j]))
          /\ AllBefore(Items(relay[j]), Items(bus[k]) \cup Current(<<k, "bus">>))
          /\ AllBefore(Current(<<j, "relay">>),
                       Items(relay[j]) \cup Items(bus[k]) \cup Current(<<k, "bus">>))
      BY DEF OrderInv, LineOrder
    <3>4. AllBefore({e}, Items(bus[k]) \cup Current(<<k, "bus">>)')
      BY <2>5
    <3> HIDE DEF e
    <3> QED BY <1>1, <2>4, <3>1, <3>2, <3>3, <3>4 DEF AllBefore
  <2>10. ASSUME NEW c \in Conns, NEW x \in Mail(c)' PROVE Settled(c, x)'
    <3>1. Settled(c, x) /\ Home[c] \in Instances
      BY <1>1, <2>10, RealtimeAssumption DEF Mail, OrderInv, MailOrder
    <3>2. ASSUME NEW j \in Instances
          PROVE  /\ AllBefore({x}, Items(bus'[j]))
                 /\ j # Home[c] => AllBefore({x}, Current(<<j, "bus">>)')
      <4>1. Current(<<j, "bus">>)' \subseteq Current(<<j, "bus">>)
        BY <1>0, <2>2
      <4> QED BY <1>1, <3>1, <4>1 DEF Settled, AllBefore
    <3>3. ASSUME x.origin # Home[c] PROVE AllBefore({x}, Items(relay'[Home[c]]))
      <4>1. Before(x, e)
        <5>1. CASE x.origin = i
          BY <2>1, <2>2, <3>1, <3>3, <5>1 DEF Settled, AllBefore
        <5>2. CASE x.origin # i
          BY <2>3, <5>2 DEF Before
        <5> QED BY <5>1, <5>2
      <4> QED BY <2>4, <3>1, <3>3, <4>1 DEF Settled, AllBefore
    <3>4. ASSUME NEW y \in Deliverers, y[1] = Home[c]
          PROVE  AllBefore({x}, Current(y)') \/ Served(c, y)'
      <4>1. CASE task'[y] = task[y]
        BY <2>2, <3>1, <3>4, <4>1 DEF Settled, AllBefore, Served
      <4>2. CASE task'[y] = Resting
        BY <4>2 DEF Served, Resting
      <4> QED BY <1>1, <4>1, <4>2
    <3> QED BY <3>2, <3>3, <3>4 DEF Settled
  <2>11. MailOrder'
    BY <1>1, <2>10 DEF OrderInv, MailOrder
  <2> QED BY <2>6, <2>7, <2>8, <2>9, <2>11 DEF OrderInv
<1> QED BY <1>2, <1>3 DEF Finish

\* What a connection does besides writing leaves every event where it is, and a
\* restart only empties queues.
LEMMA QuietInOrder ==
  ASSUME HubInv, OrderInv,
         \/ UNCHANGED <<received, send, bus, relay, task, published>>
         \/ \E d \in Deliverers : Panic(d)
  PROVE  OrderInv'
<1>1. /\ received' = received /\ published' = published
      /\ \A c \in Conns : send'[c] = send[c] \/ send'[c] = <<>>
      /\ \A i \in Instances : bus'[i] = bus[i] \/ bus'[i] = <<>>
      /\ \A i \in Instances : relay'[i] = relay[i] \/ relay'[i] = <<>>
      /\ \A d \in Deliverers : task'[d] = task[d] \/ task'[d] = Resting
  <2>1. CASE UNCHANGED <<received, send, bus, relay, task, published>>
    BY <2>1
  <2>2. CASE \E d \in Deliverers : Panic(d)
    BY <2>2 DEF Panic, HubInv, TypeOK
  <2> QED BY <2>1, <2>2
<1>2. \A c \in Conns : Ordered(send'[c]) /\ Items(send'[c]) \subseteq Items(send[c])
  BY <1>1, EmptyQueue DEF OrderInv, MailOrder
<1>3. \A i \in Instances :
        /\ Ordered(bus'[i]) /\ Items(bus'[i]) \subseteq Items(bus[i])
        /\ Ordered(relay'[i]) /\ Items(relay'[i]) \subseteq Items(relay[i])
  BY <1>1, EmptyQueue DEF OrderInv, LineOrder
<1> QED BY <1>1, <1>2, <1>3, Shrinks

LEMMA InitInOrder == Init => OrderInv
<1> SUFFICES ASSUME Init PROVE OrderInv
  OBVIOUS
<1>1. /\ \A d \in Deliverers : Current(d) = {}
      /\ \A i \in Instances : bus[i] = <<>> /\ relay[i] = <<>>
      /\ \A c \in Conns : received[c] = <<>> /\ send[c] = <<>>
  BY DEF Init, Current
<1>2. \A i \in Instances : <<i, "bus">> \in Deliverers /\ <<i, "relay">> \in Deliverers
  BY DEF Deliverers
<1>3. Sources /\ Numbered /\ Addressed
  BY <1>1, <1>2, EmptyQueue DEF Sources, Numbered, Addressed, Mail
<1>4. LineOrder
  BY <1>1, <1>2, EmptyQueue DEF LineOrder, AllBefore
<1>5. MailOrder
  BY <1>1, EmptyQueue DEF MailOrder, AllBefore, Mail
<1> QED BY <1>3, <1>4, <1>5 DEF OrderInv

LEMMA NextInOrder == HubInv /\ OwnInv /\ OrderInv /\ [Next]_vars => OrderInv'
<1> SUFFICES ASSUME HubInv, OwnInv, OrderInv, [Next]_vars PROVE OrderInv'
  OBVIOUS
<1>1. ASSUME NEW c \in Conns, Connection(c) PROVE OrderInv'
  <2>1. CASE Write(c)
    BY <2>1, WriteInOrder
  <2>2. CASE ~Write(c)
    <3>1. UNCHANGED <<received, send, bus, relay, task, published>>
      BY <1>1, <2>2 DEF Connection, Register, Subscribe, Unsubscribe, Disconnect,
                        ReadPumpEnds, Unregister, busVars
    <3> QED BY <3>1, QuietInOrder
  <2> QED BY <2>1, <2>2
<1>2. ASSUME NEW i \in Instances, Events(i) PROVE OrderInv'
  <2>1. ASSUME NEW users \in UserLists, Publish(i, TRUE, PaymentAudience(users)) PROVE OrderInv'
    <3> DEFINE audience == PaymentAudience(users)
    <3>1. audience \in Seq(SUBSET Rooms) /\ OncePerUser(audience) /\ Publish(i, TRUE, audience)
      BY <2>1, Audiences, PaymentsOnce
    <3> HIDE DEF audience
    <3> QED BY <3>1, PublishInOrder
  <2>2. ASSUME NEW scope \in Scopes, NEW ch \in Channels \ {"events", "payments"},
               Publish(i, FALSE, PlatformAudience(scope, ch))
        PROVE  OrderInv'
    <3> DEFINE audience == PlatformAudience(scope, ch)
    <3>1. audience \in Seq(SUBSET Rooms) /\ Publish(i, FALSE, audience)
      BY <2>2, Audiences
    <3> HIDE DEF audience
    <3> QED BY <3>1, PublishInOrder
  <2>3. CASE Dispatch(i)
    BY <2>3, DispatchInOrder
  <2>4. CASE Listen(i)
    BY <2>4, ListenInOrder
  <2> QED BY <1>2, <2>1, <2>2, <2>3, <2>4 DEF Events
<1>3. ASSUME NEW d \in Deliverers, Delivery(d) PROVE OrderInv'
  BY <1>3, BroadcastInOrder, FinishInOrder, QuietInOrder DEF Delivery
<1>4. CASE UNCHANGED vars
  BY <1>4, QuietInOrder DEF vars
<1> QED BY <1>1, <1>2, <1>3, <1>4 DEF Next

\* Payment events of one server reach a connection in the order they were published
\* in and never twice: from the server's own bus, or from its listener's relay,
\* through drops of full buffers, failures to pass on and restarts.
THEOREM InOrder == Spec => []InOrderOnce
<1>1. OrderInv => InOrderOnce
  BY DEF OrderInv, MailOrder, Ordered, Before, InOrderOnce
<1> QED BY <1>1, InitInOrder, NextInOrder, HubInvariant, OwnInvariant, PTL DEF Spec
===============================================================================
