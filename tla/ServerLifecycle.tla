---------------------------- MODULE ServerLifecycle ----------------------------
(***************************************************************************)
(* A server process from its settings to its exit: what main opens, starts, *)
(* subscribes and closes, in that order, while the reconciliation workers,  *)
(* the handlers of requests, the dispatcher of the event bus and the health *)
(* probes already or still run.                                            *)
(*                                                                         *)
(* main is a sequence of steps; its deferred calls are steps of their own,  *)
(* in the reverse order.  A worker and a handler do the same to the shared  *)
(* state: a transaction, and after its commit an event.                    *)
(***************************************************************************)
EXTENDS ServerSettings, HealthProbes, FiniteSets, Sequences

CONSTANTS
  Workers,     \* the two reconciliation workers
  Requests,    \* requests that change something
  TopicOf,     \* the topic a worker's or a request's events go to
  Choices,     \* the settings an operator may start a server with
  BusBuffer,   \* capacity of the in-process bus (256)
  MaxEvents,   \* bound: commits that are followed by an event
  Nobody

Actors == Workers \cup Requests
Topics == {"payments", "platform"}

ASSUME ServerAssumption ==
  /\ Nobody \notin Actors /\ Workers \cap Requests = {}
  /\ TopicOf \in [Actors -> Topics] /\ \A w \in Workers : TopicOf[w] = "payments"
  /\ Choices \subseteq Settings
  /\ BusBuffer \in Nat \ {0} /\ MaxEvents \in Nat

VARIABLES
  settings,    \* what config.Load has read
  main,        \* the step main is at
  exit,        \* how the process has ended, or is about to
  opened,      \* the stores that are connected
  bus,         \* the event bus: which one, and whether it is closed
  bound,       \* the use cases of the payments know the bus
  subscribed,  \* the topics the bridge has handlers for
  polled,      \* the topics Kafka is read for
  relaying,    \* the bridge knows the Redis relay
  queue,       \* InProcessBus.ch: the actors its events are from
  task,        \* what the dispatcher is doing
  state,       \* state[a]: what a worker or a handler is doing
  committed,   \* number of commits so far
  signalled    \* SIGTERM has arrived

setupVars == <<settings, opened, bus, bound, subscribed, polled, relaying>>
workVars == <<queue, task, state, committed>>
serverVars == <<settings, opened, bus, bound, subscribed, polled, relaying,
                queue, task, state, committed, main, exit, signalled>>

Starting == {"settings", "postgres", "redis", "bus", "build", "workers", "bind",
             "subscribe", "relay", "listen"}
Stopping == {"cancel", "closeBus", "drainBus", "closeRedis", "closePostgres"}

\* off: not started or admitted; ready: between two transactions; waiting: for
\* the ticker; done: returned.
Stages == {"off", "ready", "transaction", "committed", "waiting", "done"}
NoTask == [from |-> Nobody, step |-> "idle"]

ServerTypeOK ==
  /\ settings \in Choices
  /\ main \in Starting \cup {"serving", "draining"} \cup Stopping \cup {"exited"}
  /\ exit \in {"none", "ok", "error", "crash"}
  /\ opened \subseteq {"postgres", "redis"}
  /\ bus \in [kind : {"none", "memory", "kafka"}, closed : BOOLEAN]
  /\ bound \in BOOLEAN /\ relaying \in BOOLEAN /\ signalled \in BOOLEAN
  /\ subscribed \subseteq Topics /\ polled \subseteq Topics
  /\ queue \in Seq(Actors) /\ Len(queue) <= BusBuffer
  /\ task \in [from : Actors \cup {Nobody}, step : {"idle", "handle", "relay"}]
  /\ state \in [Actors -> Stages]
  /\ committed \in 0..MaxEvents
  /\ HealthTypeOK

-------------------------------------------------------------------------------
\* Starting.

\* main returns with an error: only what has been deferred so far is run.
Fail(step) == main' = step /\ exit' = "error"

LoadSettings ==
  /\ main = "settings"
  /\ \/ Valid(settings) /\ main' = "postgres" /\ UNCHANGED exit
     \/ ~Valid(settings) /\ Fail("exited")
  /\ UNCHANGED <<setupVars, workVars, signalled>>

\* A store that cannot be reached is fatal in production and missing elsewhere.
MutantFatal == FALSE
Fatal == InProduction(settings)

ConnectPostgres ==
  /\ main = "postgres"
  /\ \/ opened' = {"postgres"} /\ main' = "redis" /\ UNCHANGED exit
     \/ ~Fatal /\ main' = "redis" /\ UNCHANGED <<opened, exit>>
     \/ Fatal /\ Fail("exited") /\ UNCHANGED opened
  /\ UNCHANGED <<settings, bus, bound, subscribed, polled, relaying, workVars, signalled>>

ConnectRedis ==
  /\ main = "redis"
  /\ \/ opened' = opened \cup {"redis"} /\ main' = "bus" /\ UNCHANGED exit
     \/ ~Fatal /\ main' = "bus" /\ UNCHANGED <<opened, exit>>
     \/ Fatal /\ Fail("closePostgres") /\ UNCHANGED opened
  /\ UNCHANGED <<settings, bus, bound, subscribed, polled, relaying, workVars, signalled>>

\* Consumer.Start: a reader for every topic that has a handler by then.
StartConsumer == polled' = subscribed

\* initEventBus.  Without a broker Kafka is given up for the in-process bus; with
\* one it is started at once.
StartBus ==
  /\ main = "bus"
  /\ \/ /\ bus' = [bus EXCEPT !.kind = "memory"]
        /\ UNCHANGED polled
     \/ /\ settings.kafka
        /\ bus' = [bus EXCEPT !.kind = "kafka"]
        /\ StartConsumer
  /\ main' = "build"
  /\ UNCHANGED <<settings, opened, bound, subscribed, relaying, workVars, exit, signalled>>

\* buildDependencies without a database leaves every handler out.
Build ==
  /\ main = "build"
  /\ main' = IF "postgres" \in opened THEN "workers" ELSE "listen"
  /\ UNCHANGED <<setupVars, workVars, exit, signalled>>

StartWorkers ==
  /\ main = "workers"
  /\ state' = [a \in Actors |-> IF a \in Workers /\ PaymentsEnabled(settings) THEN "ready" ELSE state[a]]
  /\ main' = "bind"
  /\ UNCHANGED <<setupVars, queue, task, committed, exit, signalled>>

\* WithEventBus: the workers run already.
Bind ==
  /\ main = "bind"
  /\ bound' = TRUE
  /\ main' = "subscribe"
  /\ UNCHANGED <<settings, opened, bus, subscribed, polled, relaying, workVars, exit, signalled>>

\* EventBridge.Register
RegisterBridge ==
  /\ main = "subscribe"
  /\ subscribed' = Topics
  /\ main' = "relay"
  /\ UNCHANGED <<settings, opened, bus, bound, polled, relaying, workVars, exit, signalled>>

SetRelay ==
  /\ main = "relay"
  /\ relaying' = ("redis" \in opened)
  /\ main' = "listen"
  /\ UNCHANGED <<settings, opened, bus, bound, subscribed, polled, workVars, exit, signalled>>

\* The port may be taken.
Listen ==
  /\ main = "listen"
  /\ \/ main' = "serving" /\ UNCHANGED exit
     \/ Fail("cancel")
  /\ UNCHANGED <<setupVars, workVars, signalled>>

-------------------------------------------------------------------------------
\* Stopping.

\* Signals are noticed from before the listener starts.
Signal ==
  /\ main \in {"listen", "serving"} /\ ~signalled
  /\ signalled' = TRUE
  /\ UNCHANGED <<setupVars, workVars, main, exit>>

BeginShutdown ==
  /\ main = "serving" /\ signalled
  /\ main' = "draining"
  /\ UNCHANGED <<setupVars, workVars, exit, signalled>>

InFlight(a) == state[a] \in {"ready", "transaction", "committed"}

\* Server.Shutdown waits for the requests in flight, for 30 seconds.
MutantNobodyWaits == TRUE
NobodyInFlight ==
  /\ \A r \in Requests : ~InFlight(r)
  /\ \A p \in Probes : probe[p].step \in {"none", "answered"}

Drained ==
  /\ main = "draining"
  /\ NobodyInFlight
  /\ main' = "cancel" /\ exit' = "ok"
  /\ UNCHANGED <<setupVars, workVars, signalled>>

MutantPatience == FALSE /\ UNCHANGED <<serverVars, healthVars>>
DrainTimesOut ==
  /\ main = "draining"
  /\ ~NobodyInFlight
  /\ Fail("cancel")
  /\ UNCHANGED <<setupVars, workVars, signalled>>

\* cancelReconciliation: the context of workers and relay listener is done.
CancelReconciliation ==
  /\ main = "cancel"
  /\ main' = "closeBus"
  /\ UNCHANGED <<setupVars, workVars, exit, signalled>>

CloseBus ==
  /\ main = "closeBus"
  /\ bus' = [bus EXCEPT !.closed = TRUE]
  /\ main' = "drainBus"
  /\ UNCHANGED <<settings, opened, bound, subscribed, polled, relaying, workVars, exit, signalled>>

\* InProcessBus.Close waits for the dispatcher to have handled what is left.
MutantUndrained == bus.closed
DispatcherDone == queue = <<>> /\ task = NoTask

BusDrained ==
  /\ main = "drainBus"
  /\ DispatcherDone
  /\ main' = "closeRedis"
  /\ UNCHANGED <<setupVars, workVars, exit, signalled>>

CloseRedis ==
  /\ main = "closeRedis"
  /\ opened' = opened \ {"redis"}
  /\ main' = "closePostgres"
  /\ UNCHANGED <<settings, bus, bound, subscribed, polled, relaying, workVars, exit, signalled>>

\* The pool waits for its connections to be given back; with main the process ends.
ClosePostgres ==
  /\ main = "closePostgres"
  /\ \A a \in Actors : state[a] # "transaction"
  /\ opened' = opened \ {"postgres"}
  /\ main' = "exited"
  /\ UNCHANGED <<settings, bus, bound, subscribed, polled, relaying, workVars, exit, signalled>>

Main ==
  \/ LoadSettings \/ ConnectPostgres \/ ConnectRedis \/ StartBus \/ Build
  \/ StartWorkers \/ Bind \/ RegisterBridge \/ SetRelay \/ Listen
  \/ BeginShutdown \/ Drained \/ DrainTimesOut
  \/ CancelReconciliation \/ CloseBus \/ BusDrained \/ CloseRedis \/ ClosePostgres

-------------------------------------------------------------------------------
\* Workers and handlers.

Running == main # "exited"

\* Whose context is done: the workers' after cancelReconciliation, a request's
\* once its handler has returned.
ContextDone(a) ==
  IF a \in Workers THEN main \in Stopping \ {"cancel"} ELSE state[a] = "done"

Becomes(a, stage) == state' = [state EXCEPT ![a] = stage]

Admit(r) ==
  /\ main = "serving" /\ "postgres" \in opened
  /\ state[r] = "off"
  /\ Becomes(r, "ready")
  /\ UNCHANGED <<setupVars, queue, task, committed, main, exit, signalled>>

\* The pool gives out no connection any more once it is being closed.
Begin(a) ==
  /\ Running /\ main # "closePostgres"
  /\ state[a] = "ready" /\ ~ContextDone(a)
  /\ "postgres" \in opened
  /\ Becomes(a, "transaction")
  /\ UNCHANGED <<setupVars, queue, task, committed, main, exit, signalled>>

\* The end of a pass or of a request: nothing is left to do, or an error.
Leave(a) ==
  /\ Running
  /\ state[a] = "ready"
  /\ Becomes(a, IF a \in Workers THEN "waiting" ELSE "done")
  /\ UNCHANGED <<setupVars, queue, task, committed, main, exit, signalled>>

\* A transaction ends with something to tell the payer or the tenant, or without.
Commit(a) ==
  /\ Running
  /\ state[a] = "transaction"
  /\ committed < MaxEvents
  /\ committed' = committed + 1
  /\ Becomes(a, "committed")
  /\ UNCHANGED <<setupVars, queue, task, main, exit, signalled>>

Rollback(a) ==
  /\ Running
  /\ state[a] = "transaction"
  /\ Becomes(a, "ready")
  /\ UNCHANGED <<setupVars, queue, task, committed, main, exit, signalled>>

\* The use case has no bus yet: nobody is told.
PublishToNobody(a) ==
  /\ Running
  /\ state[a] = "committed" /\ ~bound
  /\ Becomes(a, "ready")
  /\ UNCHANGED <<setupVars, queue, task, committed, main, exit, signalled>>

\* Kafka has it, or not: its writer may be closed already.
PublishToKafka(a) ==
  /\ Running
  /\ state[a] = "committed" /\ bound /\ bus.kind = "kafka"
  /\ Becomes(a, "ready")
  /\ UNCHANGED <<setupVars, queue, task, committed, main, exit, signalled>>

Room == Len(queue) < BusBuffer

\* The channel takes it, unless it is full.
PublishToMemory(a) ==
  /\ Running
  /\ state[a] = "committed" /\ bound /\ bus.kind = "memory" /\ ~bus.closed
  /\ queue' = IF Room THEN Append(queue, a) ELSE queue
  /\ Becomes(a, "ready")
  /\ UNCHANGED <<setupVars, task, committed, main, exit, signalled>>

Publish(a) == PublishToNobody(a) \/ PublishToKafka(a) \/ PublishToMemory(a)

\* A send on the closed channel panics.  Middleware recovers a handler;
PanicRecovered(r) ==
  /\ Running
  /\ state[r] = "committed" /\ bus.kind = "memory" /\ bus.closed
  /\ Becomes(r, "done")
  /\ UNCHANGED <<setupVars, queue, task, committed, main, exit, signalled>>

\* nothing recovers a worker.  It also panics on a half-written field, when it
\* reads the bus while Bind stores it (type first, then value, no lock).
PanicUnrecovered(w) ==
  /\ Running
  /\ state[w] = "committed"
  /\ \/ bound /\ bus.kind = "memory" /\ bus.closed
     \/ main = "bind"
  /\ main' = "exited" /\ exit' = "crash"
  /\ UNCHANGED <<setupVars, workVars, signalled>>

\* The ticker fires, or the worker notices that it is over: select takes either.
NextPass(w) ==
  /\ Running
  /\ state[w] = "waiting"
  /\ Becomes(w, "ready")
  /\ UNCHANGED <<setupVars, queue, task, committed, main, exit, signalled>>

WorkerStops(w) ==
  /\ Running
  /\ state[w] = "waiting" /\ ContextDone(w)
  /\ Becomes(w, "done")
  /\ UNCHANGED <<setupVars, queue, task, committed, main, exit, signalled>>

-------------------------------------------------------------------------------
\* The dispatcher of the in-process bus.

\* An event whose topic nobody has subscribed to is gone.
Dispatch ==
  /\ Running
  /\ task = NoTask /\ queue # <<>>
  /\ queue' = Tail(queue)
  /\ task' = IF TopicOf[Head(queue)] \in subscribed
             THEN [from |-> Head(queue), step |-> "handle"] ELSE NoTask
  /\ UNCHANGED <<setupVars, state, committed, main, exit, signalled>>

\* The bridge's handler broadcasts, for a platform event after a look at the app
\* of the endpoint in PostgreSQL; a payment event is then relayed.
Handle ==
  /\ Running
  /\ task.step = "handle"
  /\ task' = IF TopicOf[task.from] = "payments" /\ relaying
             THEN [task EXCEPT !.step = "relay"] ELSE NoTask
  /\ UNCHANGED <<setupVars, queue, state, committed, main, exit, signalled>>

\* Redis has it or not: the call is made under the publisher's context.
Relay ==
  /\ Running
  /\ task.step = "relay"
  /\ task' = NoTask
  /\ UNCHANGED <<setupVars, queue, state, committed, main, exit, signalled>>

Dispatcher == Dispatch \/ Handle \/ Relay

-------------------------------------------------------------------------------
ServerInit ==
  /\ settings \in Choices
  /\ main = "settings" /\ exit = "none" /\ signalled = FALSE
  /\ opened = {} /\ bus = [kind |-> "none", closed |-> FALSE] /\ bound = FALSE
  /\ subscribed = {} /\ polled = {} /\ relaying = FALSE
  /\ queue = <<>> /\ task = NoTask
  /\ state = [a \in Actors |-> "off"] /\ committed = 0
  /\ HealthInit

EndTransaction(a) == Commit(a) \/ Rollback(a)

Acts(a) == Begin(a) \/ Leave(a) \/ EndTransaction(a) \/ Publish(a)

Process ==
  \/ Main \/ Signal \/ Dispatcher
  \/ \E a \in Actors : Acts(a)
  \/ \E r \in Requests : Admit(r) \/ PanicRecovered(r)
  \/ \E w \in Workers : NextPass(w) \/ WorkerStops(w) \/ PanicUnrecovered(w)

\* A probe pings whatever is connected; what is not cannot fail.
ProbeArrives(p) ==
  /\ main = "serving"
  /\ \E endpoint \in Endpoints, core \in BOOLEAN :
       /\ opened = {} => core
       /\ Arrive(p, endpoint, core, PaymentsEnabled(settings), "postgres" \in opened)

Health ==
  /\ Running
  /\ TimePasses \/ \E p \in Probes : ProbeArrives(p) \/ Probe(p)

ServerNext ==
  \/ Process /\ UNCHANGED healthVars
  \/ Health /\ UNCHANGED serverVars

ServerSpec == ServerInit /\ [][ServerNext]_<<serverVars, healthVars>>

\* main and the dispatcher go on when they can; a transaction ends.
ServerFairness ==
  /\ WF_<<serverVars, healthVars>>(Main /\ UNCHANGED healthVars)
  /\ WF_<<serverVars, healthVars>>(Dispatcher /\ UNCHANGED healthVars)
  /\ \A a \in Actors : WF_<<serverVars, healthVars>>(EndTransaction(a) /\ UNCHANGED healthVars)

FairServerSpec == ServerSpec /\ ServerFairness

-------------------------------------------------------------------------------
\* Properties.

\* Whoever can be served: wallets sign in on the network the payments are on,
\* requests are made on it too, and in production it is the main network, with
\* both stores connected.
ServesOneNetwork ==
  main \in {"listen", "serving", "draining"} =>
    /\ RequestNetwork(settings) = settings.authNetwork
    /\ InProduction(settings) => settings.authNetwork = "main" /\ opened = {"postgres", "redis"}

\* The dispatcher looks up and relays, and transactions are written, only as long
\* as the store they need is open: stores are closed after those who use them.
StoresOutliveUsers ==
  /\ task.step = "handle" /\ TopicOf[task.from] = "platform" => "postgres" \in opened
  /\ task.step = "relay" => "redis" \in opened
  /\ \A a \in Actors : state[a] = "transaction" => "postgres" \in opened

\* A process that ends without an error has answered every request, and any
\* process that does not crash has dispatched every event its bus had accepted.
OrderlyExit ==
  main = "exited" /\ exit # "crash" =>
    /\ queue = <<>> /\ task = NoTask /\ opened = {}
    /\ exit = "ok" => \A r \in Requests : ~InFlight(r)

\* A server that is told to stop stops, whoever hangs.
StopsWhenAsked == signalled ~> main = "exited"

\* Nobody publishes on a bus that is closed, or not there yet.
NeverCrashes == exit # "crash"

\* What the bridge subscribes to is consumed.
SubscriptionsConsumed ==
  main = "serving" /\ bus.kind = "kafka" => subscribed \subseteq polled
===============================================================================
