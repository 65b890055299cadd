# NimNear in TLA+

NimNear lets people find and organize events and pay for them, and for each
other's payment requests, with Nimiq transfers.  A Go backend keeps everything
in PostgreSQL, asks a Nimiq RPC node about transfers, and pushes status changes
over WebSockets; a Next.js frontend talks to it and to the wallet.  This
directory models the parts of that system in which several actors, crashes and
clocks meet, checks them with TLC, and proves the results that matter most.

## 1. The system: components, state, interactions

| Component | State | Operations | What makes it correct |
| --- | --- | --- | --- |
| Event purchases (`application/eventpurchase`, `postgres/eventpurchase`) | rows of `event_purchases`, `events.attendee_count` | create with a capacity hold, submit a hash, claim / verify / persist, expire, recover | no transfer pays twice; confirmed means paid; seats never exceed the capacity; the count is exact; every payment resolves |
| Payment requests (`application/paymentrequest`, `postgres/paymentrequest`) | rows of `payment_requests` | create, read, list, cancel, submit, verify, expire, recover | the same of transfers; an accepted hash is never cancelled away; results never undo a decision |
| Consumed hashes (`postgres/nimiqtx`) | `consumed_nimiq_transactions` | consume | one object per hash, for good, over both domains |
| Nimiq verifier (`nimiq/rpc`, `nimiqtx/verification`) | none; reads the chain and the payer's identities | `VerifyTransfer` | says "confirmed" only of a final, well-formed transfer of the payer |
| Realtime hub and fan-out (`websocket`, `handler/realtime`) | clients, rooms, send channels | register, subscribe, broadcast, remove, relay | own events only, in order, once; a broadcast never meets a dead connection |
| Event bus (`shared/events`, `kafka`) | a bounded channel, or Kafka topics | publish, subscribe, dispatch, close | accepted events are dispatched in order |
| Event lifecycle (`application/event`, `postgres/event`) | rows of `events` | create, edit, cancel | capacity never below the seats in use; the place of a sold event is fixed; cancelled stays cancelled |
| Participation (`postgres/eventparticipation`) | RSVP rows, `attendee_count` | RSVP, leave | free events are never oversubscribed and counted exactly |
| Calendars, places (`application/calendar`, `application/place`) | rows, followers | create, edit, archive, follow; create, edit, disable | archived stays archived |
| Identity and sessions (`application/iam`, `postgres/iam`, `auth`) | challenges, identities, users, tokens | challenge, answer, check a token | a challenge opens one session; deleted users have none |
| Account deletion (`postgres/iam/account_deletion.go`) | writes most tables | delete | money in flight is not lost |
| API management and gateway (`gateway`, `application/apimanagement`) | endpoints, policies, counters, the tables of apps | define, activate, retire, set a policy; the pipeline and the table handler | a tenant's records are its own; a window lets no more through than its limit |
| Roles (`auth/rbac_service.go`) | `user_roles`, a cache in Redis | assign, check | an assignment takes effect |
| Rate limiting of sign-in, tenants, API keys, profiles, wallet views | counters, single rows | CRUD, queries | ownership |
| Server process (`cmd/server`, `shared/config`) | settings, what is connected, subscribed and running | start, serve, drain, close | one network for sign-in and payments; stores are closed after those who use them; accepted work is finished; it stops when told |
| Health probes (`handler/health`) | the RPC's last verdict | `Readiness`, `Payments` | ready means that the RPC spoke lately |
| Operator commands (`cmd/*`) | none | recover a payment, cancel an event, seed | the same paths as the handlers |
| Frontend payments (`lib/nimiq/payment-transport.ts`, the two pages) | session storage, module state, React state | restore, pay, redirect to the Hub, resume, submit | one prompt at a time; a hash submitted once; what was paid is not paid again |
| Frontend sessions (`lib/auth/nimiq.ts`, the provider) | both storages, module state, React state | restore, choose an address, sign a challenge, sign out | one signature request per challenge; never for a foreign network |
| Frontend realtime client, pages | React state | reconnect, refetch, render | what is shown is what the API last said |

Interactions.  Handlers and the two reconciliation workers run the same
`reconcile...` code on the same rows: a *claim* (one UPDATE) reserves an
attempt, an RPC call follows outside any transaction, and the outcome is written
by an UPDATE that repeats the conditions it depends on.  Both payment domains
meet in `consumed_nimiq_transactions`.  Purchases, organizers and RSVP meet in
the row of the event, which all of them lock except the recovery.  Account
deletion reaches into identities, requests and events.  Status changes are
published after the commit to the bus, whose one dispatcher calls the bridge,
which broadcasts to rooms of the hub and through Redis to the other servers.
`cmd/server` ties these together: it opens the stores, the bus and the workers
one after the other, and closes them while the others still run.

What is hard: everything between a claim and its write; capacity that is counted
from rows whose holds lapse with time; recovery, which brings back a payment
whose seat was given away; the connections' double bookkeeping; a page that is
unloaded in the middle of a payment or a sign-in and finds half of its state
again; permissions that are cached while they change; workers, requests and a
dispatcher that run while what they use is opened and closed.  The complete list,
with the line at which each hazard bites and the property that watches it, is
`hazards` in `PROJECT.json`.

## 2. The modules

| Module | Models |
| --- | --- |
| `NimiqTransfers` | the chain (unknown, unmined, mined, final), linked identities, `VerifyTransfer` |
| `PaymentLedger` | the abstract promise: a transfer is spent once, a grant needs its own settled transfer, grants stay |
| `EventPurchases` | purchases, events as they bear on them, verifiers, recovery; implements `PaymentLedger` |
| `PaymentRequests` | payment requests, lazy expiry, account deletion, verifiers, recovery; implements `PaymentLedger` |
| `Payments` | the two above over one chain, one table of identities and one store of consumed hashes; implements `PaymentLedger` |
| `RealtimeHub` | bus, bridge, hub, pumps, Redis relay, panics and restarts |
| `Accounts` | challenges, logins, sessions, account deletion, and the owner's other requests |
| `EventLifecycle` | events from publication to cancellation, RSVP, calendars, places, the operators' commands on them |
| `Gateway` | endpoints, policies, roles and their cache, the pipeline, its counter and the table handler |
| `WebCheckout` | paying in one tab: two pages, the transport, the Hub or Nimiq Pay, the API's answer |
| `WebSession` | signing in, in one tab: provider, the flow through the wallet, both storages, the API |
| `ServerSettings` | the settings of a server and what `Config.Validate` demands of them together |
| `HealthProbes` | `/health/ready` and `/health/payments`, with the cached verdict of the RPC |
| `ServerLifecycle` | `main` from its settings to its exit, beside workers, handlers, dispatcher and probes; composes the two above |
| `...Proofs`, one for each component | the theorems; those of `Payments` and of `ServerLifecycle` follow those of `PaymentRequests` in `PaymentRequestsProofs` |
| `MC...` | instances and restrictions of the specifications for TLC |

### Purchases and requests

*One action is one transaction.*  The transactions lock the rows they decide on
(`FOR UPDATE`) or are a single UPDATE whose WHERE clause repeats the decision,
so each is one step; a refusal rolls back and changes nothing.  Two places are
finer.  A verification is four steps (claim, answer, persist, or abandon), with
`jobs[v]` holding what the goroutine carries between them: `purchase.go`
`reconcilePurchase`, `reconciliation.go` `reconcileRequest`.  And
`ConfirmExpiredRecovery` is the only writer of `attendee_count` that has not
locked the event row: its last UPDATE takes a statement snapshot and then waits
for the row, so `RecoverSnapshot` (count computed) and `RecoverCommit` (count
written, everything else checked again at the commit, where the purchase and its
hash are locked) are separate.  A crash, a cancelled request, a deadlock victim
or a lost connection is `Abandon`: the goroutine forgets, the transaction rolls
back, the claim stays until it lapses.

*Time* is the time left to each deadline: `hold`, `deadline`, `retry`, `claim`,
`expires`.  `Tick` passes one unit for all.  The code claims for the retry
interval, at least 30 s; the models keep the two apart, which allows more.

*The chain* advances on its own; `VerifyTransfer` answers what the node's state
implies, or an error at any time.  A hash's sender is fixed (`Payer`), and
whether recipient, amount, type and network match is `WellFormed`.  `linked` is
the payer's verified identity; account deletion revokes it.

*`EventPurchases`*: `Create` is `CreateExisting`/`CreatePending` (with the expiry
of lapsed holds, which only commits if `Create` does), `GetActiveForEvent` is
`ExpireOwnHold`, then `SubmitTransaction`, `Claim`, `Answer`, the four `Persist...`
outcomes of `SetVerificationState`/`ExpireUnresolved` (among them
`PersistConfirmedRefused`, the CHECK constraint), `Recover...`, and of the
organizer `EditCapacity`, `CancelEvent`.  *`PaymentRequests`* mirrors it with
`Read`, `List`, `Cancel`, `DeleteAccount` and a payer who is known only at submission.

*The two domains.*  Each module separates what its own code does (`Own`) from its
`Surroundings`: the chain, and the other domain, of which it knows only that any of
that domain's objects (`Elsewhere`) may at any moment consume a hash
(`ConsumeElsewhere`), and, for purchases, that identities are revoked
(`RevokeIdentities`).  `Payments` puts both beside each other: a step is one of
either domain or of the chain, and what was assumed of the surroundings is now what
the other domain does, one's consumption being its `SubmitTransaction`, the
revocation its `DeleteAccount`.  `WellFormed` are the transfers a request asks for,
`ToMerchant` those an event's price asks for; a transfer can be both when the
creator of the request is the merchant.  The deadlines of the two run apart, which
allows more than one clock.  `P` is the instance of the purchases, taken from
`EventPurchasesProofs` so that their theorems can be cited of it.

*`PaymentLedger`* has four actions: `Spend`, `Settle`, `Grant` and stuttering.  The
mapping reads `consumed` as what a transfer is spent on, confirmed/paid rows as
grants, and "final, well formed, signed by the row's payer" as settled.

### Realtime

`Session.Start` builds a second `client` with the id and channel of the one
`Register` built, and no rooms.  `ReadPumpEnds` and `Unregister` are the two
deferred removals, each of its own client.  `Broadcast` is one acquisition of the
hub's lock; an event's audience is the sequence of (sets of) rooms its handler
walks through, so other steps come in between.  A send on a closed channel is
`Panic`: neither the dispatcher nor the Redis listener recovers it, so the
process loses its connections, its bus and what Redis had for it, and starts
again.  Redis gives each message to all listeners in one order, or loses it.

### Accounts

`ConsumeAndResolveIdentity` and `DeleteAccount` are transactions of several
statements, and they lock the same rows in opposite orders: a login takes the
challenge, an advisory lock of the wallet, the identity and last the user; a
deletion takes the user, then the challenges and the identities.  So here one
action is one *statement*.  The variables hold committed rows; what an open
transaction has written and which rows it holds follow from its step
(`HoldsChallenge`, `HoldsWallet`, `HoldsIdentity`, `HoldsUser`), and `WaitsFor`
says whom its next statement waits for.  PostgreSQL aborts a member of a cycle
of waits (`DeadlockVictim`); a lost connection or a crash is `Abandon`; both
forget the job, which is the rollback.  A condition is evaluated when the
statement gets its row, as READ COMMITTED does.

| Code | Actions |
| --- | --- |
| `CreateChallenge`, `expires_at` | `Issue`, `ChallengeExpires` |
| `Verify` | `VerifyCheck`, `VerifyConsume`, `VerifyResolve`, then `VerifyCreate` (first login) or `VerifyTouch` and `VerifyBind`, and `VerifySession` |
| `JWTAuth`, `RequireActiveAccount` | `Admit`, `TokenExpires` |
| `DeleteAccount` | `DeleteLock`, `DeleteInvalidate`, `DeleteRevoke`, `DeleteCommit` |
| the owner's handlers | `UpdateProfile`, `ValidateRecipient`, `CreateObject`, `CloseObject` |

The last three UPDATEs of a deletion and its commit are one step, because nothing
can be inserted for a user whose row is held `FOR UPDATE`.  Events, calendars and
payment requests are one set of objects that are live, kept (an event that has
ended, a request that is no longer pending) or closed; `past` remembers which
events were over when a deletion read the clock, before it waited for its locks.
Who can sign for a wallet is not modelled: any request may present any issued
challenge.  A user's personal data is one flag, `profile`.

### Events

A handler authenticates, validates and reads the clock; then its statement or
transaction runs, perhaps after waiting for the event's row.  So a request is
admitted in one step (`AdmitUser`, `AdmitCancel`, `AdmitPlace`: `jobs[p]` keeps
what it read) and acts in later ones.  The transactions that count seats are
three: `RsvpLock`, `RsvpCount`, `RsvpCommit` (`CreateOrConfirm`) and `EditLock`,
`EditCount`, `EditCommit` (`UpdateOwned`); everything else is one statement
(`CreateEvent`, `LeaveEvent`, `CancelEvent`, `UpdateCalendar`, `UpdatePlace`, ...).
`RowFree` is the row lock.  Purchases appear as `buyers`: of a paid event only
who has an active purchase is kept, and `EditCount` counts any part of them, for
which of them hold a seat is `EventPurchases`' subject.

### The gateway

Roles, endpoints, policies and records are tables, the permission cache and the
counters are Redis keys, and between two calls to either anything may happen:
`Stop` ends a request anywhere.  An administrator's request is checked
(`ReadCache`, `FetchPermissions`, `StorePermissions`) before its handler reads and
writes; a managed request goes through `Invoke`, `ReadPolicy`, the same check,
`Unlimited` or `CountRequest` and `StartWindow`, and one of the four `Serve...`.  A
Redis command whose error the code ignores may fail.  The claims of a session
carry the nil organization, so `OrgOf` is constant in the instance; nothing takes
a role away, and nothing changes `role_permissions`.  The instance has a denied
table, a proxied endpoint, and an endpoint of one app that names a record of
another.

### The server process

`main` is a sequence of steps, `main` its program counter, and its deferred calls
are steps in reverse order.  A return with an error goes to the first call that
has been deferred by then: to nothing while PostgreSQL is being connected, to
`ClosePostgres` when Redis fails, to the whole sequence when the port is taken.
Until the process has exited, workers, handlers, the dispatcher and the probes go
on beside it.

| Code | Actions |
| --- | --- |
| `config.Load`, `Config.Validate` | `LoadSettings`, with `Valid` of `ServerSettings` |
| `initDatabases`, `initEventBus` | `ConnectPostgres`, `ConnectRedis`, `StartBus` |
| `buildDependencies` | `Build`, `StartWorkers`, `Bind`, `RegisterBridge`, `SetRelay` |
| the listener, the signal, `Server.Shutdown` | `Listen`, `Signal`, `BeginShutdown`, `Drained`, `DrainTimesOut` |
| deferred calls | `CancelReconciliation`, `CloseBus`, `BusDrained`, `CloseRedis`, `ClosePostgres` |
| `RunReconciliationWorker`, a handler | `Begin`, `Commit`, `Rollback`, `Leave`, `NextPass`, `WorkerStops`, `Admit` |
| `Publish`, and what a panic in it ends | `PublishTo...`, `PanicRecovered`, `PanicUnrecovered` |
| the bus's dispatcher with the bridge's handlers | `Dispatch`, `Handle`, `Relay` |
| `Health.Readiness`, `Health.Payments` | `Arrive`, `UseCache`, `Ask`, `RPCSpeaks`, `Return`, `TimePasses` |

What a worker or a handler writes is the subject of the other modules; here it is a
transaction that ends with something to publish, or without.  The settings that
concern one another (environment, networks, RPC, merchant) are kept apart; those
that `Validate` judges alone are four switches.  The three subscriptions that only
log are left out.

### The browser

An async function is a *job*; what runs between two awaits is one step, promise
callbacks included.  Module state, React state and session storage differ in what
they survive: a load of the document resets the first two, a navigation within
the app resets the page's component only, Back may restore a page as it was left.
`WebCheckout` has `Navigate`, `Reload`, `HubReturns` and `Back` for these, `Restored`
and `TryAgain` for the pages, `PressPurchase` ... `RecoverInstead` for the transport,
`WalletPays`, `HubPays` for the wallet, and `Answer`, `Accepted`, `Refused` for the POST
of a hash.  `WebSession` has the same kinds of steps for the two redirects of a
sign-in, and `Redeploy`, a deployment that changes network between two loads.

What the browser modules show beyond their properties, and no text promises
otherwise: a redirect result is kept for as long as the page is loaded, so a
resource opened later, with a stored payment of its own, takes a hash that was
meant for another (the API refuses it); an event page whose purchase is under way
clears whatever payment is stored; the result of a redirect that is consumed at
the load is written to the storage only after two fetches, so a reload in between
loses it; a challenge the API refuses as used or expired stays stored, and every
load signs it again; a sign-out whose request fails is undone by the next load.
The signature is asked for as soon as the address has come back, where
`docs/NIMIQ_AUTH_IMPLEMENTATION.md:54` speaks of a second gesture of the user.

## 3. The runs

| Run | Question | Result |
| --- | --- | --- |
| `contention` | two buyers, two hashes, two verifiers, recovery and capacity edits on one seat: hash reserved, paid when confirmed, one active purchase, lifecycle, ledger | holds |
| `live` | no recovery and no capacity cuts, a live worker beside a handler: not oversold, count exact, every payment resolves | holds |
| `requests` | two requests of one creator, one transfer, purchases beside them, worker and handler, deletion: hash reserved, paid when settled, an accepted hash binds, lifecycle, every payment resolves | holds |
| `payments` | a purchase and a request, two transfers either can be paid with, both recoveries, deletion, crashes: each paid by a transfer of its own, both one ledger | holds |
| `delivery` | two connections for one place, two servers, full buffers, lost messages, panics: closed once, gauge exact, own events only, in order and once | holds |
| `accounts` | two requests, two challenges of one wallet, deletion, an object: a challenge opens one session, a deleted account never resumes or comes back, payment evidence is kept, every login and deletion ends | holds |
| `lifecycle` | two requests at every statement, buyers, deletion, the clock, a calendar, a place: seats and counts exact, places fixed for buyers, closed for good | holds |
| `gateway` | two requests, an owner, two apps, two tables: tenants isolated, windows within their limit, assignments take effect | holds |
| `checkout` | two functions, a purchase and a payment request, both hosts, two transfers: one prompt, one POST of a hash, nothing paid again whose hash is kept | holds |
| `signin` | two functions, addresses, networks and challenges: one signature request, for this network, one choice of an address | holds |
| `server` | every combination of settings, from start to exit, with a worker, two requests, a bus of one and two probes: one network, stores outlive their users, accepted work is done, ready means reachable, a signal ends it | holds |
| `disconnect` | a broadcast after a connection has left | **violated**: send on a closed channel, the process ends |

The violated run is the finding of `PROJECT.json`, with the sentences of the comment
and of the test that say otherwise; it follows from every disconnect.  Each type
invariant is proved, and is no invariant of a run.

More disagreements were found with these models and are not kept as runs.  (1) With
recovery, `NotOversold` fails: `ConfirmExpiredRecovery`
(`purchase_repository.go:416`) confirms on a seat that was released and sold again,
against `docs/EVENT_LIFECYCLE.md:29`; `RecoverySpec` of `MCEventPurchases` shows it.
(2) With recovery, `AttendeeCountExact` fails: `ConfirmExpiredRecovery`
(`purchase_repository.go:434`) counts on a snapshot older than the event row it
waits for, and a confirmation committed meanwhile is lost, against
`docs/EVENT_LIFECYCLE.md:16`.  (3) With recovery, `EveryPaymentResolves` fails: when
the resold seat's rival is confirmed, the CHECK on `attendee_count` refuses for
ever, against `docs/BACKEND.md:254`.  (4) With capacity cuts, `NotOversold` fails:
an edit does not count a lapsed hold, whose owner may still submit, against
`docs/EVENT_LIFECYCLE.md:29`.  (5) A login that read the identity before a deletion
committed writes the wallet's name back into the blanked row
(`nimiq_auth_repository.go:64`), against `docs/ACCOUNT_DELETION.md:26`.  (6)
`RequireActiveAccount` (`middleware/auth.go:98`) looks at the user before the
handler; an INSERT admitted then waits on its foreign key for the deletion, and what
it inserts is live under a deleted owner, against `docs/ACCOUNT_DELETION.md:60`
(events) and `:53` (requests): `NothingActionable` of `Accounts`, which TLC finds
violated with the cfg of `accounts`.  (7) `VerifyTransfer` (`rpc/client.go:294`) calls a
transfer invalid that the node reports before a block includes it, or whose payer's
identities have been revoked since; the purchase fails at once and nothing brings it
back, though the transfer is mined and final later, against `docs/BACKEND.md:254` (a
propagation delay "does not fail", "a valid finalized transfer becomes confirmed"):
`FailedIsUnpaid` of `EventPurchases`, violated in the instance of `contention`.  (8) A
calendar is looked at before the event is inserted (`event/usecase/events.go:255`),
so one archived in between receives an event, against `docs/ACCOUNT_DELETION.md:65`.
Also, the comment at `pipeline.go:247` calls the counter a sliding window; it is a
fixed one, which starts with its first request, and `WithinLimit` is about that.

Of the server, the first two violate properties that `ServerLifecycle` states and no
run keeps; the others are behaviours of the model, but for the last.  (9)
`initEventBus` starts Kafka's consumers before `buildDependencies` has subscribed
anything, so no topic is ever read (`SubscriptionsConsumed`), where
`kafka/bus.go:56` says "Call after all Subscribe calls" and `main.go:224` claims it
is so.  (10) A worker that is about to publish when the bus closes sends on a closed
channel, which nothing recovers (`NeverCrashes`); `events/bus.go:51` promises a
graceful close.  The same end awaits a worker that reads the bus field while `Bind`
writes it.  (11) What a worker publishes before `Bind`, or the dispatcher takes
before `RegisterBridge`, reaches nobody.  (12) The dispatcher looks up and relays
under the context of the request that published, which is over once its handler has
returned; so an event may be missed by the other servers though Redis works.  (13) A
probe whose client goes away stores "unhealthy" for all others until the time to
live is over.  (14) `PaymentConfig.Validate` (`config.go:479`) compares deadline and
interval only when both are set: a default may be below the other.

*Bounds.*  One event, two users, two rows and one or two hashes are the smallest
instance with a rival for the seat, a replacement after an expiry and a second
claimant of a hash; a third row only repeats one of these.  Durations are one unit
(two for the deadline of requests, so that a retry fits in before it; none for the
claims in `payments`, which lapse at once): a longer one adds ticks between the same
orders of events.  `Interval = 0` in the runs of purchases drops the retry guard,
which only allows more; `requests` has `Interval = 1`.  Two verifiers are a worker
and one rival.  In `payments` there is one row and one verifier in each domain,
because rivals within a domain are the subject of the other runs; one buyer and one
creator; and two interchangeable transfers, one for each or both for one.  In
`delivery`, one place and buffers of one make refusal and loss happen; two events
are enough for order and duplication; the second server publishes and has no
connection.  In `accounts`, two requests are a deletion and its rival; the first
challenge makes the account and the second meets its deletion, and a second user is
there to show that the wallet does not create it; identifiers are taken in a fixed
order, since which one a row gets makes no difference.  In `lifecycle` two requests
are any pair of operations on one event of either kind, for one seat; the clock has
two values, so an event can start and end between admission and lock; the state
constraint `Apart` leaves out calendars and places beside the free event, which has
none, and followers beside events, which nothing reads.  In `gateway` an endpoint, a
policy row, a limit of one and a count up to two let two requests meet in a window
and an assignment in the cache; one organization is what sessions carry.  In
`checkout` two functions are a restore or a payment and its rival, and two transfers
are a payment and its repetition; in `signin` two challenges are one that is stored
and its successor, two networks a deployment and the next.  In `server` one worker
and two requests, one to each topic, meet on a bus of one; three commits fill and
overflow it; two probes ask at once, and a time to live of two leaves room for a
late answer.  All settings are started and stopped, but only those of `Busy` have
work and only those of `Watched` are probed, before the signal: the probes share
nothing with the work but `opened`.  The other bounds are `MaxPurchases`,
`MaxRequests`, `MaxEvents`, `MaxTime`, `MaxPaid`, `MaxChallenges`, `MaxCount`,
`Challenges`, `Objects`, guards of the models.  Deadlock is checked in `gateway` and
`signin`; elsewhere the cfg says `CHECK_DEADLOCK FALSE`, because once all rows are
final and all counters and clocks have run out nothing remains to do.

*Fairness.*  Liveness assumes that the clock runs (`WF(Tick)`) and that the
reconciliation worker, which a ticker starts for ever, takes each of its steps if it
is possible again and again: `SF(Claim)` per row, because a handler's claim or a
crash disables the worker's claim from time to time but claims lapse; `SF(Answer)`
and `SF(Persist)`, because an attempt may be abandoned but not every one.  `Persist`
may refuse (`PersistConfirmedRefused`), so a refusal is not assumed away.  In
`accounts` a statement that can run again and again does run (`SF(Login)`,
`SF(Deletion)`), because PostgreSQL queues the waiters of a row, and a deadlock is
found in the end (`WF(DeadlockVictim)`, its deadlock timeout); neither says that the
transaction commits.  Nothing is assumed of handlers, users, organizers, the chain
or the operator.  `live` leaves recovery out because it breaks the property.  In
`gateway` a request ends sooner or later, if only by an error (`WF(Advance \/
Stop)`), and Redis removes a key whose time to live is over
(`WF(ExpirePermissions)`, `WF(EndWindow)`); no request is assumed to arrive, none to
succeed, and no invalidation to reach the cache.  In `server` the steps of `main`
and of the dispatcher and the ends of transactions are taken when they stay possible
(`WF(Main)`, `WF(Dispatcher)`, `WF(EndTransaction)`): they are straight-line code,
and PostgreSQL answers or the connection fails.  Handlers, workers, probes and
signals may hang or never come, which is why `StopsWhenAsked` needs `DrainTimesOut`.
The browser modules claim no liveness: a user may close the tab.

## 4. The proofs

`EventPurchasesProofs` proves, for all users, events, hashes, verifiers,
capacities, durations and numbers of rows: `TypeOK`; `HashReserved`,
`PaidWhenConfirmed`, `OneActivePurchase`, `Lifecycle`; that `Spec` implements
`PaymentLedger`; and of orderly selling (no recovery, no capacity cut)
`AttendeeCountExact` and `NotOversold`.  The assumptions are the named ASSUMEs of
`NimiqTransfers` and `EventPurchases`.

The safety properties are not inductive.  `IInv` adds what the code relies on:
a row has a hash, an event and a buyer exactly in the states in which it should
(`RowShape`); a verifier that is about to write "confirmed" or to recover carries
a purchase whose transfer is settled (`JobsHonest`), which stays true because the
chain never takes finality back and a row never changes hash or buyer.  Three
effect lemmas (`RowSteps`, the steps of the hash store and of the chain) say once
what any step may do to a row, so that the properties are not proved action by
action.  For orderly selling the invariant also relates the count to the set of
confirmed buyers, and a counting argument over finite sets shows that each
action adds at most one occupant, only when a seat is free.

`PaymentRequestsProofs` proves the same of requests, along the same argument:
`TypeOK`, `HashReserved`, `PaidMeansSettled`, `AcceptedHashBinds`, `Lifecycle`,
and that `Spec` implements `PaymentLedger`.  Its type invariant needs a companion
(`WritesState`: a verifier about to write carries a state), and its refinement a
ledger in which a transfer may be found settled when it is spent, because a
request learns its payer only then.

It goes on with both domains together.  `EachDomainGoesOn` is a simulation: seen
from one domain, every step of `Payments` is one of its own, one of its surroundings, or
changes nothing it looks at (`RequestsShare` and `PurchasesShare` say which the
other's steps are), so `PaymentsSpec` implies the specifications of both, and every
theorem about one of them, proved for a domain among arbitrary surroundings, holds
of the server.  With the invariants of both, carried over in this way,
`EachIsPaidByItsOwn` needs one more thought: two grants with one transfer would be
two objects that have consumed one hash, and an object of one domain is none of
the other.  `PaymentsImplementLedger` takes the steps of each domain to steps of one
ledger; what is left to show is that the other's grants and settlements stay
untouched (`BooksOfOthers`).  `PaymentsAssumption` joins the assumptions of the two
modules.

`RealtimeHubProofs` proves `TypeOK`, `ClosedOnce`, `GaugeExact`, `OnlyOwnEvents` and
`InOrderOnce` for any servers, connections, buffers and events.  The first three are
one invariant (`HubInv`): that the gauge is a natural number follows from its being
the number of registered connections, and a channel is closed once because only a
registered connection is removed and a registered channel has not been closed.
Finiteness of the set of connections is not assumed; it follows from one
registration per step.  `OnlyOwnEvents` rests on `OwnInv`: rooms hold only
connections entitled to them, channels and sockets only mail that concerns their
owner, and a goroutine's remaining rooms belong to its event.

`InOrderOnce` rests on `OrderInv`, which follows a payment event of instance `i` on
its way to a connection: from the bus of `i`, through its dispatcher, the relay of
the connection's server and its listener, into the channel and out of the
socket.  Payment events lie along that way in the order of their numbers, the
older the further (`LineOrder`, and `MailOrder` for the last two places, where mail
of other instances comes in between); no two have one number (`Numbered`); each
place holds what its source put there (`Sources`); and a user who is named twice
is addressed once, so a room that is still to be served has not been served
(`Addressed`).  Dropping at any place leaves a subsequence, hence the one lemma
`Shrinks`; an instance's own relay needs none of this, because `Listen` skips it.
That the room of a payment holds its user's connections only comes from `OwnInv`.

`AccountsProofs` proves `TypeOK`, `ChallengeUsedOnce`, `NeverResumes`,
`EvidenceKept` and the exclusion of the locks for any users, wallets, challenges
and requests.  `AccountInv` adds that a challenge somebody holds is not consumed
(`HeldIsFresh`); that one which has opened a session, or whose login has committed
and is about to, is consumed and has only that one (`Spent`); that no two
transactions hold one challenge or one wallet (`Exclusive`); and that the wallet
of a first login is nobody's as long as its lock is held (`FirstLogin`).
`MovesOn` says once what a statement that writes none of these rows keeps.  The
one assumption is that `None` is no identifier.

`EventLifecycleProofs` proves `TypeOK`, `SeatsExact`, `PlaceFixedForBuyers` and
`ClosedForGood` for any users, requests, drafts and patches.  The invariant
(`LifecycleInv`) says that at most one request is between lock and commit on a row,
that the row is then still published and organized as the lock saw it, and that
what was counted under the lock (`seats`, `paidActivity`) bounds what the commit
finds; the exact count of a free event is carried as a fact about the cardinality
of its finite set of participants.

`WebSessionProofs` proves `OneSignRequest`, `SignsForThisNetwork` and `ChoosesOnce`, and
the types, for any addresses, networks, functions and challenges.  `SessionInv`
relates the module's flag, the functions and the tab's place: a signature is asked
for only by the function that set the flag, with the stored challenge, in a load
that has discarded what belongs to another network.

`WebCheckoutProofs` proves `TypeOK`, `OnePrompt`, `SubmittedOnce` and
`KeptHashNotPaidAgain` for any purchases, requests, functions and transfers.  Beside
the two invariants, `CheckoutInv` needs that a function is about a resource of its
page (`JobsOK`), that only a request page keeps a hash (`Displayed`), and that the
tab is at the Hub for the stored payment (`AtHub`).  The action property then
follows without more: `Asks` finds the function behind every new payment, and
`NothingKept` says what it must have looked at.

`GatewayProofs` proves the types, `TenantIsolation` and `WithinLimit` for any users,
apps, tables, rules and requests, without fairness.  `GatewayInv`: an endpoint, once
defined, keeps its definition, so a request that read it still does what it says
(`Follows`); and a window has let through no more than it counted (`Counted`), which
is why a policy that changes between lookup and count does no harm.

The server's theorems are in `PaymentRequestsProofs`: `ServerTypeOK`,
`ServesOneNetwork`, `StoresOutliveUsers`, `OrderlyExit` and `ReadyMeansReachable`,
for any workers, requests, topics, settings, buffer, probes, time to live and
timeout.  None of them is inductive.  `ServerInv` says what `main` knows at each of
its steps: the settings were valid (`SettingsChecked`); which stores can be open,
and in production are (`OpenedInOrder`, `ClosedInOrder`); an actor at work has its
PostgreSQL (`ActorsHaveStores`) and a relay its Redis (`RelayHasRedis`); once the
bus has been drained nothing is queued or handled, though workers may still run,
because a closed bus takes nothing (`BusEmptied`); and a drain that did not time out
has left no request (`RequestsAnswered`).  `Heard` bounds how long ago the RPC spoke
by the age of the verdict and the wait of the request that asked, so a verdict that
overwrites a younger one is still not too old.

Only model-checked, because fairness and ENABLED are out of the prover's reach:
`EveryPaymentResolves` of both domains, `EveryTransactionEnds`,
`AssignmentsTakeEffect` and `StopsWhenAsked`; and the violated property.

## 5. Not modelled

Absolute time; three-read atomicity of `VerifyTransfer`; deadlocks of the payment
transactions as waits (they appear as aborted attempts); RSVP rows on paid events;
status notifications of the payment domains (the realtime model publishes arbitrary
ones); control messages of the realtime connection, which share its send channel (an
event may so be lost earlier than the model's full channel says); a request without
payer after submission (users are never deleted physically, so `payer_user_id` is
not nulled); amounts (all objects ask for what the well-formed transfers carry);
delivery by Kafka, whose consumers never have a topic to read; telemetry.  Email and
password login (off in production), rate limits, the session cookie, pure rendering,
the parsing of single environment variables, SQL generation and generated code stay
out.  Of the gateway: tenants and apps as rows, revoking roles (nothing does),
nested bodies, the proxy's answer and the column checks, which only choose between
success and refusal.  The limiter of sign-in is the gateway's counter again.  Of the
browser: amounts and texts, two tabs at once (session storage is per tab; the
selected address is shared), and the realtime refetches.

## 6. Plan

1. Done: the payment core, its ledger, requests, realtime delivery, and their proofs.
2. Done: `Payments`, the composition of both payment domains over one hash store, with
   its proofs.
3. Done: `EventLifecycle` with participation, calendars and places; `Gateway`;
   `WebCheckout`; `WebSession`; each with its proofs.
4. Done: `Accounts`, with its proofs.  Left of sessions: connections that outlive
   the account.
5. Done: `ServerLifecycle` with `ServerSettings` and `HealthProbes`, and its proofs.
   Left: the pool of database connections.
6. The realtime client of the frontend, with refetches that come back out of order;
   amounts in lunas.
