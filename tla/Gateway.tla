-------------------------------- MODULE Gateway --------------------------------
(***************************************************************************)
(* The platform API: organizations' apps define endpoints and policies, and *)
(* the gateway pipeline serves requests to them.                            *)
(*                                                                         *)
(* Every request is authenticated before it is admitted.  An administrator's*)
(* request then needs a permission, as a managed request does whose policy  *)
(* asks for one: RBACService answers from a cache that is filled and        *)
(* invalidated in steps of their own.  Between two statements any request   *)
(* may stop: an error, a client that left, a crash.  Redis may refuse any   *)
(* command whose error the code ignores.                                    *)
(***************************************************************************)
EXTENDS Naturals, FiniteSets

CONSTANTS
  None,             \* NULL
  Users, Orgs, Apps, Roles,
  Requests,         \* goroutines that serve a request
  Permissions,      \* as roles grant them, patterns among them
  EndpointWrite, UserWrite,
  Matched,          \* what a granted permission stands for
  RolePermissions,  \* role_permissions, which no request changes
  OrgOf,            \* the organization in the claims of a user's session
  Administrators,   \* user_roles when the server starts
  Endpoints,        \* bound: rows of app_endpoints
  Policies,         \* bound: rows of app_endpoint_policies
  Records,          \* bound: rows of the tables behind the gateway
  StartRecords,     \* those rows when the server starts
  Tables,
  AllowedTables, DeniedTables,
  Elsewhere,        \* a backend_service that is a URL
  Definitions,      \* bodies of POST /endpoints
  Rules,            \* bodies of PUT /policy
  MaxCount          \* bound of a counter

Actions == {"list", "get", "create", "update", "delete"}
Definition == [app : Apps, route : STRING, table : Tables \cup {Elsewhere},
               action : Actions, record : Records \cup {None}]
Rule == [permission : Permissions \cup {None}, limit : Nat]

ASSUME GatewayAssumption ==
  /\ None \notin Users \cup Apps \cup Permissions \cup Endpoints \cup Policies \cup Records \cup Roles
  /\ {EndpointWrite, UserWrite} \subseteq Permissions
  /\ Matched \in [Permissions -> SUBSET Permissions]
  /\ RolePermissions \in [Roles -> SUBSET Permissions]
  /\ OrgOf \in [Users -> Orgs]
  /\ Administrators \subseteq Users \X Roles
  /\ Elsewhere \notin Tables
  /\ AllowedTables \subseteq Tables /\ DeniedTables \subseteq Tables
  /\ Definitions \subseteq Definition
  /\ Rules \subseteq Rule
  /\ MaxCount \in Nat

VARIABLES
  userRoles,     \* user_roles, in the organization of each user's session
  cache,         \* user:<id>:org:<id>:permissions, {} when there is no entry
  endpoints,
  policies,
  counters,      \* rate:<app>:<endpoint>
  passed,        \* history: requests a counter let through
  records,
  jobs

vars == <<userRoles, cache, endpoints, policies, counters, passed, records, jobs>>
redis == <<cache, counters, passed>>
tables == <<userRoles, endpoints, policies, records>>

Endpoint == [status : {"none", "active", "retired"}, def : Definition \cup {None}]
NoEndpoint == [status |-> "none", def |-> None]
NoRule == [permission |-> None, limit |-> 0]
Policy == [endpoint : Endpoints \cup {None}, rule : Rule]
NoPolicy == [endpoint |-> None, rule |-> NoRule]
Counter == [count : Nat, expires : BOOLEAN]
NoCounter == [count |-> 0, expires |-> FALSE]
Record == [table : Tables \cup {None}, org : Orgs \cup {None}, app : Apps \cup {None}, updated : BOOLEAN]
NoRecord == [table |-> None, org |-> None, app |-> None, updated |-> FALSE]

ASSUME StartAssumption == StartRecords \in [Records -> Record]

\* endpoint, row: the endpoint and the policy row the request is about; def, rule: the
\* body it brought or what it read of them; perms: the permissions it fetched.
Job == [step : {"idle", "check", "fetch", "store", "handle", "write", "policy", "limit", "expire", "serve"},
        op : {"define", "activate", "retire", "policy", "assign", "invoke", None},
        user : Users \cup {None}, app : Apps \cup {None}, required : Permissions \cup {None},
        perms : SUBSET Permissions, endpoint : Endpoints \cup {None}, row : Policies \cup {None},
        def : Definition \cup {None}, rule : Rule, grantee : Users \cup {None}]
Idle == [step |-> "idle", op |-> None, user |-> None, app |-> None, required |-> None,
         perms |-> {}, endpoint |-> None, row |-> None,
         def |-> None, rule |-> NoRule, grantee |-> None]

At(p, step, op) == jobs[p].step = step /\ jobs[p].op = op
Become(p, job) == jobs' = [jobs EXCEPT ![p] = job]
Goto(p, step) == jobs' = [jobs EXCEPT ![p].step = step]
Done(p) == Become(p, Idle)

-------------------------------------------------------------------------------
\* Requests.  An administrator's needs a permission before its body is read.

Needed(op) == IF op = "assign" THEN UserWrite ELSE EndpointWrite

AdmitAdmin(p, u) ==
  /\ jobs[p].step = "idle"
  /\ \E op \in {"define", "activate", "retire", "policy", "assign"} :
       Become(p, [Idle EXCEPT !.step = "check", !.op = op, !.user = u, !.required = Needed(op)])
  /\ UNCHANGED <<tables, redis>>

\* GetByMethodPath: the endpoint of this app at this method and path.
Managed(e, app, route) ==
  endpoints[e].status # "none" /\ endpoints[e].def.app = app /\ endpoints[e].def.route = route

\* Enforce, to the lookup: a request without X-App-ID or without an endpoint is not
\* managed, and one to a retired endpoint is gone.
Invoke(p, u, app) ==
  /\ jobs[p].step = "idle"
  /\ \E e \in Endpoints :
       /\ \E d \in Definitions : Managed(e, app, d.route)
       /\ endpoints[e].status = "active"
       /\ Become(p, [Idle EXCEPT !.step = "policy", !.op = "invoke", !.user = u, !.app = app,
                                 !.endpoint = e, !.def = endpoints[e].def])
  /\ UNCHANGED <<tables, redis>>

\* An error, a client that left, a crash.
Stop(p) ==
  /\ jobs[p].step # "idle"
  /\ Done(p)
  /\ UNCHANGED <<tables, redis>>

-------------------------------------------------------------------------------
\* RBACService.

Granted(u) == UNION {RolePermissions[role] : role \in {r \in Roles : <<u, r>> \in userRoles}}
Held(perms, required) == \E g \in perms : required \in Matched[g]

\* The middleware goes on to the handler, the pipeline to the rate limit.
Decide(p, perms) ==
  IF Held(perms, jobs[p].required)
  THEN jobs' = [jobs EXCEPT ![p].step = IF jobs[p].op = "invoke" THEN "limit" ELSE "handle",
                            ![p].perms = {}]
  ELSE Done(p)

\* A command that fails counts as a miss.
ReadCache(p) ==
  /\ jobs[p].step = "check"
  /\ \/ cache[jobs[p].user] # {} /\ Decide(p, cache[jobs[p].user])
     \/ Goto(p, "fetch")
  /\ UNCHANGED <<tables, redis>>

FetchPermissions(p) ==
  /\ jobs[p].step = "fetch"
  /\ jobs' = [jobs EXCEPT ![p].perms = Granted(jobs[p].user), ![p].step = "store"]
  /\ UNCHANGED <<tables, redis>>

\* Nothing is cached for a user without permissions.
StorePermissions(p) ==
  /\ jobs[p].step = "store"
  /\ \/ UNCHANGED cache
     \/ jobs[p].perms # {} /\ cache' = [cache EXCEPT ![jobs[p].user] = jobs[p].perms]
  /\ Decide(p, jobs[p].perms)
  /\ UNCHANGED <<tables, counters, passed>>

\* The 15 minutes of a cached entry.
MutantNeverExpires(u) == FALSE
Cached(u) == cache[u] # {}
ExpirePermissions(u) ==
  /\ Cached(u)
  /\ cache' = [cache EXCEPT ![u] = {}]
  /\ UNCHANGED <<tables, counters, passed, jobs>>

AssignRole(p, u, role) ==
  /\ At(p, "handle", "assign")
  /\ userRoles' = userRoles \cup {<<u, role>>}
  /\ jobs' = [jobs EXCEPT ![p].step = "write", ![p].grantee = u]
  /\ UNCHANGED <<endpoints, policies, records, redis>>

Invalidate(p) ==
  /\ At(p, "write", "assign")
  /\ cache' \in {cache, [cache EXCEPT ![jobs[p].grantee] = {}]}
  /\ Done(p)
  /\ UNCHANGED <<tables, counters, passed>>

-------------------------------------------------------------------------------
\* Endpoints and their policies.

Taken(d) == \E e \in Endpoints : Managed(e, d.app, d.route)

CheckDuplicate(p) ==
  /\ At(p, "handle", "define")
  /\ \E d \in Definitions :
       IF Taken(d) THEN Done(p) ELSE jobs' = [jobs EXCEPT ![p].step = "write", ![p].def = d]
  /\ UNCHANGED <<tables, redis>>

\* UNIQUE(app_id, method, path, version) refuses what was taken meanwhile.
DefineEndpoint(p, e) ==
  /\ At(p, "write", "define")
  /\ endpoints[e].status = "none"
  /\ endpoints' = IF Taken(jobs[p].def) THEN endpoints
                  ELSE [endpoints EXCEPT ![e] = [status |-> "active", def |-> jobs[p].def]]
  /\ Done(p)
  /\ UNCHANGED <<userRoles, policies, records, redis>>

Target(op) == IF op = "activate" THEN "active" ELSE "retired"

\* ActivateEndpoint and RetireEndpoint read the row, refuse to repeat, and write
\* all of it.
ReadEndpoint(p, e) ==
  /\ jobs[p].step = "handle" /\ jobs[p].op \in {"activate", "retire"}
  /\ IF endpoints[e].status \in {"none", Target(jobs[p].op)}
     THEN Done(p)
     ELSE jobs' = [jobs EXCEPT ![p].step = "write", ![p].endpoint = e, ![p].def = endpoints[e].def]
  /\ UNCHANGED <<tables, redis>>

WriteEndpoint(p) ==
  LET job == jobs[p] IN
  /\ job.step = "write" /\ job.op \in {"activate", "retire"}
  /\ endpoints' = [endpoints EXCEPT ![job.endpoint] = [status |-> Target(job.op), def |-> job.def]]
  /\ Done(p)
  /\ UNCHANGED <<userRoles, policies, records, redis>>

\* GetByEndpointID: some row of the endpoint, none if there is none or if the
\* read fails.
PolicyRows(e) == {row \in Policies : policies[row].endpoint = e} \cup {None}

ReadPolicyRow(p) ==
  /\ At(p, "handle", "policy")
  /\ \E e \in Endpoints, rule \in Rules : \E row \in PolicyRows(e) :
       jobs' = [jobs EXCEPT ![p].step = "write", ![p].endpoint = e, ![p].row = row, ![p].rule = rule]
  /\ UNCHANGED <<tables, redis>>

\* UpdatePolicy writes the row it found; otherwise it adds one, of an endpoint
\* that exists.  Nothing keeps a second one out.
WritePolicy(p, free) ==
  LET job == jobs[p] IN
  /\ At(p, "write", "policy")
  /\ policies[free].endpoint = None
  /\ policies' = IF job.row # None THEN [policies EXCEPT ![job.row].rule = job.rule]
                 ELSE IF endpoints[job.endpoint].status = "none" THEN policies
                 ELSE [policies EXCEPT ![free] = [endpoint |-> job.endpoint, rule |-> job.rule]]
  /\ Done(p)
  /\ UNCHANGED <<userRoles, endpoints, records, redis>>

-------------------------------------------------------------------------------
\* The pipeline.

\* A policy that cannot be read counts as none.
ReadPolicy(p) ==
  /\ At(p, "policy", "invoke")
  /\ \E row \in PolicyRows(jobs[p].endpoint) :
       LET rule == IF row = None THEN NoRule ELSE policies[row].rule IN
       jobs' = [jobs EXCEPT ![p].rule = rule, ![p].required = rule.permission,
                            ![p].step = IF rule.permission = None THEN "limit" ELSE "check"]
  /\ UNCHANGED <<tables, redis>>

Unlimited(p) ==
  /\ At(p, "limit", "invoke")
  /\ jobs[p].rule.limit = 0
  /\ Goto(p, "serve")
  /\ UNCHANGED <<tables, redis>>

\* INCR answers with the new count.
MutantOffByOne(n, limit) == n <= limit + 1
Within(n, limit) == n <= limit

CountRequest(p) ==
  LET e == jobs[p].endpoint
      n == counters[e].count + 1
      within == Within(n, jobs[p].rule.limit)
  IN
  /\ At(p, "limit", "invoke")
  /\ jobs[p].rule.limit > 0
  /\ n <= MaxCount
  /\ counters' = [counters EXCEPT ![e].count = n]
  /\ passed' = IF within THEN [passed EXCEPT ![e] = @ + 1] ELSE passed
  /\ IF n = 1 THEN Goto(p, "expire") ELSE IF within THEN Goto(p, "serve") ELSE Done(p)
  /\ UNCHANGED <<tables, cache>>

\* EXPIRE, by the request that created the counter; it may fail.
StartWindow(p) ==
  /\ At(p, "expire", "invoke")
  /\ counters' \in {counters, [counters EXCEPT ![jobs[p].endpoint].expires = TRUE]}
  /\ Goto(p, "serve")
  /\ UNCHANGED <<tables, cache, passed>>

EndWindow(e) ==
  /\ counters[e].expires
  /\ counters' = [counters EXCEPT ![e] = NoCounter]
  /\ passed' = [passed EXCEPT ![e] = 0]
  /\ UNCHANGED <<tables, cache, jobs>>

-------------------------------------------------------------------------------
\* DynamicHandlerResolver, once the interceptors have accepted the body: no
\* handler is registered, a URL is proxied, all else is a table.

Authorized(table) == table \in AllowedTables \ DeniedTables

\* WHERE id = $1 AND organization_id = $2 AND app_id = $3
MutantAnyTenant(p, r) == records[r].table = jobs[p].def.table
Own(p, r) ==
  /\ records[r].table = jobs[p].def.table
  /\ records[r].org = OrgOf[jobs[p].user]
  /\ records[r].app = jobs[p].app

CreateRecord(p, r) ==
  /\ jobs[p].def.action = "create"
  /\ records[r] = NoRecord
  /\ records' = [records EXCEPT ![r] = [table |-> jobs[p].def.table, org |-> OrgOf[jobs[p].user],
                                        app |-> jobs[p].app, updated |-> FALSE]]

\* handleUpdate, handleDelete: the record the path names.
ChangeRecord(p) ==
  LET r == jobs[p].def.record IN
  /\ jobs[p].def.action \in {"update", "delete"}
  /\ r # None
  /\ Own(p, r)
  /\ records' = [records EXCEPT ![r] = IF jobs[p].def.action = "delete" THEN NoRecord
                                       ELSE [@ EXCEPT !.updated = TRUE]]

\* handleGeneric: one statement.
ServeTable(p) ==
  /\ At(p, "serve", "invoke")
  /\ Authorized(jobs[p].def.table)
  /\ ChangeRecord(p) \/ \E r \in Records : CreateRecord(p, r)
  /\ Done(p)
  /\ UNCHANGED <<userRoles, endpoints, policies, redis>>

\* handleHTTPProxy: the answer is somebody else's.
ServeProxy(p) ==
  /\ At(p, "serve", "invoke")
  /\ jobs[p].def.table = Elsewhere
  /\ Done(p)
  /\ UNCHANGED <<tables, redis>>

\* handleList, handleGet.
ServeRead(p) ==
  /\ At(p, "serve", "invoke")
  /\ Authorized(jobs[p].def.table)
  /\ jobs[p].def.action \in {"list", "get"}
  /\ Done(p)
  /\ UNCHANGED <<tables, redis>>

\* The interceptors refuse the body, handleGeneric the table or the columns, or
\* the statement finds no record.
ServeRefusal(p) ==
  /\ At(p, "serve", "invoke")
  /\ Done(p)
  /\ UNCHANGED <<tables, redis>>

-------------------------------------------------------------------------------
Init ==
  /\ userRoles = Administrators
  /\ cache = [u \in Users |-> {}]
  /\ endpoints = [e \in Endpoints |-> NoEndpoint]
  /\ policies = [row \in Policies |-> NoPolicy]
  /\ counters = [e \in Endpoints |-> NoCounter]
  /\ passed = [e \in Endpoints |-> 0]
  /\ records = StartRecords
  /\ jobs = [p \in Requests |-> Idle]

\* The next statement of a request under way.
Advance(p) ==
  \/ ReadCache(p) \/ FetchPermissions(p) \/ StorePermissions(p)
  \/ \E u \in Users, role \in Roles : AssignRole(p, u, role)
  \/ Invalidate(p)
  \/ CheckDuplicate(p) \/ \E e \in Endpoints : DefineEndpoint(p, e)
  \/ \E e \in Endpoints : ReadEndpoint(p, e)
  \/ WriteEndpoint(p)
  \/ ReadPolicyRow(p) \/ \E row \in Policies : WritePolicy(p, row)
  \/ ReadPolicy(p) \/ Unlimited(p) \/ CountRequest(p) \/ StartWindow(p)
  \/ ServeTable(p) \/ ServeProxy(p)
  \/ ServeRead(p) \/ ServeRefusal(p)

Next ==
  \/ \E p \in Requests, u \in Users : AdmitAdmin(p, u) \/ \E app \in Apps : Invoke(p, u, app)
  \/ \E p \in Requests : Advance(p) \/ Stop(p)
  \/ \E u \in Users : ExpirePermissions(u)
  \/ \E e \in Endpoints : EndWindow(e)

\* A request ends sooner or later, by an error if need be; Redis expires a key
\* that has a time to live.
Fairness ==
  /\ \A p \in Requests : WF_vars(Advance(p) \/ Stop(p))
  /\ \A u \in Users : WF_vars(ExpirePermissions(u))
  /\ \A e \in Endpoints : WF_vars(EndWindow(e))

Spec == Init /\ [][Next]_vars
FairSpec == Spec /\ Fairness

-------------------------------------------------------------------------------
TypeOK ==
  /\ userRoles \subseteq Users \X Roles
  /\ cache \in [Users -> SUBSET Permissions]
  /\ endpoints \in [Endpoints -> Endpoint]
  /\ policies \in [Policies -> Policy]
  /\ counters \in [Endpoints -> Counter]
  /\ passed \in [Endpoints -> Nat]
  /\ records \in [Records -> Record]
  /\ jobs \in [Requests -> Job]

\* "multi-tenant isolation" (dynamic_handler.go:348): a record is written only for
\* its own app and organization, through an endpoint which that app defines on the
\* record's table, and never in a table that is denied, allowed by mistake or not.
TenantIsolation ==
  [][\A r \in Records : records'[r] # records[r] =>
       LET row == IF records[r] = NoRecord THEN records'[r] ELSE records[r] IN
       /\ row.table \notin DeniedTables
       /\ \E p \in Requests :
            /\ jobs[p].app = row.app /\ OrgOf[jobs[p].user] = row.org
            /\ endpoints[jobs[p].endpoint].def.app = row.app
            /\ endpoints[jobs[p].endpoint].def.table = row.table]_vars

\* A window lets no request through that is beyond the limit of the policy the
\* request was admitted under, however many servers count at once.
WithinLimit ==
  [][\A p \in Requests :
       /\ jobs[p].step = "limit"
       /\ jobs'[p].step \in {"expire", "serve"}
       /\ jobs[p].rule.limit > 0
       => passed'[jobs[p].endpoint] <= jobs[p].rule.limit]_vars

\* A role that is assigned takes effect: the permissions cached for a user are in
\* the end those of the user's roles, whatever invalidations fail or are overtaken
\* by a request that had read the roles before.
AssignmentsTakeEffect ==
  <>[](\A u \in Users : cache[u] # {} => cache[u] = Granted(u))
===============================================================================
