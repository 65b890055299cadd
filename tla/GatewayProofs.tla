----------------------------- MODULE GatewayProofs -----------------------------
(***************************************************************************)
(* Theorems of Gateway for any users, organizations, apps, tables, rules,   *)
(* requests and bounds.  They use no fairness, so they are about Spec.      *)
(***************************************************************************)
EXTENDS Gateway, TLAPS

-------------------------------------------------------------------------------
(***************************************************************************)
(* The invariant: the endpoint a request has read keeps its definition, so  *)
(* what the request does is what the endpoint says; a gateway request is    *)
(* for the app that endpoint belongs to; a counter counts whatever it lets  *)
(* through.                                                                 *)
(***************************************************************************)

Follows(job, rows) ==
  job.endpoint \in Endpoints /\ rows[job.endpoint].status # "none" /\ rows[job.endpoint].def = job.def

Formed(job, rows) ==
  /\ job.op = "invoke" /\ job.step # "idle" =>
       Follows(job, rows) /\ job.user \in Users /\ job.app \in Apps /\ job.def.app = job.app
  /\ job.op \in {"activate", "retire"} /\ job.step = "write" => Follows(job, rows)
  /\ job.op = "define" /\ job.step = "write" => job.def \in Definitions

StoresOK ==
  /\ userRoles \subseteq Users \X Roles
  /\ cache \in [Users -> SUBSET Permissions]
  /\ endpoints \in [Endpoints -> Endpoint]
  /\ policies \in [Policies -> Policy]
  /\ counters \in [Endpoints -> Counter]
  /\ passed \in [Endpoints -> Nat]
  /\ records \in [Records -> Record]

JobsOK == jobs \in [Requests -> Job] /\ \A p \in Requests : Formed(jobs[p], endpoints)
Counted == \A e \in Endpoints : passed[e] <= counters[e].count

GatewayInv == StoresOK /\ JobsOK /\ Counted

\* Definitions are never changed, nor endpoints removed.
Keeps == \A e \in Endpoints : endpoints[e].status # "none" =>
           endpoints'[e].status # "none" /\ endpoints'[e].def = endpoints[e].def

-------------------------------------------------------------------------------
\* One request goes on.
LEMMA Goes ==
  ASSUME GatewayInv, NEW p \in Requests, NEW job \in Job, Formed(job, endpoints'),
         jobs' = [jobs EXCEPT ![p] = job], StoresOK', Counted', Keeps
  PROVE  GatewayInv'
<1>1. jobs' \in [Requests -> Job] /\ jobs'[p] = job /\ \A q \in Requests : q # p => jobs'[q] = jobs[q]
  BY DEF GatewayInv, JobsOK
<1>2. \A q \in Requests : Formed(jobs[q], endpoints) => Formed(jobs[q], endpoints')
  BY DEF Keeps, Formed, Follows
<1>3. JobsOK'
  BY <1>1, <1>2 DEF GatewayInv, JobsOK
<1> QED BY <1>3 DEF GatewayInv

\* ... and changes nothing else.
LEMMA Moves ==
  ASSUME GatewayInv, NEW p \in Requests, NEW job \in Job, Formed(job, endpoints),
         jobs' = [jobs EXCEPT ![p] = job], UNCHANGED <<tables, redis>>
  PROVE  GatewayInv'
<1>1. StoresOK' /\ Counted' /\ Keeps /\ endpoints' = endpoints
  BY DEF GatewayInv, StoresOK, Counted, Keeps, tables, redis
<1> QED BY <1>1, Goes

LEMMA IdleFormed ==
  ASSUME NEW rows
  PROVE  Idle \in Job /\ Formed(Idle, rows)
BY DEF Idle, Job, NoRule, Rule, Formed

LEMMA Ends ==
  ASSUME GatewayInv, NEW p \in Requests, Done(p), StoresOK', Counted', Keeps
  PROVE  GatewayInv'
BY IdleFormed, Goes DEF Done, Become

LEMMA Leaves ==
  ASSUME GatewayInv, NEW p \in Requests, Done(p), UNCHANGED <<tables, redis>>
  PROVE  GatewayInv'
BY IdleFormed, Moves DEF Done, Become

Steps == {"idle", "check", "fetch", "store", "handle", "write", "policy", "limit", "expire", "serve"}

LEMMA Stepped ==
  ASSUME NEW job \in Job, NEW s \in Steps
  PROVE  LET a == [job EXCEPT !.step = s] IN
         /\ a \in Job /\ a.step = s /\ a.op = job.op /\ a.user = job.user /\ a.app = job.app
         /\ a.endpoint = job.endpoint /\ a.def = job.def
BY DEF Job, Steps

\* The next step of a request that has read all it needs.
LEMMA Advances ==
  ASSUME GatewayInv, NEW p \in Requests, jobs[p].step # "idle", NEW s \in Steps, s # "write",
         NEW job \in Job, job.op = jobs[p].op, job.user = jobs[p].user, job.app = jobs[p].app,
         job.endpoint = jobs[p].endpoint, job.def = jobs[p].def, job.step = s
  PROVE  Formed(job, endpoints)
BY DEF GatewayInv, JobsOK, Formed, Follows

LEMMA GoesTo ==
  ASSUME GatewayInv, NEW p \in Requests, jobs[p].step # "idle", NEW s \in Steps, s # "write", Goto(p, s)
  PROVE  \E job \in Job : Formed(job, endpoints) /\ jobs' = [jobs EXCEPT ![p] = job]
<1> DEFINE a == [jobs[p] EXCEPT !.step = s]
<1>1. jobs[p] \in Job
  BY DEF GatewayInv, JobsOK
<1>2. /\ a \in Job /\ a.step = s /\ a.op = jobs[p].op /\ a.user = jobs[p].user /\ a.app = jobs[p].app
      /\ a.endpoint = jobs[p].endpoint /\ a.def = jobs[p].def
  BY <1>1, Stepped
<1>3. jobs' = [jobs EXCEPT ![p] = a]
  BY DEF Goto
<1> HIDE DEF a
<1>4. Formed(a, endpoints)
  BY <1>2, Advances
<1> QED BY <1>2, <1>3, <1>4

-------------------------------------------------------------------------------
(***************************************************************************)
(* The steps: requests and permissions.                                     *)
(***************************************************************************)

LEMMA Admits ==
  ASSUME GatewayInv, NEW p \in Requests, NEW u \in Users, AdmitAdmin(p, u)
  PROVE  GatewayInv'
<1>1. PICK op \in {"define", "activate", "retire", "policy", "assign"} :
        jobs' = [jobs EXCEPT ![p] = [Idle EXCEPT !.step = "check", !.op = op, !.user = u, !.required = Needed(op)]]
  BY DEF AdmitAdmin, Become
<1> DEFINE a == [Idle EXCEPT !.step = "check"]
           b == [a EXCEPT !.op = op]
           c == [b EXCEPT !.user = u]
           d == [c EXCEPT !.required = Needed(op)]
<1>2. a \in Job /\ a.step = "check"
  BY IdleFormed DEF Job
<1> HIDE DEF a
<1>3. b \in Job /\ b.step = "check" /\ b.op = op
  BY <1>2 DEF Job
<1> HIDE DEF b
<1>4. c \in Job /\ c.step = "check" /\ c.op = op
  BY <1>3 DEF Job
<1> HIDE DEF c
<1>5. Needed(op) \in Permissions
  BY GatewayAssumption DEF Needed
<1>6. d \in Job /\ d.step = "check" /\ d.op = op
  BY <1>4, <1>5 DEF Job
<1>7. jobs' = [jobs EXCEPT ![p] = d]
  BY <1>1 DEF a, b, c
<1> HIDE DEF d
<1>8. Formed(d, endpoints)
  BY <1>6 DEF Formed
<1> QED BY <1>6, <1>7, <1>8, Moves DEF AdmitAdmin

LEMMA Invokes ==
  ASSUME GatewayInv, NEW p \in Requests, NEW u \in Users, NEW app \in Apps, Invoke(p, u, app)
  PROVE  GatewayInv'
<1>1. PICK e \in Endpoints :
        /\ endpoints[e].status = "active" /\ endpoints[e].def.app = app
        /\ jobs' = [jobs EXCEPT ![p] = [Idle EXCEPT !.step = "policy", !.op = "invoke", !.user = u, !.app = app,
                                                    !.endpoint = e, !.def = endpoints[e].def]]
  BY DEF Invoke, Become, Managed
<1> DEFINE a == [Idle EXCEPT !.step = "policy"]
           b == [a EXCEPT !.op = "invoke"]
           c == [b EXCEPT !.user = u]
           d == [c EXCEPT !.app = app]
           f == [d EXCEPT !.endpoint = e]
           g == [f EXCEPT !.def = endpoints[e].def]
<1>2. a \in Job
  BY IdleFormed DEF Job
<1> HIDE DEF a
<1>3. b \in Job /\ b.op = "invoke"
  BY <1>2 DEF Job
<1> HIDE DEF b
<1>4. c \in Job /\ c.op = "invoke" /\ c.user = u
  BY <1>3 DEF Job
<1> HIDE DEF c
<1>5. d \in Job /\ d.op = "invoke" /\ d.user = u /\ d.app = app
  BY <1>4 DEF Job
<1> HIDE DEF d
<1>6. f \in Job /\ f.op = "invoke" /\ f.user = u /\ f.app = app /\ f.endpoint = e
  BY <1>5 DEF Job
<1> HIDE DEF f
<1>7. endpoints[e].def \in Definition \cup {None}
  BY DEF GatewayInv, StoresOK, Endpoint
<1>8. g \in Job /\ g.op = "invoke" /\ g.user = u /\ g.app = app /\ g.endpoint = e /\ g.def = endpoints[e].def
  BY <1>6, <1>7 DEF Job
<1>9. jobs' = [jobs EXCEPT ![p] = g]
  BY <1>1 DEF a, b, c, d, f
<1> HIDE DEF g
<1>10. Formed(g, endpoints)
  BY <1>1, <1>8 DEF Formed, Follows
<1> QED BY <1>8, <1>9, <1>10, Moves DEF Invoke

\* A request that is allowed goes on, another ends.
LEMMA Decides ==
  ASSUME GatewayInv, NEW p \in Requests, jobs[p].step # "idle", NEW perms, Decide(p, perms)
  PROVE  \E job \in Job : Formed(job, endpoints) /\ jobs' = [jobs EXCEPT ![p] = job]
<1>1. CASE Held(perms, jobs[p].required)
  <2> DEFINE s == IF jobs[p].op = "invoke" THEN "limit" ELSE "handle"
             a == [jobs[p] EXCEPT !.step = s]
             b == [a EXCEPT !.perms = {}]
  <2>1. jobs[p] \in Job /\ s \in Steps /\ s # "write"
    BY DEF GatewayInv, JobsOK, Steps
  <2>2. jobs' = [jobs EXCEPT ![p] = b]
    BY <1>1 DEF Decide
  <2> HIDE DEF s
  <2>3. /\ a \in Job /\ a.step = s /\ a.op = jobs[p].op /\ a.user = jobs[p].user /\ a.app = jobs[p].app
        /\ a.endpoint = jobs[p].endpoint /\ a.def = jobs[p].def
    BY <2>1, Stepped
  <2> HIDE DEF a
  <2>4. /\ b \in Job /\ b.step = s /\ b.op = jobs[p].op /\ b.user = jobs[p].user /\ b.app = jobs[p].app
        /\ b.endpoint = jobs[p].endpoint /\ b.def = jobs[p].def
    BY <2>3 DEF Job
  <2> HIDE DEF b
  <2>5. Formed(b, endpoints)
    BY <2>1, <2>4, Advances
  <2> QED BY <2>2, <2>4, <2>5
<1>2. CASE ~Held(perms, jobs[p].required)
  BY <1>2, IdleFormed DEF Decide, Done, Become
<1> QED BY <1>1, <1>2

LEMMA GrantedPermissions ==
  ASSUME StoresOK, NEW u
  PROVE  Granted(u) \in SUBSET Permissions
<1>1. \A role \in Roles : RolePermissions[role] \subseteq Permissions
  BY GatewayAssumption
<1>2. \A g \in Granted(u) : \E role \in Roles : g \in RolePermissions[role]
  BY DEF Granted
<1> QED BY <1>1, <1>2

LEMMA Permits ==
  ASSUME GatewayInv, NEW p \in Requests, ReadCache(p) \/ FetchPermissions(p) \/ StorePermissions(p)
  PROVE  GatewayInv'
<1>1. jobs[p] \in Job /\ jobs[p].step # "idle"
  BY DEF GatewayInv, JobsOK, ReadCache, FetchPermissions, StorePermissions
<1>2. CASE ReadCache(p)
  <2>1. CASE Goto(p, "fetch")
    BY <1>1, <1>2, <2>1, GoesTo, Moves DEF ReadCache, Steps
  <2>2. CASE Decide(p, cache[jobs[p].user])
    BY <1>1, <1>2, <2>2, Decides, Moves DEF ReadCache
  <2> QED BY <1>2, <2>1, <2>2 DEF ReadCache
<1>3. CASE FetchPermissions(p)
  <2> DEFINE a == [jobs[p] EXCEPT !.perms = Granted(jobs[p].user)]
             b == [a EXCEPT !.step = "store"]
  <2>1. Granted(jobs[p].user) \in SUBSET Permissions
    BY GrantedPermissions DEF GatewayInv
  <2>2. /\ a \in Job /\ a.op = jobs[p].op /\ a.user = jobs[p].user /\ a.app = jobs[p].app
        /\ a.endpoint = jobs[p].endpoint /\ a.def = jobs[p].def
    BY <1>1, <2>1 DEF Job
  <2>3. jobs' = [jobs EXCEPT ![p] = b]
    BY <1>3 DEF FetchPermissions
  <2> HIDE DEF a
  <2>4. /\ b \in Job /\ b.step = "store" /\ b.op = jobs[p].op /\ b.user = jobs[p].user /\ b.app = jobs[p].app
        /\ b.endpoint = jobs[p].endpoint /\ b.def = jobs[p].def
    BY <2>2, Stepped DEF Steps
  <2> HIDE DEF b
  <2>5. Formed(b, endpoints)
    BY <1>1, <2>4, Advances DEF Steps
  <2> QED BY <1>3, <2>3, <2>4, <2>5, Moves DEF FetchPermissions
<1>4. CASE StorePermissions(p)
  <2>1. jobs[p].perms \in SUBSET Permissions
    BY <1>1 DEF Job
  <2>2. StoresOK' /\ Counted' /\ Keeps /\ endpoints' = endpoints
    BY <1>4, <2>1 DEF StorePermissions, tables, GatewayInv, StoresOK, Counted, Keeps
  <2>3. Decide(p, jobs[p].perms)
    BY <1>4 DEF StorePermissions
  <2> QED BY <1>1, <2>2, <2>3, Decides, Goes
<1> QED BY <1>2, <1>3, <1>4

LEMMA Assigns ==
  ASSUME GatewayInv, NEW p \in Requests, NEW u \in Users, NEW role \in Roles, AssignRole(p, u, role)
  PROVE  GatewayInv'
<1> DEFINE a == [jobs[p] EXCEPT !.step = "write"]
           b == [a EXCEPT !.grantee = u]
<1>1. jobs[p] \in Job /\ jobs[p].op = "assign" /\ jobs' = [jobs EXCEPT ![p] = b]
  BY DEF AssignRole, At, GatewayInv, JobsOK
<1>2. a \in Job /\ a.op = "assign"
  BY <1>1, Stepped DEF Steps
<1> HIDE DEF a
<1>3. b \in Job /\ b.op = "assign"
  BY <1>2 DEF Job
<1> HIDE DEF b
<1>4. Formed(b, endpoints')
  BY <1>3 DEF Formed
<1>5. StoresOK' /\ Counted' /\ Keeps
  BY DEF AssignRole, redis, GatewayInv, StoresOK, Counted, Keeps
<1> QED BY <1>1, <1>3, <1>4, <1>5, Goes

LEMMA Caches ==
  ASSUME GatewayInv,
         \/ \E p \in Requests : Invalidate(p)
         \/ \E u \in Users : ExpirePermissions(u)
  PROVE  GatewayInv'
<1>1. StoresOK' /\ Counted' /\ Keeps /\ endpoints' = endpoints
  BY DEF Invalidate, ExpirePermissions, tables, GatewayInv, StoresOK, Counted, Keeps
<1>2. ASSUME NEW p \in Requests, Invalidate(p) PROVE GatewayInv'
  BY <1>1, <1>2, Ends DEF Invalidate
<1>3. ASSUME NEW u \in Users, ExpirePermissions(u) PROVE GatewayInv'
  BY <1>1, <1>3 DEF ExpirePermissions, GatewayInv, JobsOK
<1> QED BY <1>2, <1>3

-------------------------------------------------------------------------------
(***************************************************************************)
(* The steps: endpoints and policies.                                       *)
(***************************************************************************)

LEMMA Defines ==
  ASSUME GatewayInv, NEW p \in Requests, CheckDuplicate(p)
  PROVE  GatewayInv'
<1>1. PICK d \in Definitions :
        IF Taken(d) THEN Done(p) ELSE jobs' = [jobs EXCEPT ![p].step = "write", ![p].def = d]
  BY DEF CheckDuplicate
<1>2. UNCHANGED <<tables, redis>>
  BY DEF CheckDuplicate
<1>3. CASE Taken(d)
  BY <1>1, <1>2, <1>3, Leaves
<1>4. CASE ~Taken(d)
  <2> DEFINE a == [jobs[p] EXCEPT !.step = "write"]
             b == [a EXCEPT !.def = d]
  <2>1. jobs[p] \in Job /\ jobs[p].op = "define" /\ jobs' = [jobs EXCEPT ![p] = b]
    BY <1>1, <1>4 DEF CheckDuplicate, At, GatewayInv, JobsOK
  <2>2. a \in Job /\ a.op = "define"
    BY <2>1, Stepped DEF Steps
  <2> HIDE DEF a
  <2>3. d \in Definition
    BY GatewayAssumption
  <2>4. b \in Job /\ b.op = "define" /\ b.def = d
    BY <2>2, <2>3 DEF Job
  <2> HIDE DEF b
  <2>5. Formed(b, endpoints)
    BY <2>4 DEF Formed
  <2> QED BY <1>2, <2>1, <2>4, <2>5, Moves
<1> QED BY <1>3, <1>4

LEMMA Reads ==
  ASSUME GatewayInv, NEW p \in Requests, NEW e \in Endpoints, ReadEndpoint(p, e)
  PROVE  GatewayInv'
<1>1. UNCHANGED <<tables, redis>>
  BY DEF ReadEndpoint
<1>2. CASE endpoints[e].status \in {"none", Target(jobs[p].op)}
  BY <1>1, <1>2, Leaves DEF ReadEndpoint
<1>3. CASE endpoints[e].status \notin {"none", Target(jobs[p].op)}
  <2> DEFINE a == [jobs[p] EXCEPT !.step = "write"]
             b == [a EXCEPT !.endpoint = e]
             c == [b EXCEPT !.def = endpoints[e].def]
  <2>1. jobs[p] \in Job /\ jobs[p].op \in {"activate", "retire"} /\ jobs' = [jobs EXCEPT ![p] = c]
    BY <1>3 DEF ReadEndpoint, GatewayInv, JobsOK
  <2>2. a \in Job /\ a.op \in {"activate", "retire"}
    BY <2>1, Stepped DEF Steps
  <2> HIDE DEF a
  <2>3. b \in Job /\ b.op \in {"activate", "retire"} /\ b.endpoint = e
    BY <2>2 DEF Job
  <2> HIDE DEF b
  <2>4. endpoints[e].def \in Definition \cup {None}
    BY DEF GatewayInv, StoresOK, Endpoint
  <2>5. c \in Job /\ c.op \in {"activate", "retire"} /\ c.endpoint = e /\ c.def = endpoints[e].def
    BY <2>3, <2>4 DEF Job
  <2> HIDE DEF c
  <2>6. Formed(c, endpoints)
    BY <1>3, <2>5 DEF Formed, Follows
  <2> QED BY <1>1, <2>1, <2>5, <2>6, Moves
<1> QED BY <1>2, <1>3

LEMMA WritesEndpoint ==
  ASSUME GatewayInv, NEW p \in Requests,
         \/ \E e \in Endpoints : DefineEndpoint(p, e)
         \/ WriteEndpoint(p)
  PROVE  GatewayInv'
<1>1. /\ endpoints \in [Endpoints -> Endpoint] /\ jobs[p] \in Job /\ Formed(jobs[p], endpoints)
      /\ Done(p) /\ UNCHANGED <<userRoles, policies, records, redis>>
  BY DEF DefineEndpoint, WriteEndpoint, GatewayInv, StoresOK, JobsOK
<1>2. endpoints' \in [Endpoints -> Endpoint] /\ Keeps
  <2>1. ASSUME NEW e \in Endpoints, DefineEndpoint(p, e)
        PROVE  endpoints' \in [Endpoints -> Endpoint] /\ Keeps
    <3> DEFINE row == [status |-> "active", def |-> jobs[p].def]
    <3>1. jobs[p].def \in Definition
      BY <1>1, <2>1, GatewayAssumption DEF DefineEndpoint, At, Formed
    <3>2. row \in Endpoint
      BY <3>1 DEF Endpoint
    <3>3. endpoints' = endpoints \/ endpoints' = [endpoints EXCEPT ![e] = row]
      BY <2>1 DEF DefineEndpoint
    <3>4. endpoints[e].status = "none"
      BY <2>1 DEF DefineEndpoint
    <3> HIDE DEF row
    <3> QED BY <1>1, <3>2, <3>3, <3>4 DEF Keeps
  <2>2. CASE WriteEndpoint(p)
    <3> DEFINE e == jobs[p].endpoint
               row == [status |-> Target(jobs[p].op), def |-> jobs[p].def]
    <3>1. /\ e \in Endpoints /\ endpoints[e].def = jobs[p].def
          /\ endpoints' = [endpoints EXCEPT ![e] = row]
      BY <1>1, <2>2 DEF WriteEndpoint, Formed, Follows
    <3>2. endpoints[e].def \in Definition \cup {None}
      BY <1>1, <3>1 DEF Endpoint
    <3>3. row \in Endpoint /\ row.status # "none" /\ row.def = endpoints[e].def
      BY <3>1, <3>2 DEF Endpoint, Target
    <3> HIDE DEF row, e
    <3> QED BY <1>1, <3>1, <3>3 DEF Keeps
  <2> QED BY <2>1, <2>2
<1>3. StoresOK' /\ Counted'
  BY <1>1, <1>2 DEF GatewayInv, StoresOK, Counted, redis
<1> QED BY <1>1, <1>2, <1>3, Ends

LEMMA RuleRows ==
  ASSUME GatewayInv, NEW e, NEW row \in PolicyRows(e)
  PROVE  row \in Policies \cup {None}
BY DEF PolicyRows

LEMMA ReadsPolicyRow ==
  ASSUME GatewayInv, NEW p \in Requests, ReadPolicyRow(p)
  PROVE  GatewayInv'
<1>1. PICK e \in Endpoints, rule \in Rules, row \in Policies \cup {None} :
        jobs' = [jobs EXCEPT ![p].step = "write", ![p].endpoint = e, ![p].row = row, ![p].rule = rule]
  BY RuleRows DEF ReadPolicyRow
<1> DEFINE a == [jobs[p] EXCEPT !.step = "write"]
           b == [a EXCEPT !.endpoint = e]
           c == [b EXCEPT !.row = row]
           d == [c EXCEPT !.rule = rule]
<1>2. jobs[p] \in Job /\ jobs[p].op = "policy" /\ jobs' = [jobs EXCEPT ![p] = d]
  BY <1>1 DEF ReadPolicyRow, At, GatewayInv, JobsOK
<1>3. a \in Job /\ a.op = "policy"
  BY <1>2, Stepped DEF Steps
<1> HIDE DEF a
<1>4. b \in Job /\ b.op = "policy"
  BY <1>3 DEF Job
<1> HIDE DEF b
<1>5. c \in Job /\ c.op = "policy"
  BY <1>4 DEF Job
<1> HIDE DEF c
<1>6. rule \in Rule
  BY GatewayAssumption
<1>7. d \in Job /\ d.op = "policy"
  BY <1>5, <1>6 DEF Job
<1> HIDE DEF d
<1>8. Formed(d, endpoints)
  BY <1>7 DEF Formed
<1> QED BY <1>2, <1>7, <1>8, Moves DEF ReadPolicyRow

LEMMA WritesPolicy ==
  ASSUME GatewayInv, NEW p \in Requests, NEW free \in Policies, WritePolicy(p, free)
  PROVE  GatewayInv'
<1>1. /\ policies \in [Policies -> Policy] /\ jobs[p].rule \in Rule
      /\ jobs[p].endpoint \in Endpoints \cup {None}
  BY DEF GatewayInv, StoresOK, JobsOK, Job
<1> DEFINE row == [endpoint |-> jobs[p].endpoint, rule |-> jobs[p].rule]
<1>2. row \in Policy
  BY <1>1 DEF Policy
<1>3. \/ policies' = policies
      \/ policies' = [policies EXCEPT ![jobs[p].row].rule = jobs[p].rule]
      \/ policies' = [policies EXCEPT ![free] = row]
  BY DEF WritePolicy
<1> HIDE DEF row
<1>4. policies' \in [Policies -> Policy]
  BY <1>1, <1>2, <1>3 DEF Policy
<1>5. StoresOK' /\ Counted' /\ Keeps
  BY <1>4 DEF WritePolicy, GatewayInv, StoresOK, Counted, Keeps, redis
<1> QED BY <1>5, Ends DEF WritePolicy

-------------------------------------------------------------------------------
(***************************************************************************)
(* The steps: the pipeline.                                                 *)
(***************************************************************************)

LEMMA ReadsPolicy ==
  ASSUME GatewayInv, NEW p \in Requests, ReadPolicy(p)
  PROVE  GatewayInv'
<1>1. PICK row \in PolicyRows(jobs[p].endpoint) :
        LET rule == IF row = None THEN NoRule ELSE policies[row].rule IN
        jobs' = [jobs EXCEPT ![p].rule = rule, ![p].required = rule.permission,
                             ![p].step = IF rule.permission = None THEN "limit" ELSE "check"]
  BY DEF ReadPolicy
<1> DEFINE rule == IF row = None THEN NoRule ELSE policies[row].rule
           s == IF rule.permission = None THEN "limit" ELSE "check"
           a == [jobs[p] EXCEPT !.rule = rule]
           b == [a EXCEPT !.required = rule.permission]
           c == [b EXCEPT !.step = s]
<1>2. rule \in Rule
  BY RuleRows DEF NoRule, Rule, GatewayInv, StoresOK, Policy
<1>3. jobs[p] \in Job /\ jobs[p].step # "idle" /\ jobs' = [jobs EXCEPT ![p] = c] /\ s \in Steps /\ s # "write"
  BY <1>1 DEF ReadPolicy, At, GatewayInv, JobsOK, Steps
<1>4. rule.permission \in Permissions \cup {None}
  BY <1>2 DEF Rule
<1> HIDE DEF s, rule
<1>5. /\ a \in Job /\ a.op = jobs[p].op /\ a.user = jobs[p].user /\ a.app = jobs[p].app
      /\ a.endpoint = jobs[p].endpoint /\ a.def = jobs[p].def
  BY <1>2, <1>3 DEF Job
<1> HIDE DEF a
<1>6. /\ b \in Job /\ b.op = jobs[p].op /\ b.user = jobs[p].user /\ b.app = jobs[p].app
      /\ b.endpoint = jobs[p].endpoint /\ b.def = jobs[p].def
  BY <1>4, <1>5 DEF Job
<1> HIDE DEF b
<1>7. /\ c \in Job /\ c.step = s /\ c.op = jobs[p].op /\ c.user = jobs[p].user /\ c.app = jobs[p].app
      /\ c.endpoint = jobs[p].endpoint /\ c.def = jobs[p].def
  BY <1>3, <1>6, Stepped
<1> HIDE DEF c
<1>8. Formed(c, endpoints)
  BY <1>3, <1>7, Advances
<1> QED BY <1>3, <1>7, <1>8, Moves DEF ReadPolicy

\* A counter counts before it lets through, and starts again with its window.
LEMMA Counts ==
  ASSUME GatewayInv, NEW p \in Requests, Unlimited(p) \/ CountRequest(p) \/ StartWindow(p)
  PROVE  GatewayInv'
<1>1. /\ jobs[p].op = "invoke" /\ jobs[p].step # "idle" /\ counters \in [Endpoints -> Counter]
      /\ passed \in [Endpoints -> Nat] /\ Formed(jobs[p], endpoints) /\ UNCHANGED <<tables, cache>>
      /\ Counted
  BY DEF Unlimited, CountRequest, StartWindow, At, GatewayInv, StoresOK, JobsOK, redis
<1> DEFINE e == jobs[p].endpoint
<1>2. e \in Endpoints
  BY <1>1 DEF Formed, Follows
<1>3. \E s \in {"serve", "expire"} : Goto(p, s) \/ Done(p)
  BY DEF Unlimited, CountRequest, StartWindow
<1>4. \E job \in Job : Formed(job, endpoints) /\ jobs' = [jobs EXCEPT ![p] = job]
  BY <1>1, <1>3, GoesTo, IdleFormed DEF Steps, Done, Become
<1> HIDE DEF e
<1>5. /\ counters' \in [Endpoints -> Counter] /\ passed' \in [Endpoints -> Nat] /\ Counted'
  <2>1. CASE Unlimited(p)
    BY <1>1, <2>1 DEF Unlimited, redis, Counted
  <2>2. CASE CountRequest(p)
    <3>1. /\ counters' = [counters EXCEPT ![e].count = counters[e].count + 1]
          /\ passed' \in {passed, [passed EXCEPT ![e] = passed[e] + 1]}
      BY <2>2 DEF CountRequest, e
    <3>2. counters[e].count \in Nat /\ passed[e] \in Nat
      BY <1>1, <1>2 DEF Counter
    <3>3. counters' \in [Endpoints -> Counter] /\ counters'[e].count = counters[e].count + 1
          /\ \A f \in Endpoints : f # e => counters'[f] = counters[f]
      BY <1>1, <1>2, <3>1, <3>2 DEF Counter
    <3>4. passed' \in [Endpoints -> Nat] /\ passed'[e] <= passed[e] + 1
          /\ \A f \in Endpoints : f # e => passed'[f] = passed[f]
      BY <1>1, <1>2, <3>1, <3>2
    <3>5. passed[e] <= counters[e].count /\ passed'[e] \in Nat
      BY <1>1, <1>2, <3>4 DEF Counted
    <3> QED BY <1>1, <1>2, <3>2, <3>3, <3>4, <3>5 DEF Counted
  <2>3. CASE StartWindow(p)
    <3>1. counters' \in {counters, [counters EXCEPT ![e].expires = TRUE]} /\ passed' = passed
      BY <2>3 DEF StartWindow, e
    <3>2. counters' \in [Endpoints -> Counter] /\ \A f \in Endpoints : counters'[f].count = counters[f].count
      BY <1>1, <3>1 DEF Counter
    <3> QED BY <1>1, <3>1, <3>2 DEF Counted
  <2> QED BY <2>1, <2>2, <2>3
<1>6. StoresOK' /\ Keeps /\ endpoints' = endpoints
  BY <1>1, <1>5 DEF GatewayInv, StoresOK, Keeps, tables
<1> QED BY <1>4, <1>5, <1>6, Goes

LEMMA WindowEnds ==
  ASSUME GatewayInv, NEW e \in Endpoints, EndWindow(e)
  PROVE  GatewayInv'
<1>1. /\ counters \in [Endpoints -> Counter] /\ passed \in [Endpoints -> Nat]
      /\ counters' = [counters EXCEPT ![e] = NoCounter] /\ passed' = [passed EXCEPT ![e] = 0]
      /\ UNCHANGED <<tables, cache, jobs>>
  BY DEF EndWindow, GatewayInv, StoresOK
<1>2. NoCounter \in Counter /\ NoCounter.count = 0
  BY DEF NoCounter, Counter
<1>3. counters' \in [Endpoints -> Counter] /\ passed' \in [Endpoints -> Nat]
  BY <1>1, <1>2
<1>4. Counted'
  BY <1>1, <1>2 DEF GatewayInv, Counted
<1> QED BY <1>1, <1>3, <1>4 DEF GatewayInv, StoresOK, JobsOK, tables

LEMMA Serves ==
  ASSUME GatewayInv, NEW p \in Requests,
         ServeTable(p) \/ ServeProxy(p) \/ ServeRead(p) \/ ServeRefusal(p)
  PROVE  GatewayInv'
<1>1. CASE ServeProxy(p) \/ ServeRead(p) \/ ServeRefusal(p)
  BY <1>1, Leaves DEF ServeProxy, ServeRead, ServeRefusal
<1>2. CASE ServeTable(p)
  <2> DEFINE job == jobs[p]
  <2>1. /\ job.user \in Users /\ job.app \in Apps /\ job.def.table \in Tables
        /\ records \in [Records -> Record] /\ OrgOf[job.user] \in Orgs
    BY <1>2, GatewayAssumption DEF ServeTable, At, Authorized, GatewayInv, StoresOK, JobsOK, Formed
  <2>2. records' \in [Records -> Record]
    <3>1. CASE ChangeRecord(p)
      <4>1. NoRecord \in Record
        BY DEF NoRecord, Record
      <4>2. \A r \in Records : [records[r] EXCEPT !.updated = TRUE] \in Record
        BY <2>1 DEF Record
      <4> QED BY <2>1, <3>1, <4>1, <4>2 DEF ChangeRecord
    <3>2. ASSUME NEW r \in Records, CreateRecord(p, r) PROVE records' \in [Records -> Record]
      <4> DEFINE new == [table |-> job.def.table, org |-> OrgOf[job.user], app |-> job.app, updated |-> FALSE]
      <4>1. new \in Record
        BY <2>1 DEF Record
      <4>2. records' = [records EXCEPT ![r] = new]
        BY <3>2 DEF CreateRecord
      <4> HIDE DEF new
      <4> QED BY <2>1, <4>1, <4>2
    <3> QED BY <1>2, <3>1, <3>2 DEF ServeTable
  <2>3. StoresOK' /\ Counted' /\ Keeps
    BY <1>2, <2>2 DEF ServeTable, GatewayInv, StoresOK, Counted, Keeps, redis
  <2> QED BY <1>2, <2>3, Ends DEF ServeTable
<1> QED BY <1>1, <1>2

-------------------------------------------------------------------------------
(***************************************************************************)
(* The theorems.                                                            *)
(***************************************************************************)

LEMMA StartInv == Init => GatewayInv
<1> SUFFICES ASSUME Init PROVE GatewayInv
  OBVIOUS
<1>1. NoEndpoint \in Endpoint /\ NoPolicy \in Policy /\ NoCounter \in Counter /\ NoCounter.count = 0
  BY DEF NoEndpoint, Endpoint, NoPolicy, Policy, NoRule, Rule, NoCounter, Counter
<1>2. StoresOK
  BY <1>1, GatewayAssumption, StartAssumption DEF Init, StoresOK
<1>3. jobs \in [Requests -> Job] /\ \A p \in Requests : jobs[p] = Idle
  BY IdleFormed DEF Init
<1>4. JobsOK
  BY <1>3, IdleFormed DEF JobsOK
<1>5. Counted
  BY <1>1 DEF Init, Counted
<1> QED BY <1>2, <1>4, <1>5 DEF GatewayInv

LEMMA AdvanceInv ==
  ASSUME GatewayInv, NEW p \in Requests, Advance(p)
  PROVE  GatewayInv'
<1>1. CASE ReadCache(p) \/ FetchPermissions(p) \/ StorePermissions(p)
  BY <1>1, Permits
<1>2. CASE \/ \E u \in Users, role \in Roles : AssignRole(p, u, role)
           \/ Invalidate(p)
  BY <1>2, Assigns, Caches
<1>3. CASE \/ CheckDuplicate(p)
           \/ \E e \in Endpoints : DefineEndpoint(p, e)
           \/ \E e \in Endpoints : ReadEndpoint(p, e)
           \/ WriteEndpoint(p)
  BY <1>3, Defines, Reads, WritesEndpoint
<1>4. CASE \/ ReadPolicyRow(p)
           \/ \E row \in Policies : WritePolicy(p, row)
           \/ ReadPolicy(p)
  BY <1>4, ReadsPolicyRow, WritesPolicy, ReadsPolicy
<1>5. CASE Unlimited(p) \/ CountRequest(p) \/ StartWindow(p)
  BY <1>5, Counts
<1>6. CASE ServeTable(p) \/ ServeProxy(p) \/ ServeRead(p) \/ ServeRefusal(p)
  BY <1>6, Serves
<1> QED BY <1>1, <1>2, <1>3, <1>4, <1>5, <1>6 DEF Advance

LEMMA StepInv == GatewayInv /\ [Next]_vars => GatewayInv'
<1> SUFFICES ASSUME GatewayInv, [Next]_vars PROVE GatewayInv'
  OBVIOUS
<1>1. CASE UNCHANGED vars
  BY <1>1 DEF vars, GatewayInv, StoresOK, JobsOK, Counted
<1>2. ASSUME NEW p \in Requests, NEW u \in Users, AdmitAdmin(p, u) \/ \E app \in Apps : Invoke(p, u, app)
      PROVE  GatewayInv'
  BY <1>2, Admits, Invokes
<1>3. ASSUME NEW p \in Requests, Advance(p) \/ Stop(p) PROVE GatewayInv'
  BY <1>3, AdvanceInv, Leaves DEF Stop
<1>4. CASE \E u \in Users : ExpirePermissions(u)
  BY <1>4, Caches
<1>5. CASE \E e \in Endpoints : EndWindow(e)
  BY <1>5, WindowEnds
<1> QED BY <1>1, <1>2, <1>3, <1>4, <1>5 DEF Next

\* A record is written only by a request that serves a table.
LEMMA WritesOwn ==
  ASSUME GatewayInv, NEW p \in Requests, ServeTable(p), NEW r \in Records, records'[r] # records[r]
  PROVE  LET row == IF records[r] = NoRecord THEN records'[r] ELSE records[r] IN
         /\ row.table = jobs[p].def.table /\ row.app = jobs[p].app /\ row.org = OrgOf[jobs[p].user]
         /\ row.table \notin DeniedTables
<1> DEFINE job == jobs[p]
<1>1. records \in [Records -> Record] /\ job.def.table \notin DeniedTables
  BY DEF ServeTable, Authorized, GatewayInv, StoresOK
<1>2. CASE ChangeRecord(p)
  <2>1. job.def.record = r /\ Own(p, r)
    BY <1>1, <1>2 DEF ChangeRecord
  <2>2. \/ records'[r] = NoRecord
        \/ records'[r] = [records[r] EXCEPT !.updated = TRUE]
    BY <1>1, <1>2, <2>1 DEF ChangeRecord
  <2>3. \/ records[r] # NoRecord
        \/ /\ records'[r].table = records[r].table
           /\ records'[r].app = records[r].app
           /\ records'[r].org = records[r].org
    BY <1>1, <2>2 DEF Record
  <2> QED BY <1>1, <2>1, <2>3 DEF Own
<1>3. ASSUME NEW s \in Records, CreateRecord(p, s)
      PROVE  /\ s = r /\ records[r] = NoRecord
             /\ records'[r] = [table |-> job.def.table, org |-> OrgOf[job.user], app |-> job.app, updated |-> FALSE]
  BY <1>1, <1>3 DEF CreateRecord
<1> QED BY <1>1, <1>2, <1>3 DEF ServeTable

\* A step is one request's own.
LEMMA Alone ==
  ASSUME jobs \in [Requests -> Job], NEW p \in Requests, NEW q \in Requests, p # q,
         \/ \E u \in Users : AdmitAdmin(q, u) \/ \E app \in Apps : Invoke(q, u, app)
         \/ Advance(q)
         \/ Stop(q)
  PROVE  jobs'[p] = jobs[p]
<1>1. CASE \/ \E u \in Users : AdmitAdmin(q, u) \/ \E app \in Apps : Invoke(q, u, app)
           \/ Stop(q)
  BY <1>1 DEF AdmitAdmin, Invoke, Stop, Become, Done
<1>2. CASE ReadCache(q) \/ FetchPermissions(q) \/ StorePermissions(q)
  BY <1>2 DEF ReadCache, FetchPermissions, StorePermissions, Decide, Goto, Done, Become
<1>3. CASE \/ \E u \in Users, role \in Roles : AssignRole(q, u, role)
           \/ Invalidate(q)
  BY <1>3 DEF AssignRole, Invalidate, Done, Become
<1>4. CASE \/ CheckDuplicate(q)
           \/ \E e \in Endpoints : DefineEndpoint(q, e)
           \/ \E e \in Endpoints : ReadEndpoint(q, e)
           \/ WriteEndpoint(q)
  BY <1>4 DEF CheckDuplicate, DefineEndpoint, ReadEndpoint, WriteEndpoint, Done, Become
<1>5. CASE \/ ReadPolicyRow(q)
           \/ \E row \in Policies : WritePolicy(q, row)
           \/ ReadPolicy(q)
  BY <1>5 DEF ReadPolicyRow, WritePolicy, ReadPolicy, Done, Become
<1>6. CASE Unlimited(q) \/ CountRequest(q) \/ StartWindow(q)
  BY <1>6 DEF Unlimited, CountRequest, StartWindow, Goto, Done, Become
<1>7. CASE ServeTable(q) \/ ServeProxy(q) \/ ServeRead(q) \/ ServeRefusal(q)
  BY <1>7 DEF ServeTable, ServeProxy, ServeRead, ServeRefusal, Done, Become
<1> QED BY <1>1, <1>2, <1>3, <1>4, <1>5, <1>6, <1>7 DEF Advance

\* Only the counter lets a limited request on.
LEMMA LetsThrough ==
  ASSUME jobs \in [Requests -> Job], Next, NEW p \in Requests,
         jobs[p].step = "limit", jobs'[p].step \in {"expire", "serve"}, jobs[p].rule.limit > 0
  PROVE  CountRequest(p)
<1>1. /\ ~\E u \in Users : ExpirePermissions(u)
      /\ ~\E e \in Endpoints : EndWindow(e)
  BY DEF ExpirePermissions, EndWindow
<1>2. PICK q \in Requests :
        \/ \E u \in Users : AdmitAdmin(q, u) \/ \E app \in Apps : Invoke(q, u, app)
        \/ Advance(q)
        \/ Stop(q)
  BY <1>1 DEF Next
<1>3. q = p
  BY <1>2, Alone
<1>4. ~Stop(p)
  BY DEF Stop, Done, Become, Idle
<1>5. Advance(p)
  BY <1>2, <1>3, <1>4 DEF AdmitAdmin, Invoke
<1>6. Unlimited(p) \/ CountRequest(p)
  BY <1>5 DEF Advance, ReadCache, FetchPermissions, StorePermissions, AssignRole, Invalidate, CheckDuplicate,
     DefineEndpoint, ReadEndpoint, WriteEndpoint, ReadPolicyRow, WritePolicy, ReadPolicy, StartWindow,
     ServeTable, ServeProxy, ServeRead, ServeRefusal, At
<1> QED BY <1>6 DEF Unlimited

\* Everything above holds in every state of the platform.
THEOREM SafetyInvariant == Spec => []GatewayInv
BY StartInv, StepInv, PTL DEF Spec

\* The tables, the keys in Redis and the requests stay what the code makes them.
THEOREM TypeCorrect == Spec => []TypeOK
<1>1. GatewayInv => TypeOK
  BY DEF GatewayInv, StoresOK, JobsOK, TypeOK
<1> QED BY <1>1, SafetyInvariant, PTL

\* The gateway writes a record only for its own app and organization, through an
\* endpoint of that app on that table, and never in a denied table.
THEOREM TenantsAreIsolated == Spec => TenantIsolation
<1> DEFINE Row(r) == IF records[r] = NoRecord THEN records'[r] ELSE records[r]
           Mine(r) == /\ Row(r).table \notin DeniedTables
                      /\ \E p \in Requests :
                           /\ jobs[p].app = Row(r).app /\ OrgOf[jobs[p].user] = Row(r).org
                           /\ endpoints[jobs[p].endpoint].def.app = Row(r).app
                           /\ endpoints[jobs[p].endpoint].def.table = Row(r).table
<1>1. ASSUME GatewayInv, Next, NEW r \in Records, records'[r] # records[r]
      PROVE  Mine(r)
  <2>1. PICK p \in Requests : ServeTable(p)
    BY <1>1 DEF Next, Advance, AdmitAdmin, Invoke, Stop, ReadCache, FetchPermissions, StorePermissions,
       AssignRole, Invalidate, CheckDuplicate, DefineEndpoint, ReadEndpoint, WriteEndpoint, ReadPolicyRow,
       WritePolicy, ReadPolicy, Unlimited, CountRequest, StartWindow, ServeProxy, ServeRead, ServeRefusal,
       ExpirePermissions, EndWindow, tables
  <2>2. /\ Row(r).table = jobs[p].def.table /\ Row(r).app = jobs[p].app
        /\ Row(r).org = OrgOf[jobs[p].user] /\ Row(r).table \notin DeniedTables
    BY <1>1, <2>1, WritesOwn
  <2>3. endpoints[jobs[p].endpoint].def = jobs[p].def /\ jobs[p].def.app = jobs[p].app
    BY <1>1, <2>1 DEF ServeTable, At, GatewayInv, JobsOK, Formed, Follows
  <2> HIDE DEF Row
  <2> QED BY <2>2, <2>3
<1>2. GatewayInv /\ [Next]_vars => [\A r \in Records : records'[r] # records[r] => Mine(r)]_vars
  <2> HIDE DEF Mine
  <2> QED BY <1>1
<1> QED BY <1>2, SafetyInvariant, PTL DEF Spec, TenantIsolation

\* A window lets no request through beyond the limit it was admitted under.
THEOREM LimitsHold == Spec => WithinLimit
<1> DEFINE Admitted(p) == /\ jobs[p].step = "limit"
                          /\ jobs'[p].step \in {"expire", "serve"}
                          /\ jobs[p].rule.limit > 0
           Fits(p) == passed'[jobs[p].endpoint] <= jobs[p].rule.limit
<1>1. ASSUME GatewayInv, Next, NEW p \in Requests, Admitted(p)
      PROVE  Fits(p)
  <2>1. jobs \in [Requests -> Job] /\ jobs[p].rule \in Rule
    BY <1>1 DEF GatewayInv, JobsOK, Job
  <2>2. CountRequest(p)
    BY <1>1, <2>1, LetsThrough
  <2> DEFINE e == jobs[p].endpoint
             n == counters[e].count + 1
             limit == jobs[p].rule.limit
  <2>3. e \in Endpoints
    BY <1>1, <2>2 DEF CountRequest, At, GatewayInv, JobsOK, Formed, Follows
  <2>4. /\ passed \in [Endpoints -> Nat] /\ passed[e] \in Nat /\ counters[e].count \in Nat
        /\ limit \in Nat /\ passed[e] <= counters[e].count
    BY <1>1, <2>1, <2>3 DEF GatewayInv, StoresOK, Counter, Counted, Rule
  <2>5. Within(n, limit)
    <3>1. CASE n = 1
      BY <1>1, <2>4, <3>1 DEF Within
    <3>2. CASE n # 1 /\ ~Within(n, limit)
      <4>1. Done(p)
        BY <2>2, <3>2 DEF CountRequest
      <4> QED BY <1>1, <2>1, <4>1 DEF Done, Become, Idle
    <3> QED BY <3>1, <3>2
  <2>6. passed' = [passed EXCEPT ![e] = passed[e] + 1]
    BY <2>2, <2>5 DEF CountRequest
  <2>7. passed'[e] = passed[e] + 1
    BY <2>3, <2>4, <2>6
  <2>8. n <= limit
    BY <2>5 DEF Within
  <2> HIDE DEF e
  <2>9. passed'[e] <= limit
    BY <2>4, <2>7, <2>8
  <2> QED BY <2>9 DEF e
<1>2. GatewayInv /\ [Next]_vars => [\A p \in Requests : Admitted(p) => Fits(p)]_vars
  <2> HIDE DEF Admitted, Fits
  <2> QED BY <1>1
<1> QED BY <1>2, SafetyInvariant, PTL DEF Spec, WithinLimit

===============================================================================
