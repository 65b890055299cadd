------------------------------- MODULE Accounts -------------------------------
(***************************************************************************)
(* Wallet logins and account deletion: challenges, identities, sessions,   *)
(* and what a user leaves behind.                                          *)
(*                                                                         *)
(* A login and a deletion are database transactions of several statements  *)
(* under READ COMMITTED.  The variables hold committed data; what a        *)
(* transaction has written but not committed is its step, and the rows it  *)
(* holds follow from its step.  A statement that needs a row another       *)
(* transaction holds waits; every other request is a check of the session  *)
(* followed, later, by one statement.                                      *)
(***************************************************************************)
EXTENDS Naturals

CONSTANTS
  None,
  Users,         \* users.id values
  Wallets,       \* Nimiq addresses of the configured network
  Challenges,    \* bound: auth_challenges rows
  Objects,       \* bound: events, calendars and payment requests
  Requests       \* goroutines serving a request

ASSUME AccountsAssumption == None \notin Users \cup Wallets \cup Challenges

VARIABLES
  users,         \* users.status / deleted_at
  profile,       \* the user row carries personal data
  identity,      \* user_nimiq_identities, by address
  challenges,    \* auth_challenges
  tokens,        \* users with an unexpired session token
  sessions,      \* number of sessions each challenge has opened
  objects,       \* what users own
  jobs           \* what each request is doing

accountVars == <<users, profile, identity>>
vars == <<users, profile, identity, challenges, tokens, sessions, objects, jobs>>

Kinds == {"event", "calendar", "payment_request"}

\* upcoming event, active calendar, pending request: live;
\* event that has ended, request that is no longer pending: kept;
\* cancelled event, archived calendar, cancelled request: closed.
Object == [kind : Kinds \cup {None}, owner : Users \cup {None},
           status : {"none", "live", "kept", "closed"}]
NoObject == [kind |-> None, owner |-> None, status |-> "none"]

Challenge == [wallet : Wallets \cup {None}, expired : BOOLEAN, consumed : BOOLEAN]

\* login:    checked, consumed, unknown | resolved, touched, bound
\* deletion: admitted, locked, invalidated, revoked
\* others:   admitted, validated
Job == [step : {"idle", "checked", "consumed", "unknown", "resolved", "touched", "bound",
                "admitted", "validated", "locked", "invalidated", "revoked"},
        op        : {"login", "delete", "profile", "close", None} \cup Kinds,
        challenge : Challenges \cup {None},
        user      : Users \cup {None},
        taken     : SUBSET Challenges,  \* challenges a deletion has consumed
        past      : SUBSET Objects]     \* events over when it read the clock
Idle == [step |-> "idle", op |-> None, challenge |-> None, user |-> None,
         taken |-> {}, past |-> {}]

-------------------------------------------------------------------------------
\* The rows each open transaction holds.

WalletOf(p) == challenges[jobs[p].challenge].wallet
WalletsOf(u) == {w \in Wallets : identity[w].user = u}

HoldsChallenge(p, c) ==
  \/ jobs[p].step \in {"consumed", "unknown", "resolved", "touched"} /\ jobs[p].challenge = c
  \/ jobs[p].step \in {"invalidated", "revoked"} /\ c \in jobs[p].taken

\* pg_advisory_xact_lock on network:address.
HoldsWallet(p, w) == jobs[p].step \in {"unknown", "resolved", "touched"} /\ WalletOf(p) = w

HoldsIdentity(p, w) ==
  \/ jobs[p].step = "touched" /\ WalletOf(p) = w
  \/ jobs[p].step = "revoked" /\ w \in WalletsOf(jobs[p].user)

HoldsUser(p, u) == jobs[p].step \in {"locked", "invalidated", "revoked"} /\ jobs[p].user = u

\* auth_challenges rows a deletion of u consumes.
Outstanding(u) ==
  {c \in Challenges : challenges[c].wallet \in WalletsOf(u) /\ ~challenges[c].consumed}

\* The transactions whose rows the next statement of p needs.
WaitsFor(p) ==
  {q \in Requests \ {p} :
     CASE jobs[p].step = "checked"     -> HoldsChallenge(q, jobs[p].challenge)
       [] jobs[p].step = "consumed"    -> HoldsWallet(q, WalletOf(p))
       [] jobs[p].step = "resolved"    -> HoldsIdentity(q, WalletOf(p))
       [] jobs[p].step \in {"touched", "admitted", "validated"} -> HoldsUser(q, jobs[p].user)
       [] jobs[p].step = "locked"      ->
            \E c \in Outstanding(jobs[p].user) : HoldsChallenge(q, c)
       [] jobs[p].step = "invalidated" ->
            \E w \in WalletsOf(jobs[p].user) : HoldsIdentity(q, w)
       [] OTHER                        -> FALSE}

\* p is about to execute the statement that follows step.
At(p, step) == jobs[p].step = step /\ WaitsFor(p) = {}

Goto(p, step) == jobs' = [jobs EXCEPT ![p].step = step]

End(p) == jobs' = [jobs EXCEPT ![p] = Idle]

\* A transaction that is refused rolls back.
MutantLeftOpen(p) == jobs' = jobs
Refuse(p) == End(p)

-------------------------------------------------------------------------------
\* Wallet login.

\* uuid.New: some row id that is not in use; which one makes no difference.
Unissued == {c \in Challenges : challenges[c].wallet = None}
Unborn == {u \in Users : users[u] = "none"}

\* CreateChallenge: anybody may ask for a challenge of any address.
Issue(w) ==
  /\ Unissued # {}
  /\ LET c == CHOOSE c \in Unissued : TRUE IN
       challenges' = [challenges EXCEPT ![c].wallet = w]
  /\ UNCHANGED <<accountVars, tokens, sessions, objects, jobs>>

\* expires_at passes; of a consumed challenge nobody reads it.
ChallengeExpires(c) ==
  /\ challenges[c].wallet # None
  /\ ~challenges[c].expired /\ ~challenges[c].consumed
  /\ challenges' = [challenges EXCEPT ![c].expired = TRUE]
  /\ UNCHANGED <<accountVars, tokens, sessions, objects, jobs>>

\* Verify reads the challenge and the clock, and checks the signature.  The
\* expiry is compared with this reading of the clock here and when the
\* challenge is consumed: it cannot be found expired later.
VerifyCheck(p, c) ==
  /\ jobs[p] = Idle
  /\ challenges[c].wallet # None
  /\ ~challenges[c].consumed /\ ~challenges[c].expired
  /\ jobs' = [jobs EXCEPT ![p] =
                [Idle EXCEPT !.step = "checked", !.op = "login", !.challenge = c]]
  /\ UNCHANGED <<accountVars, challenges, tokens, sessions, objects>>

\* UPDATE auth_challenges ... WHERE consumed_at IS NULL: one row or none.
MutantAlwaysFresh(c) == challenges[c].wallet # None
Unconsumed(c) == ~challenges[c].consumed

VerifyConsume(p) ==
  /\ At(p, "checked")
  /\ IF Unconsumed(jobs[p].challenge) THEN Goto(p, "consumed") ELSE Refuse(p)
  /\ UNCHANGED <<accountVars, challenges, tokens, sessions, objects>>

\* The rows of the identity query: revoked and deleted ones are found too.
MutantForgetsRevoked(w) == identity[w].user # None /\ ~identity[w].revoked
Known(w) == identity[w].user # None

\* With the wallet locked: the identity and its user are read without locking
\* them.  A revoked identity or a deleted user ends the transaction.
VerifyResolve(p) ==
  LET w == WalletOf(p)
      u == identity[w].user IN
  /\ At(p, "consumed")
  /\ IF ~Known(w) THEN Goto(p, "unknown")
     ELSE IF identity[w].revoked \/ users[u] # "active" THEN Refuse(p)
     ELSE jobs' = [jobs EXCEPT ![p] = [@ EXCEPT !.step = "resolved", !.user = u]]
  /\ UNCHANGED <<accountVars, challenges, tokens, sessions, objects>>

\* First login of the wallet: a user and its identity are inserted and the
\* transaction commits.
VerifyCreate(p) ==
  LET w == WalletOf(p)
      u == CHOOSE u \in Unborn : TRUE IN
  /\ At(p, "unknown")
  /\ Unborn # {}
  /\ users' = [users EXCEPT ![u] = "active"]
  /\ profile' = [profile EXCEPT ![u] = TRUE]
  /\ identity' = [identity EXCEPT ![w] = [user |-> u, revoked |-> FALSE]]
  /\ challenges' = [challenges EXCEPT ![jobs[p].challenge].consumed = TRUE]
  /\ jobs' = [jobs EXCEPT ![p] = [@ EXCEPT !.step = "bound", !.user = u]]
  /\ UNCHANGED <<tokens, sessions, objects>>

\* UPDATE user_nimiq_identities SET last_verified_at ... WHERE revoked_at IS
\* NULL: a revoked row is left alone, and that is no error.
VerifyTouch(p) ==
  /\ At(p, "resolved")
  /\ Goto(p, "touched")
  /\ UNCHANGED <<accountVars, challenges, tokens, sessions, objects>>

\* UPDATE users SET first_name, display_name where they are blank, WHERE id = u,
\* whatever has become of the user; and the commit.
VerifyBind(p) ==
  /\ At(p, "touched")
  /\ profile' = [profile EXCEPT ![jobs[p].user] = TRUE]
  /\ challenges' = [challenges EXCEPT ![jobs[p].challenge].consumed = TRUE]
  /\ Goto(p, "bound")
  /\ UNCHANGED <<users, identity, tokens, sessions, objects>>

\* GenerateToken, for the user as the transaction had read it.
VerifySession(p) ==
  /\ At(p, "bound")
  /\ tokens' = tokens \cup {jobs[p].user}
  /\ sessions' = [sessions EXCEPT ![jobs[p].challenge] = @ + 1]
  /\ End(p)
  /\ UNCHANGED <<accountVars, challenges, objects>>

TokenExpires(u) ==
  /\ u \in tokens
  /\ tokens' = tokens \ {u}
  /\ UNCHANGED <<accountVars, challenges, sessions, objects, jobs>>

-------------------------------------------------------------------------------
\* Authenticated requests.

\* Events that have ended.
Past == {o \in Objects : objects[o].kind = "event" /\ objects[o].status = "kept"}

\* JWTAuth and RequireActiveAccount, before the handler runs; a deletion reads
\* the clock here.
Admit(p, u, op) ==
  /\ jobs[p] = Idle
  /\ u \in tokens
  /\ users[u] = "active"
  /\ jobs' = [jobs EXCEPT ![p] = [Idle EXCEPT !.step = "admitted", !.op = op, !.user = u,
                                      !.past = IF op = "delete" THEN Past ELSE {}]]
  /\ UNCHANGED <<accountVars, challenges, tokens, sessions, objects>>

\* UpdateSelf: WHERE id = u AND status = 'active'.
UpdateProfile(p) ==
  LET u == jobs[p].user IN
  /\ At(p, "admitted")
  /\ jobs[p].op = "profile"
  /\ profile' = IF users[u] = "active" THEN [profile EXCEPT ![u] = TRUE] ELSE profile
  /\ End(p)
  /\ UNCHANGED <<users, identity, challenges, tokens, sessions, objects>>

\* A payment request is paid to a verified address of its creator.
ValidateRecipient(p) ==
  /\ At(p, "admitted")
  /\ jobs[p].op = "payment_request"
  /\ IF \E w \in WalletsOf(jobs[p].user) : ~identity[w].revoked
     THEN Goto(p, "validated") ELSE End(p)
  /\ UNCHANGED <<accountVars, challenges, tokens, sessions, objects>>

\* INSERT of an event, a calendar or a payment request: its foreign key shares
\* the user row, deleted or not.
CreateObject(p, o) ==
  /\ At(p, IF jobs[p].op = "payment_request" THEN "validated" ELSE "admitted")
  /\ jobs[p].op \in Kinds
  /\ objects[o].status = "none"
  /\ objects' = [objects EXCEPT ![o] =
                   [kind |-> jobs[p].op, owner |-> jobs[p].user, status |-> "live"]]
  /\ End(p)
  /\ UNCHANGED <<accountVars, challenges, tokens, sessions>>

\* The owner cancels an event (one that has ended too), archives a calendar or
\* cancels a payment request, which is refused when it is no longer pending.
CloseObject(p, o) ==
  /\ jobs[p].step = "admitted"
  /\ jobs[p].op = "close"
  /\ objects[o].owner = jobs[p].user
  /\ objects' = IF objects[o].status = "live" \/ objects[o].kind = "event"
                THEN [objects EXCEPT ![o].status = "closed"] ELSE objects
  /\ End(p)
  /\ UNCHANGED <<accountVars, challenges, tokens, sessions>>

\* An event ends; a payer submits a hash for a pending payment request, or its
\* lifetime runs out.
Settle(o) ==
  /\ objects[o].status = "live"
  /\ objects[o].kind # "calendar"
  /\ objects' = [objects EXCEPT ![o].status = "kept"]
  /\ UNCHANGED <<accountVars, challenges, tokens, sessions, jobs>>

-------------------------------------------------------------------------------
\* DeleteAccount, statement by statement.

\* SELECT ... FROM users FOR UPDATE: a second deletion ends here.
DeleteLock(p) ==
  /\ At(p, "admitted")
  /\ jobs[p].op = "delete"
  /\ IF users[jobs[p].user] = "deleted" THEN Refuse(p) ELSE Goto(p, "locked")
  /\ UNCHANGED <<accountVars, challenges, tokens, sessions, objects>>

\* UPDATE auth_challenges of the user's addresses.
DeleteInvalidate(p) ==
  /\ At(p, "locked")
  /\ jobs' = [jobs EXCEPT ![p] =
                [@ EXCEPT !.step = "invalidated", !.taken = Outstanding(jobs[p].user)]]
  /\ UNCHANGED <<accountVars, challenges, tokens, sessions, objects>>

\* UPDATE user_nimiq_identities SET revoked_at.
DeleteRevoke(p) ==
  /\ At(p, "invalidated")
  /\ Goto(p, "revoked")
  /\ UNCHANGED <<accountVars, challenges, tokens, sessions, objects>>

\* The calendars, payment requests and events a deletion closes; an event that
\* ended after the clock was read is one of them.
MutantClosesAll(p, o) == objects[o].owner = jobs[p].user
ClosedByDeletion(p, o) ==
  /\ objects[o].owner = jobs[p].user
  /\ objects[o].status = "live" \/ o \in Past \ jobs[p].past

\* The rest of the transaction, and its commit.
DeleteCommit(p) ==
  LET u == jobs[p].user IN
  /\ At(p, "revoked")
  /\ users' = [users EXCEPT ![u] = "deleted"]
  /\ profile' = [profile EXCEPT ![u] = FALSE]
  /\ identity' = [w \in Wallets |->
                    IF w \in WalletsOf(u) THEN [user |-> u, revoked |-> TRUE] ELSE identity[w]]
  /\ challenges' = [c \in Challenges |->
                      [challenges[c] EXCEPT !.consumed = @ \/ c \in jobs[p].taken]]
  /\ objects' = [o \in Objects |->
                   IF ClosedByDeletion(p, o) THEN [objects[o] EXCEPT !.status = "closed"]
                   ELSE objects[o]]
  /\ End(p)
  /\ UNCHANGED <<tokens, sessions>>

-------------------------------------------------------------------------------
\* Transactions that wait for each other: the database aborts one of them.
DeadlockVictim(p) ==
  /\ \E S \in SUBSET Requests :
       p \in S /\ \A q \in S : WaitsFor(q) \cap S # {}
  /\ End(p)
  /\ UNCHANGED <<accountVars, challenges, tokens, sessions, objects>>

\* A lost connection, a cancelled request or a crash; an open transaction
\* rolls back.
Abandon(p) ==
  /\ jobs[p] # Idle
  /\ End(p)
  /\ UNCHANGED <<accountVars, challenges, tokens, sessions, objects>>

-------------------------------------------------------------------------------
Init ==
  /\ users = [u \in Users |-> "none"]
  /\ profile = [u \in Users |-> FALSE]
  /\ identity = [w \in Wallets |-> [user |-> None, revoked |-> FALSE]]
  /\ challenges = [c \in Challenges |-> [wallet |-> None, expired |-> FALSE, consumed |-> FALSE]]
  /\ tokens = {}
  /\ sessions = [c \in Challenges |-> 0]
  /\ objects = [o \in Objects |-> NoObject]
  /\ jobs = [p \in Requests |-> Idle]

Login(p) ==
  \/ VerifyConsume(p) \/ VerifyResolve(p) \/ VerifyCreate(p)
  \/ VerifyTouch(p) \/ VerifyBind(p) \/ VerifySession(p)

Deletion(p) ==
  DeleteLock(p) \/ DeleteInvalidate(p) \/ DeleteRevoke(p) \/ DeleteCommit(p)

Handler(p) ==
  \/ UpdateProfile(p) \/ ValidateRecipient(p)
  \/ \E o \in Objects : CreateObject(p, o) \/ CloseObject(p, o)

Ops == {"delete", "profile", "close"} \cup Kinds

Next ==
  \/ \E w \in Wallets : Issue(w)
  \/ \E c \in Challenges : ChallengeExpires(c)
  \/ \E u \in Users : TokenExpires(u)
  \/ \E o \in Objects : Settle(o)
  \/ \E p \in Requests :
       \/ \E c \in Challenges : VerifyCheck(p, c)
       \/ \E u \in Users, op \in Ops : Admit(p, u, op)
       \/ Login(p) \/ Deletion(p) \/ Handler(p)
       \/ DeadlockVictim(p) \/ Abandon(p)

Spec == Init /\ [][Next]_vars

\* Waiters are served in turn, and the database looks for deadlocks.
Fairness ==
  \A p \in Requests :
    SF_vars(Login(p)) /\ SF_vars(Deletion(p)) /\ WF_vars(DeadlockVictim(p))
FairSpec == Spec /\ Fairness

-------------------------------------------------------------------------------
\* Every variable keeps its type, and a goroutine that is idle has nothing left
\* of the request it served.
TypeOK ==
  /\ users \in [Users -> {"none", "active", "deleted"}]
  /\ profile \in [Users -> BOOLEAN]
  /\ identity \in [Wallets -> [user : Users \cup {None}, revoked : BOOLEAN]]
  /\ challenges \in [Challenges -> Challenge]
  /\ tokens \subseteq Users
  /\ sessions \in [Challenges -> Nat]
  /\ objects \in [Objects -> Object]
  /\ jobs \in [Requests -> Job]
  /\ \A p \in Requests : jobs[p].step = "idle" => jobs[p] = Idle

\* A challenge opens at most one session, however many requests present its
\* signature at once (auth_challenges.consumed_at, Verify).
ChallengeUsedOnce == \A c \in Challenges : sessions[c] <= 1

\* The wallet of a deleted account neither resumes it nor creates another one
\* (docs/ACCOUNT_DELETION.md:35-37): a revoked identity keeps its user and a
\* deleted user stays deleted.
NeverResumes ==
  [][/\ \A w \in Wallets : identity[w].revoked => identity'[w] = identity[w]
     /\ \A u \in Users : users[u] = "deleted" => users'[u] = "deleted"]_vars

\* Payments are evidence (docs/ACCOUNT_DELETION.md:44-54): nothing, a deletion
\* racing the payer included, rewrites a payment request that is no longer
\* pending, and what was closed is not opened again.
EvidenceKept ==
  [][\A o \in Objects :
       \/ objects'[o] = objects[o]
       \/ objects[o].status \in {"none", "live"}
       \/ objects[o].kind = "event" /\ objects'[o].status = "closed"]_vars

\* Logins and deletions end, although they lock the same rows in opposite
\* orders.
EveryTransactionEnds ==
  \A p \in Requests :
    jobs[p].op \in {"login", "delete"} ~> jobs[p] = Idle

\* Nothing live remains under a deleted owner (docs/ACCOUNT_DELETION.md:53-66).
NothingActionable ==
  \A o \in Objects : objects[o].status = "live" => users[objects[o].owner] # "deleted"
===============================================================================
