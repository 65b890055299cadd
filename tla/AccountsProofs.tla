---------------------------- MODULE AccountsProofs ----------------------------
(***************************************************************************)
(* Theorems of Accounts for any users, wallets, challenges, objects and     *)
(* requests.                                                                *)
(***************************************************************************)
EXTENDS Accounts, TLAPS

-------------------------------------------------------------------------------
(***************************************************************************)
(* The invariant: a request knows its challenge and its user; the rows and  *)
(* the advisory lock of a transaction are its own; a challenge somebody     *)
(* holds is not consumed, and one that opened a session or is about to open *)
(* one is; the wallet of a first login is nobody's as long as it is locked. *)
(***************************************************************************)

\* What a request has found so far.
Shaped ==
  \A p \in Requests :
    /\ jobs[p].step \in {"checked", "consumed", "unknown", "resolved", "touched", "bound"}
         => /\ jobs[p].challenge \in Challenges
            /\ challenges[jobs[p].challenge].wallet \in Wallets
    /\ jobs[p].step \in {"resolved", "touched", "bound", "admitted", "validated",
                         "locked", "invalidated", "revoked"}
         => jobs[p].user \in Users

Exclusive ==
  \A p, q \in Requests : p # q =>
    /\ \A c \in Challenges : ~(HoldsChallenge(p, c) /\ HoldsChallenge(q, c))
    /\ \A w \in Wallets : ~(HoldsWallet(p, w) /\ HoldsWallet(q, w))

HeldIsFresh ==
  \A p \in Requests, c \in Challenges : HoldsChallenge(p, c) => ~challenges[c].consumed

\* p has committed and is about to open the session of c.
Opening(p, c) == jobs[p].step = "bound" /\ jobs[p].challenge = c

Spent ==
  \A c \in Challenges :
    /\ sessions[c] <= 1
    /\ sessions[c] # 0 => challenges[c].consumed
    /\ \A p \in Requests : Opening(p, c) =>
         /\ challenges[c].consumed /\ sessions[c] = 0
         /\ \A q \in Requests : Opening(q, c) => q = p

FirstLogin ==
  /\ \A w \in Wallets : identity[w].revoked => identity[w].user # None
  /\ \A p \in Requests : jobs[p].step = "unknown" => identity[WalletOf(p)].user = None

Locks == Exclusive /\ HeldIsFresh /\ Spent /\ FirstLogin
AccountInv == TypeOK /\ Shaped /\ Locks

\* A statement of p starts when nobody else holds what it needs.
LEMMA Unblocked ==
  ASSUME NEW p \in Requests
  PROVE  /\ At(p, "checked") =>
              \A q \in Requests \ {p} : ~HoldsChallenge(q, jobs[p].challenge)
         /\ At(p, "consumed") => \A q \in Requests \ {p} : ~HoldsWallet(q, WalletOf(p))
         /\ At(p, "locked") =>
              \A q \in Requests \ {p} : \A c \in Outstanding(jobs[p].user) : ~HoldsChallenge(q, c)
<1>1. ASSUME At(p, "checked"), NEW q \in Requests \ {p}
      PROVE  ~HoldsChallenge(q, jobs[p].challenge)
  <2>1. jobs[p].step = "checked" /\ q \notin WaitsFor(p)
    BY <1>1 DEF At
  <2> QED BY <2>1 DEF WaitsFor
<1>2. ASSUME At(p, "consumed"), NEW q \in Requests \ {p}
      PROVE  ~HoldsWallet(q, WalletOf(p))
  <2>1. jobs[p].step = "consumed" /\ q \notin WaitsFor(p)
    BY <1>2 DEF At
  <2> QED BY <2>1 DEF WaitsFor
<1>3. ASSUME At(p, "locked"), NEW q \in Requests \ {p}, NEW c \in Outstanding(jobs[p].user)
      PROVE  ~HoldsChallenge(q, c)
  <2>1. jobs[p].step = "locked" /\ q \notin WaitsFor(p)
    BY <1>3 DEF At
  <2> QED BY <2>1 DEF WaitsFor
<1> QED BY <1>1, <1>2, <1>3

\* A request that moves on without touching a challenge, an identity or a session
\* keeps the locks in order if it takes only what is free.
LEMMA MovesOn ==
  ASSUME AccountInv, NEW p \in Requests, NEW j \in Job,
         jobs' = [jobs EXCEPT ![p] = j], UNCHANGED <<identity, challenges, sessions>>,
         j.step # "bound",
         \A c \in Challenges : HoldsChallenge(p, c)' =>
            \/ HoldsChallenge(p, c)
            \/ /\ ~challenges[c].consumed
               /\ \A q \in Requests \ {p} : ~HoldsChallenge(q, c),
         \A w \in Wallets : HoldsWallet(p, w)' =>
            \/ HoldsWallet(p, w)
            \/ \A q \in Requests \ {p} : ~HoldsWallet(q, w),
         j.step = "unknown" => identity[challenges[j.challenge].wallet].user = None
  PROVE  Locks'
<1>1. jobs'[p] = j /\ \A q \in Requests \ {p} : jobs'[q] = jobs[q]
  BY DEF AccountInv, TypeOK
<1>2. \A q \in Requests \ {p} :
        /\ \A c \in Challenges : HoldsChallenge(q, c)' <=> HoldsChallenge(q, c)
        /\ \A w \in Wallets : HoldsWallet(q, w)' <=> HoldsWallet(q, w)
  BY <1>1 DEF HoldsChallenge, HoldsWallet, WalletOf
<1>3. Exclusive'
  <2> SUFFICES ASSUME NEW a \in Requests, NEW b \in Requests, a # b
               PROVE  /\ \A c \in Challenges : ~(HoldsChallenge(a, c)' /\ HoldsChallenge(b, c)')
                      /\ \A w \in Wallets : ~(HoldsWallet(a, w)' /\ HoldsWallet(b, w)')
    BY DEF Exclusive
  <2>1. CASE a # p /\ b # p
    BY <1>2, <2>1 DEF AccountInv, Locks, Exclusive
  <2>2. CASE a = p
    BY <1>2, <2>2 DEF AccountInv, Locks, Exclusive
  <2>3. CASE b = p
    BY <1>2, <2>3 DEF AccountInv, Locks, Exclusive
  <2> QED BY <2>1, <2>2, <2>3
<1>4. HeldIsFresh'
  BY <1>2 DEF AccountInv, Locks, HeldIsFresh
<1>5. Spent'
  BY <1>1 DEF AccountInv, Locks, Spent, Opening
<1>6. FirstLogin'
  BY <1>1 DEF AccountInv, Locks, FirstLogin, WalletOf
<1> QED BY <1>3, <1>4, <1>5, <1>6 DEF Locks

\* A request that ends holds nothing.
LEMMA Ends ==
  ASSUME AccountInv, NEW p \in Requests, End(p), UNCHANGED <<identity, challenges, sessions>>
  PROVE  jobs' \in [Requests -> Job] /\ Shaped' /\ Locks'
         /\ \A q \in Requests : jobs'[q].step = "idle" => jobs'[q] = Idle
<1>1. Idle \in Job /\ Idle.step = "idle"
  BY DEF Idle, Job
<1>2. jobs' = [jobs EXCEPT ![p] = Idle]
  BY DEF End
<1>3. /\ jobs' \in [Requests -> Job] /\ jobs'[p] = Idle
      /\ \A q \in Requests \ {p} : jobs'[q] = jobs[q]
  BY <1>1, <1>2 DEF AccountInv, TypeOK
<1>4. Shaped'
  BY <1>1, <1>3 DEF AccountInv, Shaped
<1>5. /\ \A c \in Challenges : ~HoldsChallenge(p, c)'
      /\ \A w \in Wallets : ~HoldsWallet(p, w)'
  BY <1>1, <1>3 DEF HoldsChallenge, HoldsWallet
<1>6. Locks'
  BY <1>1, <1>2, <1>5, MovesOn
<1> QED BY <1>3, <1>4, <1>6 DEF AccountInv, TypeOK

\* A request that goes to a step known to its transaction.
LEMMA Goes ==
  ASSUME AccountInv, NEW p \in Requests, NEW s, Goto(p, s),
         UNCHANGED <<identity, challenges, sessions>>,
         \/ jobs[p].step = "checked" /\ s = "consumed" /\ Unconsumed(jobs[p].challenge)
         \/ /\ jobs[p].step = "consumed" /\ s = "unknown"
            /\ identity[WalletOf(p)].user = None
         \/ jobs[p].step = "resolved" /\ s = "touched"
         \/ jobs[p].step = "admitted" /\ s \in {"validated", "locked"}
         \/ jobs[p].step = "invalidated" /\ s = "revoked",
         WaitsFor(p) = {}
  PROVE  jobs' \in [Requests -> Job] /\ Shaped' /\ Locks'
         /\ \A q \in Requests : jobs'[q].step = "idle" => jobs'[q] = Idle
<1> DEFINE j == [jobs[p] EXCEPT !.step = s]
<1>1. jobs[p] \in Job /\ j \in Job /\ j.step = s /\ j.challenge = jobs[p].challenge
      /\ j.user = jobs[p].user /\ j.taken = jobs[p].taken /\ s # "idle"
  BY DEF AccountInv, TypeOK, Job
<1>2. jobs' = [jobs EXCEPT ![p] = j]
  BY DEF Goto, AccountInv, TypeOK
<1>3. /\ jobs' \in [Requests -> Job] /\ jobs'[p] = j
      /\ \A q \in Requests \ {p} : jobs'[q] = jobs[q]
  BY <1>1, <1>2 DEF AccountInv, TypeOK
<1>4. Shaped'
  <2>1. /\ s \in {"consumed", "unknown", "touched"} =>
             /\ jobs[p].challenge \in Challenges
             /\ challenges[jobs[p].challenge].wallet \in Wallets
        /\ s \in {"touched", "validated", "locked", "revoked"} => jobs[p].user \in Users
        /\ s \in {"consumed", "unknown", "touched", "validated", "locked", "revoked"}
    BY DEF AccountInv, Shaped
  <2>2. /\ jobs'[p].step = s /\ jobs'[p].challenge = jobs[p].challenge
        /\ jobs'[p].user = jobs[p].user
    BY <1>1, <1>3
  <2> HIDE DEF j
  <2> QED BY <1>3, <2>1, <2>2 DEF AccountInv, Shaped
<1>5. \A c \in Challenges : HoldsChallenge(p, c)' =>
        \/ HoldsChallenge(p, c)
        \/ /\ ~challenges[c].consumed
           /\ \A q \in Requests \ {p} : ~HoldsChallenge(q, c)
  <2>1. CASE jobs[p].step = "checked"
    <3>1. \A q \in Requests \ {p} : ~HoldsChallenge(q, jobs[p].challenge)
      BY <2>1, Unblocked DEF At
    <3>2. ASSUME NEW c \in Challenges, HoldsChallenge(p, c)'
          PROVE  c = jobs[p].challenge
      BY <1>1, <1>3, <2>1, <3>2 DEF HoldsChallenge
    <3> QED BY <2>1, <3>1, <3>2 DEF Unconsumed
  <2>2. CASE jobs[p].step # "checked"
    BY <1>1, <1>3, <2>2 DEF HoldsChallenge
  <2> QED BY <2>1, <2>2
<1>6. \A w \in Wallets : HoldsWallet(p, w)' =>
        \/ HoldsWallet(p, w)
        \/ \A q \in Requests \ {p} : ~HoldsWallet(q, w)
  <2>1. ASSUME NEW w \in Wallets, HoldsWallet(p, w)'
        PROVE  w = WalletOf(p) /\ s \in {"unknown", "touched"}
    BY <1>1, <1>3, <2>1 DEF HoldsWallet, WalletOf
  <2>2. jobs[p].step = "consumed" => \A q \in Requests \ {p} : ~HoldsWallet(q, WalletOf(p))
    BY Unblocked DEF At
  <2> QED BY <2>1, <2>2 DEF HoldsWallet
<1>7. j.step = "unknown" => identity[challenges[j.challenge].wallet].user = None
  BY <1>1 DEF WalletOf
<1>8. Locks'
  BY <1>1, <1>2, <1>5, <1>6, <1>7, MovesOn
<1> QED BY <1>1, <1>3, <1>4, <1>8 DEF AccountInv, TypeOK

\* Challenges are issued and expire while requests hold others.
LEMMA ChallengeSteps ==
  ASSUME AccountInv, UNCHANGED <<jobs, identity, sessions>>,
         challenges' \in [Challenges -> Challenge],
         \A c \in Challenges :
           /\ challenges'[c].consumed = challenges[c].consumed
           /\ challenges[c].wallet # None => challenges'[c].wallet = challenges[c].wallet
  PROVE  Shaped' /\ Locks'
<1>1. \A p \in Requests :
        jobs[p].step \in {"checked", "consumed", "unknown", "resolved", "touched", "bound"} =>
          /\ jobs[p].challenge \in Challenges /\ WalletOf(p) \in Wallets
          /\ WalletOf(p)' = WalletOf(p)
  BY AccountsAssumption DEF AccountInv, Shaped, WalletOf
<1>2. Shaped'
  BY <1>1 DEF AccountInv, Shaped, WalletOf
<1>3. \A p \in Requests :
        /\ \A c \in Challenges : HoldsChallenge(p, c)' <=> HoldsChallenge(p, c)
        /\ \A w \in Wallets : HoldsWallet(p, w)' <=> HoldsWallet(p, w)
  BY <1>1 DEF HoldsChallenge, HoldsWallet
<1>4. Exclusive'
  BY <1>3 DEF AccountInv, Locks, Exclusive
<1>5. HeldIsFresh'
  BY <1>3 DEF AccountInv, Locks, HeldIsFresh
<1>6. Spent'
  BY DEF AccountInv, Locks, Spent, Opening
<1>7. FirstLogin'
  BY <1>1 DEF AccountInv, Locks, FirstLogin
<1> QED BY <1>2, <1>4, <1>5, <1>6, <1>7 DEF Locks

\* A goroutine takes a request, or a login finds the user of its wallet.
LEMMA Begins ==
  ASSUME AccountInv, NEW p \in Requests, NEW j \in Job, jobs' = [jobs EXCEPT ![p] = j],
         UNCHANGED <<identity, challenges, sessions>>,
         \/ /\ j.step = "checked" /\ j.challenge \in Challenges
            /\ challenges[j.challenge].wallet \in Wallets
         \/ j.step = "admitted" /\ j.user \in Users
         \/ /\ jobs[p].step = "consumed" /\ WaitsFor(p) = {}
            /\ j.step = "resolved" /\ j.challenge = jobs[p].challenge /\ j.user \in Users
  PROVE  jobs' \in [Requests -> Job] /\ Shaped' /\ Locks'
         /\ \A q \in Requests : jobs'[q].step = "idle" => jobs'[q] = Idle
<1>1. /\ jobs' \in [Requests -> Job] /\ jobs'[p] = j
      /\ \A q \in Requests \ {p} : jobs'[q] = jobs[q]
  BY DEF AccountInv, TypeOK
<1>2. Shaped'
  <2>1. jobs[p].step = "consumed" => /\ jobs[p].challenge \in Challenges
                                     /\ challenges[jobs[p].challenge].wallet \in Wallets
    BY DEF AccountInv, Shaped
  <2> QED BY <1>1, <2>1 DEF AccountInv, Shaped
<1>3. \A c \in Challenges : HoldsChallenge(p, c)' => HoldsChallenge(p, c)
  BY <1>1 DEF HoldsChallenge
<1>4. \A w \in Wallets : HoldsWallet(p, w)' => \A q \in Requests \ {p} : ~HoldsWallet(q, w)
  <2>1. ASSUME NEW w \in Wallets, HoldsWallet(p, w)'
        PROVE  jobs[p].step = "consumed" /\ w = WalletOf(p) /\ WaitsFor(p) = {}
    BY <1>1, <2>1 DEF HoldsWallet, WalletOf
  <2> QED BY <2>1, Unblocked DEF At
<1>5. Locks'
  BY <1>3, <1>4, MovesOn
<1> QED BY <1>1, <1>2, <1>5 DEF AccountInv, TypeOK

\* A login commits: its challenge is consumed, and it is the only one to open a
\* session of it.
LEMMA LoginCommits ==
  ASSUME AccountInv, NEW p \in Requests, NEW u \in Users,
         jobs[p].step \in {"unknown", "touched"},
         jobs' = [jobs EXCEPT ![p] = [@ EXCEPT !.step = "bound", !.user = u]],
         challenges' = [challenges EXCEPT ![jobs[p].challenge].consumed = TRUE],
         UNCHANGED sessions
  PROVE  /\ jobs' \in [Requests -> Job] /\ challenges' \in [Challenges -> Challenge]
         /\ \A q \in Requests : jobs'[q].step = "idle" => jobs'[q] = Idle
         /\ \A q \in Requests \ {p} : jobs'[q] = jobs[q]
         /\ jobs'[p].step = "bound"
         /\ \A c \in Challenges : challenges'[c].wallet = challenges[c].wallet
         /\ Shaped' /\ Exclusive' /\ HeldIsFresh' /\ Spent'
<1> DEFINE j  == [jobs[p] EXCEPT !.step = "bound", !.user = u]
           c0 == jobs[p].challenge
<1>1. c0 \in Challenges /\ HoldsChallenge(p, c0) /\ challenges[c0].wallet \in Wallets
  BY DEF AccountInv, Shaped, HoldsChallenge
<1>2. j \in Job /\ j.step = "bound" /\ j.challenge = c0 /\ j.user = u
  BY DEF AccountInv, TypeOK, Job
<1>3. /\ jobs' \in [Requests -> Job] /\ jobs'[p] = j
      /\ \A q \in Requests \ {p} : jobs'[q] = jobs[q]
  BY <1>2 DEF AccountInv, TypeOK
<1>4. /\ challenges' \in [Challenges -> Challenge]
      /\ \A c \in Challenges :
           /\ challenges'[c].wallet = challenges[c].wallet
           /\ challenges'[c].consumed = (challenges[c].consumed \/ c = c0)
  BY <1>1 DEF AccountInv, TypeOK, Challenge
<1> HIDE DEF j
<1>5. Shaped'
  BY <1>1, <1>2, <1>3, <1>4 DEF AccountInv, Shaped
<1>6. /\ \A c \in Challenges : ~HoldsChallenge(p, c)'
      /\ \A w \in Wallets : ~HoldsWallet(p, w)'
  BY <1>2, <1>3 DEF HoldsChallenge, HoldsWallet
<1>7. ASSUME NEW q \in Requests \ {p}
      PROVE  /\ \A c \in Challenges : HoldsChallenge(q, c)' <=> HoldsChallenge(q, c)
             /\ \A w \in Wallets : HoldsWallet(q, w)' <=> HoldsWallet(q, w)
  <2>1. jobs[q].step \in {"unknown", "resolved", "touched"} => WalletOf(q)' = WalletOf(q)
    BY <1>3, <1>4 DEF AccountInv, Shaped, WalletOf
  <2> QED BY <1>3, <2>1 DEF HoldsChallenge, HoldsWallet
<1>8. Exclusive'
  <2> SUFFICES ASSUME NEW a \in Requests, NEW b \in Requests, a # b
               PROVE  /\ \A c \in Challenges : ~(HoldsChallenge(a, c)' /\ HoldsChallenge(b, c)')
                      /\ \A w \in Wallets : ~(HoldsWallet(a, w)' /\ HoldsWallet(b, w)')
    BY DEF Exclusive
  <2>1. CASE a # p /\ b # p
    BY <1>7, <2>1 DEF AccountInv, Locks, Exclusive
  <2>2. CASE a = p \/ b = p
    BY <1>6, <2>2
  <2> QED BY <2>1, <2>2
<1>9. HeldIsFresh'
  <2> SUFFICES ASSUME NEW q \in Requests, NEW c \in Challenges, HoldsChallenge(q, c)'
               PROVE  ~challenges'[c].consumed
    BY DEF HeldIsFresh
  <2>1. q # p /\ HoldsChallenge(q, c)
    BY <1>6, <1>7
  <2>2. c # c0
    BY <1>1, <2>1 DEF AccountInv, Locks, Exclusive
  <2> QED BY <1>4, <2>1, <2>2 DEF AccountInv, Locks, HeldIsFresh
<1>10. Spent'
  <2>1. ~challenges[c0].consumed
    BY <1>1 DEF AccountInv, Locks, HeldIsFresh
  <2>2. sessions[c0] = 0 /\ \A q \in Requests : ~Opening(q, c0)
    BY <1>1, <2>1 DEF AccountInv, Locks, Spent
  <2>3. \A q \in Requests, c \in Challenges :
          Opening(q, c)' <=> (q = p /\ c = c0) \/ (q # p /\ Opening(q, c))
    BY <1>2, <1>3 DEF Opening
  <2> QED BY <1>1, <1>4, <2>2, <2>3 DEF AccountInv, Locks, Spent
<1> QED BY <1>2, <1>3, <1>4, <1>5, <1>8, <1>9, <1>10 DEF AccountInv, TypeOK

LEMMA CreateKeeps ==
  ASSUME AccountInv, NEW p \in Requests, VerifyCreate(p)
  PROVE  AccountInv'
<1> DEFINE w == WalletOf(p)
           u == CHOOSE u \in Unborn : TRUE
<1>1. /\ jobs[p].step = "unknown" /\ u \in Users
      /\ w \in Wallets /\ HoldsWallet(p, w)
  BY DEF VerifyCreate, At, Unborn, AccountInv, Shaped, HoldsWallet, WalletOf
<1>2. /\ users' = [users EXCEPT ![u] = "active"]
      /\ profile' = [profile EXCEPT ![u] = TRUE]
      /\ identity' = [identity EXCEPT ![w] = [user |-> u, revoked |-> FALSE]]
      /\ challenges' = [challenges EXCEPT ![jobs[p].challenge].consumed = TRUE]
      /\ jobs' = [jobs EXCEPT ![p] = [@ EXCEPT !.step = "bound", !.user = u]]
      /\ UNCHANGED <<tokens, sessions, objects>>
  BY DEF VerifyCreate
<1> HIDE DEF u, w
<1>3. /\ jobs' \in [Requests -> Job] /\ challenges' \in [Challenges -> Challenge]
      /\ \A q \in Requests : jobs'[q].step = "idle" => jobs'[q] = Idle
      /\ \A q \in Requests \ {p} : jobs'[q] = jobs[q]
      /\ jobs'[p].step = "bound"
      /\ \A c \in Challenges : challenges'[c].wallet = challenges[c].wallet
      /\ Shaped' /\ Exclusive' /\ HeldIsFresh' /\ Spent'
  BY <1>1, <1>2, LoginCommits
<1>4. TypeOK'
  BY <1>1, <1>2, <1>3 DEF AccountInv, TypeOK
<1>5. FirstLogin'
  <2>1. \A v \in Wallets : identity'[v] = IF v = w THEN [user |-> u, revoked |-> FALSE]
                                           ELSE identity[v]
    BY <1>1, <1>2 DEF AccountInv, TypeOK
  <2>2. ASSUME NEW q \in Requests, jobs'[q].step = "unknown"
        PROVE  identity'[WalletOf(q)'].user = None
    <3>1. q # p /\ jobs'[q] = jobs[q] /\ jobs[q].step = "unknown"
      BY <1>3, <2>2
    <3>2. WalletOf(q)' = WalletOf(q) /\ WalletOf(q) \in Wallets /\ HoldsWallet(q, WalletOf(q))
      BY <1>3, <3>1 DEF AccountInv, Shaped, WalletOf, HoldsWallet
    <3>3. WalletOf(q) # w
      BY <1>1, <3>1, <3>2 DEF AccountInv, Locks, Exclusive
    <3> QED BY <2>1, <3>1, <3>2, <3>3 DEF AccountInv, Locks, FirstLogin
  <2> QED BY <2>1, <2>2 DEF AccountInv, Locks, FirstLogin
<1> QED BY <1>3, <1>4, <1>5 DEF AccountInv, Locks

LEMMA BindKeeps ==
  ASSUME AccountInv, NEW p \in Requests, VerifyBind(p)
  PROVE  AccountInv'
<1>1. jobs[p].step = "touched" /\ jobs[p].user \in Users
  BY DEF VerifyBind, At, AccountInv, Shaped
<1>2. /\ profile' = [profile EXCEPT ![jobs[p].user] = TRUE]
      /\ challenges' = [challenges EXCEPT ![jobs[p].challenge].consumed = TRUE]
      /\ UNCHANGED <<users, identity, tokens, sessions, objects>>
  BY DEF VerifyBind
<1>3. jobs' = [jobs EXCEPT ![p] = [@ EXCEPT !.step = "bound", !.user = jobs[p].user]]
  BY DEF VerifyBind, Goto, AccountInv, TypeOK, Job
<1>4. /\ jobs' \in [Requests -> Job] /\ challenges' \in [Challenges -> Challenge]
      /\ \A q \in Requests : jobs'[q].step = "idle" => jobs'[q] = Idle
      /\ \A q \in Requests \ {p} : jobs'[q] = jobs[q]
      /\ jobs'[p].step = "bound"
      /\ \A c \in Challenges : challenges'[c].wallet = challenges[c].wallet
      /\ Shaped' /\ Exclusive' /\ HeldIsFresh' /\ Spent'
  BY <1>1, <1>2, <1>3, LoginCommits
<1>5. TypeOK'
  BY <1>1, <1>2, <1>4 DEF AccountInv, TypeOK
<1>6. FirstLogin'
  <2>1. ASSUME NEW q \in Requests, jobs'[q].step = "unknown"
        PROVE  WalletOf(q)' = WalletOf(q) /\ jobs[q].step = "unknown"
    BY <1>4, <2>1 DEF AccountInv, Shaped, WalletOf
  <2> QED BY <1>2, <2>1 DEF AccountInv, Locks, FirstLogin
<1> QED BY <1>4, <1>5, <1>6 DEF AccountInv, Locks

LEMMA SessionKeeps ==
  ASSUME AccountInv, NEW p \in Requests, VerifySession(p)
  PROVE  AccountInv'
<1> DEFINE c0 == jobs[p].challenge
<1>1. c0 \in Challenges /\ Opening(p, c0) /\ jobs[p].user \in Users
  BY DEF VerifySession, At, AccountInv, Shaped, Opening
<1>2. /\ tokens' = tokens \cup {jobs[p].user}
      /\ sessions' = [sessions EXCEPT ![c0] = @ + 1]
      /\ jobs' = [jobs EXCEPT ![p] = Idle]
      /\ UNCHANGED <<users, profile, identity, challenges, objects>>
  BY DEF VerifySession, End, accountVars
<1>3. sessions[c0] = 0 /\ challenges[c0].consumed /\ \A q \in Requests : Opening(q, c0) => q = p
  BY <1>1 DEF AccountInv, Locks, Spent
<1>4. /\ sessions' \in [Challenges -> Nat]
      /\ \A c \in Challenges : sessions'[c] = IF c = c0 THEN 1 ELSE sessions[c]
  BY <1>1, <1>2, <1>3 DEF AccountInv, TypeOK
<1>5. Idle \in Job /\ Idle.step = "idle"
  BY DEF Idle, Job
<1>6. /\ jobs' \in [Requests -> Job] /\ jobs'[p] = Idle
      /\ \A q \in Requests \ {p} : jobs'[q] = jobs[q]
  BY <1>2, <1>5 DEF AccountInv, TypeOK
<1>7. TypeOK'
  BY <1>1, <1>2, <1>4, <1>6 DEF AccountInv, TypeOK
<1>8. Shaped'
  BY <1>2, <1>5, <1>6 DEF AccountInv, Shaped
<1>9. \A q \in Requests :
        /\ \A c \in Challenges : HoldsChallenge(q, c)' => HoldsChallenge(q, c)
        /\ \A w \in Wallets : HoldsWallet(q, w)' => HoldsWallet(q, w)
  BY <1>2, <1>5, <1>6 DEF HoldsChallenge, HoldsWallet, WalletOf
<1>10. Exclusive'
  BY <1>9 DEF AccountInv, Locks, Exclusive
<1>11. HeldIsFresh'
  BY <1>2, <1>9 DEF AccountInv, Locks, HeldIsFresh
<1>12. Spent'
  <2>1. \A q \in Requests, c \in Challenges : Opening(q, c)' => q # p /\ Opening(q, c)
    BY <1>5, <1>6 DEF Opening
  <2> QED BY <1>2, <1>3, <1>4, <2>1 DEF AccountInv, Locks, Spent
<1>13. FirstLogin'
  BY <1>2, <1>5, <1>6 DEF AccountInv, Locks, FirstLogin, WalletOf
<1> QED BY <1>7, <1>8, <1>10, <1>11, <1>12, <1>13 DEF AccountInv, Locks

\* The statements of a login keep the invariant.
LEMMA LoginKeeps ==
  ASSUME AccountInv, NEW p \in Requests, Login(p)
  PROVE  AccountInv'
<1>1. CASE VerifyConsume(p)
  <2>1. CASE Unconsumed(jobs[p].challenge)
    BY <1>1, <2>1, Goes DEF VerifyConsume, At, accountVars, AccountInv, TypeOK
  <2>2. CASE ~Unconsumed(jobs[p].challenge)
    BY <1>1, <2>2, Ends DEF VerifyConsume, Refuse, accountVars, AccountInv, TypeOK
  <2> QED BY <2>1, <2>2
<1>2. CASE VerifyResolve(p)
  <2> DEFINE w == WalletOf(p)
             u == identity[w].user
  <2>1. CASE ~Known(w)
    <3>1. Goto(p, "unknown") /\ u = None
      BY <1>2, <2>1 DEF VerifyResolve, Known
    <3> QED BY <1>2, <3>1, Goes DEF VerifyResolve, At, accountVars, AccountInv, TypeOK
  <2>2. CASE Known(w) /\ (identity[w].revoked \/ users[u] # "active")
    <3>1. End(p)
      BY <1>2, <2>2 DEF VerifyResolve, Refuse
    <3> QED BY <1>2, <3>1, Ends DEF VerifyResolve, accountVars, AccountInv, TypeOK
  <2>3. CASE Known(w) /\ ~(identity[w].revoked \/ users[u] # "active")
    <3> DEFINE j == [jobs[p] EXCEPT !.step = "resolved", !.user = u]
    <3>1. jobs[p].step = "consumed" /\ WaitsFor(p) = {}
      BY <1>2 DEF VerifyResolve, At
    <3>2. w \in Wallets
      BY <3>1 DEF AccountInv, Shaped, WalletOf
    <3>3. u \in Users
      BY <2>3, <3>2 DEF Known, AccountInv, TypeOK
    <3>4. /\ j \in Job /\ j.step = "resolved" /\ j.challenge = jobs[p].challenge /\ j.user = u
      BY <3>3 DEF AccountInv, TypeOK, Job
    <3>5. jobs' = [jobs EXCEPT ![p] = j]
      BY <1>2, <2>3 DEF VerifyResolve
    <3>6. UNCHANGED <<accountVars, challenges, tokens, sessions, objects>>
      BY <1>2 DEF VerifyResolve
    <3> HIDE DEF j
    <3>7. jobs' \in [Requests -> Job] /\ Shaped' /\ Locks'
          /\ \A q \in Requests : jobs'[q].step = "idle" => jobs'[q] = Idle
      BY <3>1, <3>3, <3>4, <3>5, <3>6, Begins DEF accountVars
    <3> QED BY <3>6, <3>7 DEF accountVars, AccountInv, TypeOK
  <2> QED BY <2>1, <2>2, <2>3
<1>3. CASE VerifyCreate(p)
  BY <1>3, CreateKeeps
<1>4. CASE VerifyTouch(p)
  BY <1>4, Goes DEF VerifyTouch, At, accountVars, AccountInv, TypeOK
<1>5. CASE VerifyBind(p)
  BY <1>5, BindKeeps
<1>6. CASE VerifySession(p)
  BY <1>6, SessionKeeps
<1> QED BY <1>1, <1>2, <1>3, <1>4, <1>5, <1>6 DEF Login

\* The deletion takes every outstanding challenge of the user's wallets at once.
LEMMA InvalidateKeeps ==
  ASSUME AccountInv, NEW p \in Requests, DeleteInvalidate(p)
  PROVE  AccountInv'
<1> DEFINE T == Outstanding(jobs[p].user)
           j == [jobs[p] EXCEPT !.step = "invalidated", !.taken = T]
<1>1. /\ jobs[p].step = "locked" /\ jobs[p].user \in Users
      /\ \A q \in Requests \ {p} : \A c \in T : ~HoldsChallenge(q, c)
  BY Unblocked DEF DeleteInvalidate, At, AccountInv, Shaped
<1>2. T \subseteq Challenges /\ \A c \in T : ~challenges[c].consumed
  BY DEF Outstanding
<1> HIDE DEF T
<1>3. j \in Job /\ j.step = "invalidated" /\ j.taken = T /\ j.user = jobs[p].user
  BY <1>2 DEF AccountInv, TypeOK, Job
<1>4. /\ jobs' = [jobs EXCEPT ![p] = j]
      /\ UNCHANGED <<users, profile, identity, challenges, tokens, sessions, objects>>
  BY DEF DeleteInvalidate, accountVars, T
<1> HIDE DEF j
<1>5. /\ jobs' \in [Requests -> Job] /\ jobs'[p] = j
      /\ \A q \in Requests \ {p} : jobs'[q] = jobs[q]
  BY <1>3, <1>4 DEF AccountInv, TypeOK
<1>6. Shaped'
  BY <1>1, <1>3, <1>4, <1>5 DEF AccountInv, Shaped
<1>7. /\ \A c \in Challenges : HoldsChallenge(p, c)' =>
            /\ ~challenges[c].consumed
            /\ \A q \in Requests \ {p} : ~HoldsChallenge(q, c)
      /\ \A w \in Wallets : ~HoldsWallet(p, w)'
  BY <1>1, <1>2, <1>3, <1>5 DEF HoldsChallenge, HoldsWallet
<1>8. Locks'
  BY <1>3, <1>4, <1>7, MovesOn
<1>9. TypeOK'
  BY <1>3, <1>4, <1>5 DEF AccountInv, TypeOK
<1> QED BY <1>6, <1>8, <1>9 DEF AccountInv

\* The challenges a deletion consumes are those it holds.
LEMMA CommitKeeps ==
  ASSUME AccountInv, NEW p \in Requests, DeleteCommit(p)
  PROVE  AccountInv'
<1> DEFINE u == jobs[p].user
           T == jobs[p].taken
<1>1. /\ jobs[p].step = "revoked" /\ u \in Users /\ T \subseteq Challenges
      /\ \A c \in T : HoldsChallenge(p, c)
  BY DEF DeleteCommit, At, AccountInv, Shaped, TypeOK, Job, HoldsChallenge
<1>2. /\ users' = [users EXCEPT ![u] = "deleted"]
      /\ profile' = [profile EXCEPT ![u] = FALSE]
      /\ identity' = [w \in Wallets |->
                        IF w \in WalletsOf(u) THEN [user |-> u, revoked |-> TRUE] ELSE identity[w]]
      /\ challenges' = [c \in Challenges |-> [challenges[c] EXCEPT !.consumed = @ \/ c \in T]]
      /\ objects' = [o \in Objects |->
                       IF ClosedByDeletion(p, o) THEN [objects[o] EXCEPT !.status = "closed"]
                       ELSE objects[o]]
      /\ jobs' = [jobs EXCEPT ![p] = Idle]
      /\ UNCHANGED <<tokens, sessions>>
  BY DEF DeleteCommit, End
<1>3. Idle \in Job /\ Idle.step = "idle"
  BY DEF Idle, Job
<1>4. /\ jobs' \in [Requests -> Job] /\ jobs'[p] = Idle
      /\ \A q \in Requests \ {p} : jobs'[q] = jobs[q]
  BY <1>2, <1>3 DEF AccountInv, TypeOK
<1>5. /\ challenges' \in [Challenges -> Challenge]
      /\ \A c \in Challenges : /\ challenges'[c].wallet = challenges[c].wallet
                                /\ challenges'[c].consumed = (challenges[c].consumed \/ c \in T)
  BY <1>2 DEF AccountInv, TypeOK, Challenge
<1>6. identity' \in [Wallets -> [user : Users \cup {None}, revoked : BOOLEAN]]
  BY <1>1, <1>2 DEF AccountInv, TypeOK
<1>7. objects' \in [Objects -> Object]
  <2>1. \A o \in Objects : objects[o] \in Object
    BY DEF AccountInv, TypeOK
  <2>2. \A o \in Objects : [objects[o] EXCEPT !.status = "closed"] \in Object
    BY <2>1 DEF Object
  <2>3. \A o \in Objects : objects'[o] \in Object
    BY <1>2, <2>1, <2>2
  <2> QED BY <1>2, <2>3
<1> HIDE DEF u, T
<1>8. TypeOK'
  BY <1>1, <1>2, <1>4, <1>5, <1>6, <1>7 DEF AccountInv, TypeOK
<1>9. Shaped'
  BY <1>3, <1>4, <1>5 DEF AccountInv, Shaped
<1>10. /\ \A c \in Challenges : ~HoldsChallenge(p, c)'
       /\ \A w \in Wallets : ~HoldsWallet(p, w)'
  BY <1>3, <1>4 DEF HoldsChallenge, HoldsWallet
<1>11. ASSUME NEW q \in Requests \ {p}
       PROVE  /\ \A c \in Challenges : HoldsChallenge(q, c)' <=> HoldsChallenge(q, c)
              /\ \A w \in Wallets : HoldsWallet(q, w)' <=> HoldsWallet(q, w)
  <2>1. jobs[q].step \in {"unknown", "resolved", "touched"} => WalletOf(q)' = WalletOf(q)
    BY <1>4, <1>5 DEF AccountInv, Shaped, WalletOf
  <2> QED BY <1>4, <2>1 DEF HoldsChallenge, HoldsWallet
<1>12. Exclusive'
  <2> SUFFICES ASSUME NEW a \in Requests, NEW b \in Requests, a # b
               PROVE  /\ \A c \in Challenges : ~(HoldsChallenge(a, c)' /\ HoldsChallenge(b, c)')
                      /\ \A w \in Wallets : ~(HoldsWallet(a, w)' /\ HoldsWallet(b, w)')
    BY DEF Exclusive
  <2>1. CASE a # p /\ b # p
    BY <1>11, <2>1 DEF AccountInv, Locks, Exclusive
  <2>2. CASE a = p \/ b = p
    BY <1>10, <2>2
  <2> QED BY <2>1, <2>2
<1>13. HeldIsFresh'
  <2> SUFFICES ASSUME NEW q \in Requests, NEW c \in Challenges, HoldsChallenge(q, c)'
               PROVE  ~challenges'[c].consumed
    BY DEF HeldIsFresh
  <2>1. q # p /\ HoldsChallenge(q, c)
    BY <1>10, <1>11
  <2>2. c \notin T
    BY <1>1, <2>1 DEF AccountInv, Locks, Exclusive
  <2> QED BY <1>5, <2>1, <2>2 DEF AccountInv, Locks, HeldIsFresh
<1>14. Spent'
  <2>1. \A q \in Requests, c \in Challenges : Opening(q, c)' => Opening(q, c)
    BY <1>3, <1>4 DEF Opening
  <2> QED BY <1>2, <1>5, <2>1 DEF AccountInv, Locks, Spent
<1>15. FirstLogin'
  <2>1. \A w \in Wallets : identity'[w].revoked => identity'[w].user # None
    BY <1>1, <1>2, AccountsAssumption DEF AccountInv, Locks, FirstLogin
  <2>2. ASSUME NEW q \in Requests, jobs'[q].step = "unknown"
        PROVE  identity'[WalletOf(q)'].user = None
    <3>1. jobs[q].step = "unknown" /\ WalletOf(q)' = WalletOf(q) /\ WalletOf(q) \in Wallets
      BY <1>3, <1>4, <1>5, <2>2 DEF AccountInv, Shaped, WalletOf
    <3>2. identity[WalletOf(q)].user = None
      BY <3>1 DEF AccountInv, Locks, FirstLogin
    <3>3. WalletOf(q) \notin WalletsOf(u)
      BY <1>1, <3>2, AccountsAssumption DEF WalletsOf
    <3> QED BY <1>2, <3>1, <3>2, <3>3
  <2> QED BY <2>1, <2>2 DEF FirstLogin
<1> QED BY <1>8, <1>9, <1>12, <1>13, <1>14, <1>15 DEF AccountInv, Locks

\* The statements of a deletion keep the invariant.
LEMMA DeletionKeeps ==
  ASSUME AccountInv, NEW p \in Requests, Deletion(p)
  PROVE  AccountInv'
<1>1. CASE DeleteLock(p)
  <2>1. CASE users[jobs[p].user] = "deleted"
    BY <1>1, <2>1, Ends DEF DeleteLock, Refuse, accountVars, AccountInv, TypeOK
  <2>2. CASE users[jobs[p].user] # "deleted"
    BY <1>1, <2>2, Goes DEF DeleteLock, At, accountVars, AccountInv, TypeOK
  <2> QED BY <2>1, <2>2
<1>2. CASE DeleteInvalidate(p)
  BY <1>2, InvalidateKeeps
<1>3. CASE DeleteRevoke(p)
  BY <1>3, Goes DEF DeleteRevoke, At, accountVars, AccountInv, TypeOK
<1>4. CASE DeleteCommit(p)
  BY <1>4, CommitKeeps
<1> QED BY <1>1, <1>2, <1>3, <1>4 DEF Deletion

\* The handlers of other requests keep the invariant.
LEMMA HandlerKeeps ==
  ASSUME AccountInv, NEW p \in Requests, Handler(p)
  PROVE  AccountInv'
<1>1. CASE UpdateProfile(p)
  <2>1. jobs[p].user \in Users
    BY <1>1 DEF UpdateProfile, At, AccountInv, Shaped
  <2>2. profile' \in [Users -> BOOLEAN]
    BY <1>1, <2>1 DEF UpdateProfile, AccountInv, TypeOK
  <2> QED BY <1>1, <2>2, Ends DEF UpdateProfile, AccountInv, TypeOK
<1>2. CASE ValidateRecipient(p)
  <2>1. CASE Goto(p, "validated")
    BY <1>2, <2>1, Goes DEF ValidateRecipient, At, accountVars, AccountInv, TypeOK
  <2>2. CASE End(p)
    BY <1>2, <2>2, Ends DEF ValidateRecipient, accountVars, AccountInv, TypeOK
  <2> QED BY <1>2, <2>1, <2>2 DEF ValidateRecipient
<1>3. ASSUME NEW o \in Objects, CreateObject(p, o)
      PROVE  AccountInv'
  <2>1. jobs[p].user \in Users /\ jobs[p].op \in Kinds
    BY <1>3 DEF CreateObject, At, AccountInv, Shaped
  <2>2. objects' \in [Objects -> Object]
    BY <1>3, <2>1 DEF CreateObject, AccountInv, TypeOK, Object
  <2> QED BY <1>3, <2>2, Ends DEF CreateObject, accountVars, AccountInv, TypeOK
<1>4. ASSUME NEW o \in Objects, CloseObject(p, o)
      PROVE  AccountInv'
  <2>1. objects' \in [Objects -> Object]
    BY <1>4 DEF CloseObject, AccountInv, TypeOK, Object
  <2> QED BY <1>4, <2>1, Ends DEF CloseObject, accountVars, AccountInv, TypeOK
<1> QED BY <1>1, <1>2, <1>3, <1>4 DEF Handler

\* Every step keeps the invariant.
LEMMA AccountStep == AccountInv /\ [Next]_vars => AccountInv'
<1> SUFFICES ASSUME AccountInv, [Next]_vars PROVE AccountInv'
  OBVIOUS
<1>1. ASSUME NEW w \in Wallets, Issue(w) PROVE AccountInv'
  <2> DEFINE c == CHOOSE c \in Unissued : TRUE
  <2>1. c \in Challenges /\ challenges[c].wallet = None
        /\ challenges' = [challenges EXCEPT ![c].wallet = w]
        /\ UNCHANGED <<users, profile, identity, tokens, sessions, objects, jobs>>
    BY <1>1 DEF Issue, Unissued, accountVars
  <2> HIDE DEF c
  <2>2. challenges' \in [Challenges -> Challenge]
        /\ \A d \in Challenges :
             /\ challenges'[d].consumed = challenges[d].consumed
             /\ challenges[d].wallet # None => challenges'[d].wallet = challenges[d].wallet
    BY <2>1 DEF AccountInv, TypeOK, Challenge
  <2> QED BY <2>1, <2>2, ChallengeSteps DEF AccountInv, TypeOK
<1>2. ASSUME NEW c \in Challenges, ChallengeExpires(c) PROVE AccountInv'
  <2>1. challenges' = [challenges EXCEPT ![c].expired = TRUE]
        /\ UNCHANGED <<users, profile, identity, tokens, sessions, objects, jobs>>
    BY <1>2 DEF ChallengeExpires, accountVars
  <2>2. challenges' \in [Challenges -> Challenge]
        /\ \A d \in Challenges :
             /\ challenges'[d].consumed = challenges[d].consumed
             /\ challenges[d].wallet # None => challenges'[d].wallet = challenges[d].wallet
    BY <2>1 DEF AccountInv, TypeOK, Challenge
  <2> QED BY <2>1, <2>2, ChallengeSteps DEF AccountInv, TypeOK
<1>3. ASSUME UNCHANGED <<identity, challenges, sessions, jobs>>, TypeOK' PROVE AccountInv'
  BY <1>3, ChallengeSteps DEF AccountInv, TypeOK
<1>4. ASSUME NEW u \in Users, TokenExpires(u) PROVE AccountInv'
  BY <1>3, <1>4 DEF TokenExpires, accountVars, AccountInv, TypeOK
<1>5. ASSUME NEW o \in Objects, Settle(o) PROVE AccountInv'
  <2>1. objects' \in [Objects -> Object]
    BY <1>5 DEF Settle, AccountInv, TypeOK, Object
  <2> QED BY <1>3, <1>5, <2>1 DEF Settle, accountVars, AccountInv, TypeOK
<1>6. ASSUME NEW p \in Requests, NEW c \in Challenges, VerifyCheck(p, c) PROVE AccountInv'
  <2> DEFINE j == [Idle EXCEPT !.step = "checked", !.op = "login", !.challenge = c]
  <2>1. j \in Job /\ j.step = "checked" /\ j.challenge = c
    BY DEF Idle, Job
  <2>2. challenges[c].wallet \in Wallets
    BY <1>6 DEF VerifyCheck, AccountInv, TypeOK, Challenge
  <2>3. jobs' = [jobs EXCEPT ![p] = j]
        /\ UNCHANGED <<users, profile, identity, challenges, tokens, sessions, objects>>
    BY <1>6 DEF VerifyCheck, accountVars
  <2> HIDE DEF j
  <2> QED BY <2>1, <2>2, <2>3, Begins DEF AccountInv, TypeOK
<1>7. ASSUME NEW p \in Requests, NEW u \in Users, NEW op \in Ops, Admit(p, u, op)
      PROVE  AccountInv'
  <2> DEFINE j == [Idle EXCEPT !.step = "admitted", !.op = op, !.user = u,
                               !.past = IF op = "delete" THEN Past ELSE {}]
  <2>1. j \in Job /\ j.step = "admitted" /\ j.user = u
    BY DEF Idle, Job, Ops, Past
  <2>2. jobs' = [jobs EXCEPT ![p] = j]
        /\ UNCHANGED <<users, profile, identity, challenges, tokens, sessions, objects>>
    BY <1>7 DEF Admit, accountVars
  <2> HIDE DEF j
  <2> QED BY <2>1, <2>2, Begins DEF AccountInv, TypeOK
<1>8. ASSUME NEW p \in Requests, DeadlockVictim(p) \/ Abandon(p) PROVE AccountInv'
  BY <1>8, Ends DEF DeadlockVictim, Abandon, accountVars, AccountInv, TypeOK
<1>9. CASE UNCHANGED vars
  BY <1>3, <1>9 DEF vars, AccountInv, TypeOK
<1> QED BY <1>1, <1>2, <1>4, <1>5, <1>6, <1>7, <1>8, <1>9, LoginKeeps, DeletionKeeps, HandlerKeeps
    DEF Next

LEMMA AccountStart == Init => AccountInv
<1> SUFFICES ASSUME Init PROVE AccountInv
  OBVIOUS
<1>1. Idle \in Job /\ Idle.step = "idle" /\ Idle.taken = {}
  BY DEF Idle, Job
<1>2. \A p \in Requests : jobs[p] = Idle
  BY DEF Init
<1>3. TypeOK
  BY <1>1 DEF Init, TypeOK, NoObject, Object, Challenge
<1>4. Shaped
  BY <1>1, <1>2 DEF Shaped
<1>5. Exclusive /\ HeldIsFresh
  BY <1>1, <1>2 DEF Exclusive, HeldIsFresh, HoldsChallenge, HoldsWallet
<1>6. Spent
  BY <1>1, <1>2 DEF Init, Spent, Opening
<1>7. FirstLogin
  BY <1>1, <1>2 DEF Init, FirstLogin
<1> QED BY <1>3, <1>4, <1>5, <1>6, <1>7 DEF AccountInv, Locks

LEMMA Invariance == Spec => []AccountInv
BY AccountStart, AccountStep, PTL DEF Spec

-------------------------------------------------------------------------------
\* Every reachable state is of its type, and no goroutine keeps anything of the
\* request it has served.
THEOREM TypeCorrect == Spec => []TypeOK
<1>1. AccountInv => TypeOK
  BY DEF AccountInv
<1> QED BY <1>1, Invariance, PTL

\* However many requests present the signature of a challenge, and whatever
\* deletions do to it meanwhile, Verify opens at most one session for it.
THEOREM UsedOnce == Spec => []ChallengeUsedOnce
<1>1. AccountInv => ChallengeUsedOnce
  BY DEF AccountInv, Locks, Spent, ChallengeUsedOnce
<1> QED BY <1>1, Invariance, PTL

\* Two requests never hold the same challenge row or the advisory lock of the
\* same wallet.
THEOREM LocksExclude == Spec => []Exclusive
<1>1. AccountInv => Exclusive
  BY DEF AccountInv, Locks
<1> QED BY <1>1, Invariance, PTL

\* The wallet of a deleted account neither resumes it nor creates another one:
\* no login and no deletion rewrites a revoked identity or revives a user.
THEOREM DeletedForGood == Spec => NeverResumes
<1> DEFINE Kept == /\ \A w \in Wallets : identity[w].revoked => identity'[w] = identity[w]
                   /\ \A u \in Users : users[u] = "deleted" => users'[u] = "deleted"
<1>1. AccountInv /\ [Next]_vars => [Kept]_vars
  <2> SUFFICES ASSUME AccountInv, Next PROVE Kept
    BY DEF vars
  <2>1. ASSUME UNCHANGED <<users, identity>> PROVE Kept
    BY <2>1
  <2>2. ASSUME NEW p \in Requests, VerifyCreate(p) PROVE Kept
    <3> DEFINE w == WalletOf(p)
               u == CHOOSE u \in Unborn : TRUE
    <3>1. /\ users' = [users EXCEPT ![u] = "active"] /\ users[u] = "none"
          /\ identity' = [identity EXCEPT ![w] = [user |-> u, revoked |-> FALSE]]
          /\ jobs[p].step = "unknown" /\ w \in Wallets
      BY <2>2 DEF VerifyCreate, Unborn, At, AccountInv, Shaped, WalletOf
    <3>2. identity[w].user = None /\ ~identity[w].revoked
      BY <3>1 DEF AccountInv, TypeOK, Locks, FirstLogin
    <3> HIDE DEF u, w
    <3> QED BY <3>1, <3>2 DEF AccountInv, TypeOK
  <2>3. ASSUME NEW p \in Requests, DeleteCommit(p) PROVE Kept
    <3> DEFINE u == jobs[p].user
    <3>1. /\ users' = [users EXCEPT ![u] = "deleted"]
          /\ identity' = [w \in Wallets |->
                            IF w \in WalletsOf(u) THEN [user |-> u, revoked |-> TRUE]
                            ELSE identity[w]]
      BY <2>3 DEF DeleteCommit
    <3>2. ASSUME NEW w \in Wallets, identity[w].revoked, w \in WalletsOf(u)
          PROVE  identity[w] = [user |-> u, revoked |-> TRUE]
      BY <3>2 DEF WalletsOf, AccountInv, TypeOK
    <3> QED BY <3>1, <3>2 DEF AccountInv, TypeOK
  <2>4. ASSUME NEW p \in Requests, Login(p), ~VerifyCreate(p) PROVE UNCHANGED <<users, identity>>
    BY <2>4 DEF Login, VerifyConsume, VerifyResolve, VerifyTouch, VerifyBind, VerifySession,
                accountVars
  <2>5. ASSUME NEW p \in Requests, Deletion(p), ~DeleteCommit(p) PROVE UNCHANGED <<users, identity>>
    BY <2>5 DEF Deletion, DeleteLock, DeleteInvalidate, DeleteRevoke, accountVars
  <2>6. ASSUME NEW p \in Requests, Handler(p) PROVE UNCHANGED <<users, identity>>
    BY <2>6 DEF Handler, UpdateProfile, ValidateRecipient, CreateObject, CloseObject, accountVars
  <2>7. ASSUME NEW p \in Requests,
               \/ \E c \in Challenges : VerifyCheck(p, c)
               \/ \E u \in Users, op \in Ops : Admit(p, u, op)
               \/ DeadlockVictim(p) \/ Abandon(p)
        PROVE  UNCHANGED <<users, identity>>
    BY <2>7 DEF VerifyCheck, Admit, DeadlockVictim, Abandon, accountVars
  <2>8. ASSUME \/ \E w \in Wallets : Issue(w)
               \/ \E c \in Challenges : ChallengeExpires(c)
               \/ \E u \in Users : TokenExpires(u)
               \/ \E o \in Objects : Settle(o)
        PROVE  UNCHANGED <<users, identity>>
    BY <2>8 DEF Issue, ChallengeExpires, TokenExpires, Settle, accountVars
  <2> QED BY <2>1, <2>2, <2>3, <2>4, <2>5, <2>6, <2>7, <2>8 DEF Next
<1> QED BY <1>1, Invariance, PTL DEF Spec, NeverResumes

\* A payment request that is no longer pending is not rewritten and nothing that
\* was closed is reopened, whoever acts on it and however a deletion races it.
THEOREM EvidenceStays == Spec => EvidenceKept
<1> DEFINE Keeps(o) == \/ objects'[o] = objects[o]
                       \/ objects[o].status \in {"none", "live"}
                       \/ objects[o].kind = "event" /\ objects'[o].status = "closed"
           Kept == \A o \in Objects : Keeps(o)
<1>1. AccountInv /\ [Next]_vars => [Kept]_vars
  <2> SUFFICES ASSUME AccountInv, Next PROVE Kept
    BY DEF vars
  <2>1. \A o \in Objects : objects[o] \in Object
    BY DEF AccountInv, TypeOK
  <2>2. ASSUME UNCHANGED objects PROVE Kept
    BY <2>2
  <2>3. ASSUME NEW p \in Requests, NEW o \in Objects, CreateObject(p, o) PROVE Kept
    BY <2>3 DEF CreateObject, AccountInv, TypeOK
  <2>4. ASSUME NEW p \in Requests, NEW o \in Objects, CloseObject(p, o) PROVE Kept
    <3>1. CASE objects[o].status = "live" \/ objects[o].kind = "event"
      <4>1. objects' = [objects EXCEPT ![o].status = "closed"]
        BY <2>4, <3>1 DEF CloseObject
      <4>2. \A x \in Objects \ {o} : objects'[x] = objects[x]
        BY <4>1 DEF AccountInv, TypeOK
      <4>3. objects'[o].status = "closed"
        BY <2>1, <4>1 DEF AccountInv, TypeOK, Object
      <4> QED BY <3>1, <4>2, <4>3
    <3>2. CASE ~(objects[o].status = "live" \/ objects[o].kind = "event")
      BY <2>2, <2>4, <3>2 DEF CloseObject
    <3> QED BY <3>1, <3>2
  <2>5. ASSUME NEW o \in Objects, Settle(o) PROVE Kept
    BY <2>5 DEF Settle, AccountInv, TypeOK
  <2>6. ASSUME NEW p \in Requests, DeleteCommit(p) PROVE Kept
    <3> SUFFICES ASSUME NEW o \in Objects PROVE Keeps(o)
      OBVIOUS
    <3>1. objects'[o] = IF ClosedByDeletion(p, o) THEN [objects[o] EXCEPT !.status = "closed"]
                        ELSE objects[o]
      BY <2>6 DEF DeleteCommit
    <3>2. ClosedByDeletion(p, o) => objects[o].status = "live" \/ objects[o].kind = "event"
      BY DEF ClosedByDeletion, Past
    <3>3. [objects[o] EXCEPT !.status = "closed"].status = "closed"
      BY <2>1 DEF Object
    <3> QED BY <3>1, <3>2, <3>3
  <2>7. ASSUME NEW p \in Requests, Login(p) PROVE UNCHANGED objects
    BY <2>7 DEF Login, VerifyConsume, VerifyResolve, VerifyCreate, VerifyTouch, VerifyBind,
                VerifySession
  <2>8. ASSUME NEW p \in Requests, Deletion(p), ~DeleteCommit(p) PROVE UNCHANGED objects
    BY <2>8 DEF Deletion, DeleteLock, DeleteInvalidate, DeleteRevoke
  <2>9. ASSUME NEW p \in Requests, Handler(p),
               ~ \E o \in Objects : CreateObject(p, o) \/ CloseObject(p, o)
        PROVE  UNCHANGED objects
    BY <2>9 DEF Handler, UpdateProfile, ValidateRecipient
  <2>10. ASSUME NEW p \in Requests,
                \/ \E c \in Challenges : VerifyCheck(p, c)
                \/ \E u \in Users, op \in Ops : Admit(p, u, op)
                \/ DeadlockVictim(p) \/ Abandon(p)
         PROVE  UNCHANGED objects
    BY <2>10 DEF VerifyCheck, Admit, DeadlockVictim, Abandon
  <2>11. ASSUME \/ \E w \in Wallets : Issue(w)
                \/ \E c \in Challenges : ChallengeExpires(c)
                \/ \E u \in Users : TokenExpires(u)
         PROVE  UNCHANGED objects
    BY <2>11 DEF Issue, ChallengeExpires, TokenExpires
  <2> QED BY <2>2, <2>3, <2>4, <2>5, <2>6, <2>7, <2>8, <2>9, <2>10, <2>11 DEF Next
<1> QED BY <1>1, Invariance, PTL DEF Spec, EvidenceKept

===============================================================================
