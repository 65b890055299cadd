--------------------------- MODULE WebCheckoutProofs ---------------------------
(***************************************************************************)
(* Theorems of WebCheckout for any purchases, payment requests, functions   *)
(* under way and number of transfers.                                       *)
(***************************************************************************)
EXTENDS WebCheckout, TLAPS

-------------------------------------------------------------------------------
(***************************************************************************)
(* The invariant: a function knows its resource, and its hash once there is *)
(* one; what is on display belongs to the page; only a request page keeps a *)
(* hash; the tab is at the Hub for the stored payment.                      *)
(***************************************************************************)

Posts(job) == job.step \in {"posting", "answered"}

Formed(job) ==
  /\ job.step # "idle" => job.target \in Targets
  /\ job.step = "preparing" => job.target \in Purchases
  /\ job.step \in {"received", "joined", "posting", "answered"} => job.hash \in Hashes

JobsOK == \A j \in Jobs : Formed(jobs[j]) /\ (jobs[j].shown => jobs[j].target = screen.target)

Displayed ==
  /\ screen.kept # None => screen.target \in Requests
  /\ screen.target = None =>
       page = "app" /\ screen.view = "done" /\ \A j \in Jobs : jobs[j].step = "idle"

AtHub == (page = "hub" => slot \in Slot) /\ (page = "paid" => Len(paid) > 0)

CheckoutInv == TypeOK /\ JobsOK /\ Displayed /\ AtHub /\ OnePrompt /\ SubmittedOnce

-------------------------------------------------------------------------------
\* One function goes on; the wallet is left alone.
LEMMA Advances ==
  ASSUME CheckoutInv, NEW j \in Jobs, NEW job \in Job, Formed(job),
         jobs' = [jobs EXCEPT ![j] = job],
         job.shown => job.target = screen.target,
         jobs[j].step # "wallet", job.step # "wallet",
         Posts(job) => \/ Posts(jobs[j]) /\ job.target = jobs[j].target /\ job.hash = jobs[j].hash
                       \/ ~InFlight(job.target, job.hash),
         screen' \in Screen, screen'.target = screen.target, screen'.kept \in {None, screen.kept},
         screen.target # None,
         module' \in Module, module'.flight = module.flight,
         slot' \in Slot \cup {None}, page' \in {page, "app", "hub"}, page' = "hub" => slot' \in Slot,
         server' \in [Targets -> Record], UNCHANGED <<host, paid>>
  PROVE  CheckoutInv'
<1>1. jobs \in [Jobs -> Job]
  BY DEF CheckoutInv, TypeOK
<1>2. jobs' \in [Jobs -> Job] /\ jobs'[j] = job /\ \A k \in Jobs : k # j => jobs'[k] = jobs[k]
  BY <1>1
<1>3. JobsOK'
  BY <1>2 DEF CheckoutInv, JobsOK
<1>4. Displayed' /\ AtHub'
  BY DEF CheckoutInv, TypeOK, Displayed, AtHub
<1>5. OnePrompt'
  BY <1>2 DEF CheckoutInv, OnePrompt
<1>6. SubmittedOnce'
  BY <1>2 DEF CheckoutInv, SubmittedOnce, Posts, InFlight
<1>7. TypeOK'
  BY <1>2 DEF CheckoutInv, TypeOK
<1> QED BY <1>3, <1>4, <1>5, <1>6, <1>7 DEF CheckoutInv

\* Some functions end.
LEMMA Settles ==
  ASSUME CheckoutInv, NEW K, jobs' = [k \in Jobs |-> IF k \in K THEN Idle ELSE jobs[k]],
         screen' \in Screen, screen'.target = screen.target, screen.target # None,
         screen'.kept # None => screen.target \in Requests,
         module' \in Module,
         \A k \in Jobs : module'.flight = k <=> k \notin K /\ module.flight = k,
         slot' \in Slot \cup {None}, page = "app", UNCHANGED <<host, page, paid, server>>
  PROVE  CheckoutInv'
<1>1. jobs \in [Jobs -> Job] /\ Idle \in Job /\ Idle.step = "idle" /\ ~Idle.shown
  BY DEF CheckoutInv, TypeOK, Idle, Job
<1>2. jobs' \in [Jobs -> Job] /\ \A k \in Jobs : jobs'[k] = IF k \in K THEN Idle ELSE jobs[k]
  BY <1>1
<1>3. JobsOK'
  BY <1>1, <1>2 DEF CheckoutInv, JobsOK, Formed
<1>4. Displayed' /\ AtHub'
  BY DEF CheckoutInv, Displayed, AtHub
<1>5. OnePrompt'
  BY <1>1, <1>2 DEF CheckoutInv, OnePrompt
<1>6. SubmittedOnce'
  BY <1>1, <1>2 DEF CheckoutInv, SubmittedOnce
<1>7. TypeOK'
  BY <1>2 DEF CheckoutInv, TypeOK
<1> QED BY <1>3, <1>4, <1>5, <1>6, <1>7 DEF CheckoutInv

LEMMA Ends ==
  ASSUME CheckoutInv, NEW j \in Jobs, jobs[j].step # "wallet", jobs' = [jobs EXCEPT ![j] = Idle],
         screen' \in Screen, screen'.target = screen.target, screen'.kept \in {None, screen.kept},
         screen.target # None,
         module' \in Module, module'.flight = module.flight,
         slot' \in Slot \cup {None}, page' \in {"app", "hub"}, page' = "hub" => slot' \in Slot,
         UNCHANGED <<host, paid, server>>
  PROVE  CheckoutInv'
<1>1. Idle \in Job /\ Idle.step = "idle" /\ ~Idle.shown
  BY DEF Idle, Job
<1>2. Formed(Idle) /\ ~Posts(Idle) /\ server' \in [Targets -> Record]
  BY <1>1 DEF Formed, Posts, CheckoutInv, TypeOK
<1> QED BY <1>1, <1>2, Advances

\* A load of the page, or a component on display, starts from the API's status.
LEMMA Restores ==
  ASSUME NEW t \in Targets
  PROVE  /\ Restore(t) \in Job /\ Formed(Restore(t)) /\ Restore(t).target = t
         /\ Restore(t).step = "fetching"
         /\ Mounted(t) \in Screen /\ Mounted(t).target = t /\ Mounted(t).kept = None
<1> DEFINE a == [Idle EXCEPT !.step = "fetching"]
           b == [a EXCEPT !.op = "restore"]
           c == [b EXCEPT !.target = t]
           d == [c EXCEPT !.shown = TRUE]
<1>1. a \in Job /\ a.step = "fetching"
  BY DEF Idle, Job
<1> HIDE DEF a
<1>2. b \in Job /\ b.step = "fetching"
  BY <1>1 DEF Job
<1> HIDE DEF b
<1>3. c \in Job /\ c.step = "fetching" /\ c.target = t
  BY <1>2 DEF Job
<1> HIDE DEF c
<1>4. d \in Job /\ d.step = "fetching" /\ d.target = t
  BY <1>3 DEF Job
<1>5. Restore(t) = d
  BY DEF Restore, a, b, c
<1> HIDE DEF d
<1>6. Formed(Restore(t))
  BY <1>4, <1>5 DEF Formed
<1> QED BY <1>4, <1>5, <1>6 DEF Mounted, Screen

\* Submitting makes a POST of a hash that has none, or joins it.
LEMMA Submits ==
  ASSUME NEW job \in Job, job.target \in Targets, NEW h \in Hashes
  PROVE  LET s == Submitting(job, h) IN
         /\ s \in Job /\ Formed(s) /\ s.target = job.target /\ s.hash = h /\ s.shown = job.shown
         /\ s.step \in {"joined", "posting"} /\ (Posts(s) => ~InFlight(s.target, s.hash))
<1> DEFINE step == IF InFlight(job.target, h) THEN "joined" ELSE "posting"
           a == [job EXCEPT !.step = step]
           s == [a EXCEPT !.hash = h]
<1>1. a \in Job /\ a.target = job.target /\ a.shown = job.shown /\ a.step = step
  BY DEF Job
<1> HIDE DEF a
<1>2. s \in Job /\ s.target = job.target /\ s.shown = job.shown /\ s.step = step /\ s.hash = h
  BY <1>1 DEF Job
<1>3. Submitting(job, h) = s
  BY DEF Submitting, a
<1> HIDE DEF s
<1>4. Formed(s) /\ (Posts(s) => ~InFlight(s.target, s.hash))
  BY <1>2 DEF Formed, Posts
<1> QED BY <1>2, <1>3, <1>4

LEMMA Shows ==
  ASSUME CheckoutInv, NEW job, NEW view \in {"loading", "ready", "busy", "rejected", "error", "done"}
  PROVE  /\ Show(job, view) \in Screen /\ Show(job, view).target = screen.target
         /\ Show(job, view).kept = screen.kept
         /\ LET s == [screen EXCEPT !.view = view]
            IN s \in Screen /\ s.target = screen.target /\ s.kept = screen.kept
BY DEF CheckoutInv, TypeOK, Screen, Show

-------------------------------------------------------------------------------
(***************************************************************************)
(* The steps: pages.                                                        *)
(***************************************************************************)

LEMMA Navigates ==
  ASSUME CheckoutInv, NEW j \in Jobs, NEW t \in Targets, Navigate(j, t)
  PROVE  CheckoutInv'
<1>1. jobs \in [Jobs -> Job] /\ Open /\ jobs[j].step = "idle" /\ screen' = Mounted(t)
      /\ jobs' = [k \in Jobs |-> IF k = j THEN Restore(t) ELSE [jobs[k] EXCEPT !.shown = FALSE]]
      /\ UNCHANGED <<host, page, module, slot, paid, server>>
  BY DEF Navigate, CheckoutInv, TypeOK
<1>2. /\ Restore(t) \in Job /\ Formed(Restore(t)) /\ Restore(t).target = t
      /\ Restore(t).step = "fetching"
      /\ Mounted(t) \in Screen /\ Mounted(t).target = t /\ Mounted(t).kept = None
  BY Restores
<1>3. \A k \in Jobs : LET hidden == [jobs[k] EXCEPT !.shown = FALSE] IN
        hidden \in Job /\ ~hidden.shown /\ hidden.step = jobs[k].step
        /\ hidden.target = jobs[k].target /\ hidden.hash = jobs[k].hash
  BY <1>1 DEF Job
<1>4. /\ jobs' \in [Jobs -> Job] /\ jobs'[j] = Restore(t)
      /\ \A k \in Jobs : k # j => /\ ~jobs'[k].shown /\ jobs'[k].step = jobs[k].step
                                  /\ jobs'[k].target = jobs[k].target /\ jobs'[k].hash = jobs[k].hash
  BY <1>1, <1>2, <1>3
<1>5. JobsOK'
  BY <1>1, <1>2, <1>4 DEF CheckoutInv, JobsOK, Formed
<1>6. t # None
  BY WebCheckoutAssumption
<1>7. Displayed' /\ AtHub'
  BY <1>1, <1>2, <1>6 DEF CheckoutInv, Displayed, AtHub
<1>8. OnePrompt'
  BY <1>1, <1>2, <1>4 DEF CheckoutInv, OnePrompt
<1>9. SubmittedOnce'
  BY <1>1, <1>2, <1>4 DEF CheckoutInv, SubmittedOnce
<1>10. TypeOK'
  BY <1>1, <1>2, <1>4 DEF CheckoutInv, TypeOK
<1> QED BY <1>5, <1>7, <1>8, <1>9, <1>10 DEF CheckoutInv

LEMMA Loads ==
  ASSUME CheckoutInv, NEW j \in Jobs, NEW captured \in Hashes \cup {Cancelled, None}, screen.target # None,
         Load(j, screen.target, captured), UNCHANGED <<host, slot, paid, server>>
  PROVE  CheckoutInv'
<1> DEFINE t == screen.target
<1>1. t \in Targets
  BY DEF CheckoutInv, TypeOK, Screen
<1>2. /\ page' = "app" /\ screen' = Mounted(t) /\ module' = Fresh(captured)
      /\ jobs' = [[k \in Jobs |-> Idle] EXCEPT ![j] = Restore(t)]
  BY DEF Load
<1> HIDE DEF t
<1>3. /\ Restore(t) \in Job /\ Formed(Restore(t)) /\ Restore(t).target = t
      /\ Restore(t).step = "fetching"
      /\ Mounted(t) \in Screen /\ Mounted(t).target = t /\ Mounted(t).kept = None
  BY <1>1, Restores
<1>4. Idle \in Job /\ Idle.step = "idle" /\ ~Idle.shown /\ Formed(Idle)
  BY DEF Idle, Job, Formed
<1>5. jobs' \in [Jobs -> Job] /\ jobs'[j] = Restore(t) /\ \A k \in Jobs : k # j => jobs'[k] = Idle
  BY <1>2, <1>3, <1>4
<1>6. module' \in Module /\ module'.flight = None
  BY <1>2 DEF Fresh, Module
<1>7. JobsOK'
  BY <1>2, <1>3, <1>4, <1>5 DEF JobsOK
<1>8. t # None /\ None \notin Jobs
  BY <1>1, WebCheckoutAssumption
<1>9. Displayed' /\ AtHub'
  BY <1>2, <1>3, <1>8 DEF Displayed, AtHub
<1>10. OnePrompt'
  BY <1>3, <1>4, <1>5, <1>6, <1>8 DEF OnePrompt
<1>11. SubmittedOnce'
  BY <1>3, <1>4, <1>5 DEF SubmittedOnce
<1>12. TypeOK'
  BY <1>2, <1>3, <1>5, <1>6 DEF CheckoutInv, TypeOK
<1> QED BY <1>7, <1>9, <1>10, <1>11, <1>12 DEF CheckoutInv

LEMMA Returns ==
  ASSUME CheckoutInv, NEW j \in Jobs, Reload(j) \/ HubReturns(j)
  PROVE  CheckoutInv'
<1>1. screen.target # None
  BY DEF Reload, HubReturns, CheckoutInv, Displayed, Open
<1>2. page = "paid" => Len(paid) \in Hashes
  BY WebCheckoutAssumption DEF CheckoutInv, TypeOK, AtHub, Hashes
<1>3. PICK captured \in Hashes \cup {Cancelled, None} : Load(j, screen.target, captured)
  BY <1>2 DEF Reload, HubReturns
<1> QED BY <1>1, <1>3, Loads DEF Reload, HubReturns

\* What is stored, or was brought by the redirect, is a hash or a cancellation.
LEMMA Recovers ==
  ASSUME CheckoutInv, slot # None
  PROVE  Recovered \in Hashes \cup {Cancelled, None}
BY DEF CheckoutInv, TypeOK, Slot, Module, Recovered

LEMMA KeepsHash ==
  ASSUME CheckoutInv, slot # None, NEW h \in Hashes
  PROVE  [slot EXCEPT !.hash = h] \in Slot
BY DEF CheckoutInv, TypeOK, Slot

LEMMA Frees ==
  ASSUME CheckoutInv, NEW b \in BOOLEAN
  PROVE  LET m == [module EXCEPT !.redirectStarted = b] IN m \in Module /\ m.flight = module.flight
BY DEF CheckoutInv, TypeOK, Module

LEMMA Fetches ==
  ASSUME CheckoutInv, NEW j \in Jobs, Restored(j) \/ RestoreFails(j) \/ NotPayable(j)
  PROVE  CheckoutInv'
<1> DEFINE t == jobs[j].target
<1>1. /\ page = "app" /\ jobs[j] \in Job /\ jobs[j].step \in {"fetching", "preparing"}
      /\ t \in Targets /\ screen.target # None /\ slot \in Slot \cup {None}
      /\ module \in Module /\ server \in [Targets -> Record]
      /\ (jobs[j].shown => t = screen.target)
  BY DEF Restored, RestoreFails, NotPayable, Open, CheckoutInv, TypeOK, JobsOK, Formed, Displayed
<1>2. UNCHANGED <<host, page, paid, server>>
  BY DEF Restored, RestoreFails, NotPayable
<1>3. CASE RestoreFails(j) \/ NotPayable(j)
  <2>1. PICK view \in {"error", "done", "ready"} : screen' = Show(jobs[j], view)
    BY <1>3 DEF RestoreFails, NotPayable
  <2>2. jobs' = [jobs EXCEPT ![j] = Idle] /\ UNCHANGED <<module, slot>>
    BY <1>3 DEF RestoreFails, NotPayable
  <2>3. screen' \in Screen /\ screen'.target = screen.target /\ screen'.kept = screen.kept
    BY <2>1, Shows
  <2> QED BY <1>1, <1>2, <2>2, <2>3, Ends
<1>4. CASE Restored(j) /\ ~(jobs[j].shown /\ server[t].status = "pending")
  <2>1. screen' = Show(jobs[j], "done") /\ slot' \in {None, slot}
        /\ jobs' = [jobs EXCEPT ![j] = Idle] /\ UNCHANGED module
    BY <1>4 DEF Restored
  <2> QED BY <1>1, <1>2, <2>1, Shows, Ends
<1>5. CASE Restored(j) /\ Resume(j)
  <2> DEFINE h == ToResume(t)
  <2>1. CASE ~IsTransaction(h)
    <3>1. PICK view \in {"ready", "rejected", "error"} : screen' = Show(jobs[j], view)
      BY <1>5, <2>1 DEF Resume
    <3>2. jobs' = [jobs EXCEPT ![j] = Idle] /\ UNCHANGED slot
          /\ module' \in {module, [module EXCEPT !.redirectStarted = FALSE]}
      BY <1>5, <2>1 DEF Resume
    <3>3. screen' \in Screen /\ screen'.target = screen.target /\ screen'.kept = screen.kept
      BY <3>1, Shows
    <3>4. module' \in Module /\ module'.flight = module.flight
      BY <1>1, <3>2, Frees
    <3> QED BY <1>1, <1>2, <3>2, <3>3, <3>4, Ends
  <2>2. CASE IsTransaction(h)
    <3>1. h \in Hashes /\ h # None
      BY <2>2, WebCheckoutAssumption DEF IsTransaction, Hashes
    <3>2. slot # None /\ slot' = [slot EXCEPT !.hash = h] /\ UNCHANGED module
          /\ jobs' = [jobs EXCEPT ![j] = Submitting(jobs[j], h)]
          /\ screen' \in {Show(jobs[j], "ready"), screen}
      BY <1>5, <2>2, <3>1 DEF Resume, ToResume, Matches
    <3>3. slot' \in Slot
      BY <3>1, <3>2, KeepsHash
    <3> DEFINE s == Submitting(jobs[j], h)
    <3>4. /\ s \in Job /\ Formed(s) /\ s.target = t /\ s.hash = h /\ s.shown = jobs[j].shown
          /\ s.step \in {"joined", "posting"} /\ (Posts(s) => ~InFlight(s.target, s.hash))
      BY <1>1, <3>1, Submits
    <3>5. screen' \in Screen /\ screen'.target = screen.target /\ screen'.kept = screen.kept
      BY <3>2, Shows DEF CheckoutInv, TypeOK
    <3> HIDE DEF s
    <3>6. jobs' = [jobs EXCEPT ![j] = s]
      BY <3>2 DEF s
    <3> QED BY <1>1, <1>2, <3>2, <3>3, <3>4, <3>5, <3>6, Advances
  <2> QED BY <2>1, <2>2
<1> QED BY <1>3, <1>4, <1>5 DEF Restored

LEMMA TriesAgain ==
  ASSUME CheckoutInv, NEW j \in Jobs, TryAgain(j)
  PROVE  CheckoutInv'
<1> DEFINE t == screen.target
<1>1. /\ page = "app" /\ jobs[j].step = "idle" /\ t # None /\ t \in Targets
      /\ UNCHANGED <<host, page, module, slot, paid, server>>
      /\ module \in Module /\ slot \in Slot \cup {None} /\ server \in [Targets -> Record]
  BY DEF TryAgain, Open, CheckoutInv, Displayed, TypeOK, Screen
<1>2. CASE t \in Purchases
  <2>1. screen' = Mounted(t) /\ jobs' = [jobs EXCEPT ![j] = Restore(t)]
    BY <1>2 DEF TryAgain
  <2> HIDE DEF t
  <2>2. /\ Restore(t) \in Job /\ Formed(Restore(t)) /\ Restore(t).target = t
        /\ Restore(t).step = "fetching"
        /\ Mounted(t) \in Screen /\ Mounted(t).target = t /\ Mounted(t).kept = None
    BY <1>1, Restores
  <2>3. ~Posts(Restore(t))
    BY <2>2 DEF Posts
  <2> QED BY <1>1, <2>1, <2>2, <2>3, Advances DEF t
<1>3. CASE t \notin Purchases
  <2>1. PICK view \in {"ready", "done"} : screen' = [screen EXCEPT !.view = view]
    BY <1>3 DEF TryAgain
  <2>2. screen' \in Screen /\ screen'.target = t /\ screen'.kept = screen.kept
    BY <2>1, Shows
  <2>3. UNCHANGED jobs
    BY <1>3 DEF TryAgain
  <2> QED BY <1>1, <2>2, <2>3
      DEF CheckoutInv, TypeOK, JobsOK, Formed, Displayed, AtHub, OnePrompt, SubmittedOnce
<1> QED BY <1>2, <1>3

-------------------------------------------------------------------------------
(***************************************************************************)
(* The steps: paying.                                                       *)
(***************************************************************************)

LEMMA Pays ==
  ASSUME CheckoutInv, NEW t \in Targets, screen.target = t
  PROVE  LET job == PayOf(t) IN
         job \in Job /\ job.step = "idle" /\ job.target = t /\ job.hash = screen.kept /\ job.shown
<1> DEFINE a == [Idle EXCEPT !.target = t]
           b == [a EXCEPT !.hash = screen.kept]
           c == [b EXCEPT !.shown = TRUE]
<1>1. screen.kept \in Hashes \cup {None}
  BY DEF CheckoutInv, TypeOK, Screen
<1>2. a \in Job /\ a.step = "idle" /\ a.target = t
  BY DEF Idle, Job
<1> HIDE DEF a
<1>3. b \in Job /\ b.step = "idle" /\ b.target = t /\ b.hash = screen.kept
  BY <1>1, <1>2 DEF Job
<1> HIDE DEF b
<1>4. c \in Job /\ c.step = "idle" /\ c.target = t /\ c.hash = screen.kept /\ c.shown
  BY <1>3 DEF Job
<1>5. PayOf(t) = c
  BY DEF PayOf, a, b
<1> HIDE DEF c
<1> QED BY <1>4, <1>5

LEMMA Presses ==
  ASSUME CheckoutInv, NEW j \in Jobs, PressPurchase(j)
  PROVE  CheckoutInv'
<1> DEFINE t == screen.target
           job == [PayOf(t) EXCEPT !.step = "preparing"]
<1>1. /\ page = "app" /\ jobs[j].step = "idle" /\ t \in Purchases /\ t \in Targets /\ t # None
      /\ screen' = [screen EXCEPT !.view = "busy"] /\ jobs' = [jobs EXCEPT ![j] = job]
      /\ UNCHANGED <<host, page, module, slot, paid, server>>
      /\ module \in Module /\ slot \in Slot \cup {None} /\ server \in [Targets -> Record]
  BY WebCheckoutAssumption DEF PressPurchase, MayPress, Open, Targets, CheckoutInv, TypeOK
<1>2. screen' \in Screen /\ screen'.target = t /\ screen'.kept = screen.kept
  BY <1>1, Shows
<1> HIDE DEF t
<1>3. PayOf(t) \in Job /\ PayOf(t).target = t
  BY <1>1, Pays DEF t
<1>4. job \in Job /\ job.step = "preparing" /\ job.target = t
  BY <1>3 DEF Job
<1> HIDE DEF job
<1>5. Formed(job) /\ ~Posts(job)
  BY <1>1, <1>4 DEF Formed, Posts
<1> QED BY <1>1, <1>2, <1>4, <1>5, Advances DEF t

\* The payment a step is about, and what it may know.
LEMMA Prepares ==
  ASSUME CheckoutInv, NEW j \in Jobs, Prepared(j)
  PROVE  /\ page = "app" /\ jobs[j].step \in {"idle", "received", "preparing"}
         /\ screen.target # None
         /\ Paying(j) \in Job /\ Paying(j).target \in Targets
         /\ (Paying(j).shown => Paying(j).target = screen.target)
         /\ Busy(j) \in Screen /\ Busy(j).target = screen.target /\ Busy(j).kept = screen.kept
<1>1. jobs \in [Jobs -> Job] /\ screen \in Screen
  BY DEF CheckoutInv, TypeOK
<1>2. CASE Confirms(j)
  <2>1. page = "app" /\ jobs[j].step = "idle" /\ screen.target \in Targets /\ screen.target # None
    BY <1>2, WebCheckoutAssumption DEF Confirms, MayPress, Open, Targets
  <2>2. Paying(j) = PayOf(screen.target) /\ Busy(j) = [screen EXCEPT !.view = "busy"]
    BY <1>2 DEF Paying, Busy
  <2>3. Paying(j) \in Job /\ Paying(j).target = screen.target
    BY <2>1, <2>2, Pays
  <2>4. Busy(j) \in Screen /\ Busy(j).target = screen.target /\ Busy(j).kept = screen.kept
    BY <2>2, Shows
  <2> QED BY <2>1, <2>3, <2>4
<1>3. CASE ~Confirms(j)
  <2>1. Paying(j) = jobs[j] /\ Busy(j) = screen
    BY <1>3 DEF Paying, Busy
  <2>2. page = "app" /\ jobs[j].step \in {"received", "preparing"}
    BY <1>3 DEF Prepared, Open
  <2> QED BY <1>1, <2>1, <2>2 DEF CheckoutInv, JobsOK, Formed, Displayed
<1> QED BY <1>2, <1>3

LEMMA SubmitsKnown ==
  ASSUME CheckoutInv, NEW j \in Jobs, SubmitKnown(j)
  PROVE  CheckoutInv'
<1> DEFINE job == Paying(j)
           h == Known(job)
           s == Submitting(job, h)
<1>1. /\ page = "app" /\ jobs[j].step \in {"idle", "received", "preparing"}
      /\ screen.target # None
      /\ job \in Job /\ job.target \in Targets /\ (job.shown => job.target = screen.target)
      /\ Busy(j) \in Screen /\ Busy(j).target = screen.target /\ Busy(j).kept = screen.kept
  BY Prepares DEF SubmitKnown
<1>2. /\ h \in Hashes /\ screen' = Busy(j) /\ UNCHANGED <<host, page, module, paid, server>>
      /\ slot' = (IF job.hash = None THEN [slot EXCEPT !.hash = h] ELSE slot)
      /\ jobs' = [jobs EXCEPT ![j] = s]
  BY DEF SubmitKnown, IsTransaction
<1>3. module \in Module /\ slot \in Slot \cup {None} /\ server \in [Targets -> Record]
  BY DEF CheckoutInv, TypeOK
<1>4. slot' \in Slot \cup {None}
  <2>1. CASE job.hash = None
    <3>1. slot # None
      BY <1>2, <2>1, WebCheckoutAssumption DEF Known, Matches, Hashes
    <3> HIDE DEF h
    <3> QED BY <1>2, <2>1, <3>1, KeepsHash
  <2>2. CASE job.hash # None
    BY <1>2, <1>3, <2>2
  <2> QED BY <2>1, <2>2
<1>5. /\ s \in Job /\ Formed(s) /\ s.target = job.target /\ s.hash = h /\ s.shown = job.shown
      /\ s.step \in {"joined", "posting"} /\ (Posts(s) => ~InFlight(s.target, s.hash))
  <2> HIDE DEF h, job
  <2> QED BY <1>1, <1>2, Submits
<1> HIDE DEF s, h, job
<1> QED BY <1>1, <1>2, <1>3, <1>4, <1>5, Advances

LEMMA Waits ==
  ASSUME CheckoutInv, NEW j \in Jobs, ReportCancelled(j) \/ AwaitOther(j)
  PROVE  CheckoutInv'
<1> DEFINE p == Paying(j)
           job == [p EXCEPT !.step = "waiting"]
<1>1. /\ page = "app" /\ jobs[j].step \in {"idle", "received", "preparing"}
      /\ screen.target # None
      /\ p \in Job /\ p.target \in Targets /\ (p.shown => p.target = screen.target)
      /\ Busy(j) \in Screen /\ Busy(j).target = screen.target /\ Busy(j).kept = screen.kept
  BY Prepares DEF ReportCancelled, AwaitOther
<1>2. module \in Module /\ slot \in Slot \cup {None} /\ server \in [Targets -> Record]
  BY DEF CheckoutInv, TypeOK
<1>3. UNCHANGED <<host, page, slot, paid, server>>
  BY DEF ReportCancelled, AwaitOther
<1>4. CASE ReportCancelled(j)
  <2>1. screen' = Show(p, "rejected") /\ module' = [module EXCEPT !.redirectStarted = FALSE]
        /\ jobs' = [jobs EXCEPT ![j] = Idle]
    BY <1>4 DEF ReportCancelled
  <2>2. screen' \in Screen /\ screen'.target = screen.target /\ screen'.kept = screen.kept
    BY <2>1, Shows
  <2>3. module' \in Module /\ module'.flight = module.flight
    BY <2>1, Frees
  <2> QED BY <1>1, <1>2, <1>3, <2>1, <2>2, <2>3, Ends
<1>5. CASE AwaitOther(j)
  <2>1. jobs' = [jobs EXCEPT ![j] = job] /\ screen' = Busy(j) /\ UNCHANGED module
    BY <1>5 DEF AwaitOther
  <2> HIDE DEF p
  <2>2. job \in Job /\ job.step = "waiting" /\ job.target = p.target /\ job.shown = p.shown
    BY <1>1 DEF Job
  <2> HIDE DEF job
  <2>3. Formed(job) /\ ~Posts(job)
    BY <1>1, <2>2 DEF Formed, Posts
  <2> QED BY <1>1, <1>2, <1>3, <2>1, <2>2, <2>3, Advances
<1> QED BY <1>4, <1>5

\* The wallet is asked only when it is asked by nobody else.
LEMMA Opens ==
  ASSUME CheckoutInv, NEW j \in Jobs, OpenWallet(j)
  PROVE  CheckoutInv'
<1> DEFINE p == Paying(j)
           job == [p EXCEPT !.step = "wallet"]
<1>1. /\ page = "app" /\ jobs[j].step \in {"idle", "received", "preparing"}
      /\ screen.target # None
      /\ p \in Job /\ p.target \in Targets /\ (p.shown => p.target = screen.target)
      /\ Busy(j) \in Screen /\ Busy(j).target = screen.target /\ Busy(j).kept = screen.kept
  BY Prepares DEF OpenWallet
<1>2. /\ module \in Module /\ slot \in Slot \cup {None} /\ server \in [Targets -> Record]
      /\ jobs \in [Jobs -> Job]
  BY DEF CheckoutInv, TypeOK
<1>3. /\ UNCHANGED <<host, page, slot, paid, server>> /\ screen' = Busy(j)
      /\ jobs' = [jobs EXCEPT ![j] = job] /\ module' = [module EXCEPT !.flight = j]
      /\ module.flight = None
  BY DEF OpenWallet, MustWait
<1> HIDE DEF p
<1>4. job \in Job /\ job.step = "wallet" /\ job.target = p.target /\ job.shown = p.shown
  BY <1>1 DEF Job
<1> HIDE DEF job
<1>5. Formed(job)
  BY <1>1, <1>4 DEF Formed
<1>6. jobs' \in [Jobs -> Job] /\ jobs'[j] = job /\ \A k \in Jobs : k # j => jobs'[k] = jobs[k]
  BY <1>2, <1>3, <1>4
<1>7. module' \in Module /\ module'.flight = j
  BY <1>2, <1>3 DEF Module
<1>8. None \notin Jobs
  BY WebCheckoutAssumption
<1>9. JobsOK'
  BY <1>1, <1>3, <1>4, <1>5, <1>6 DEF CheckoutInv, JobsOK
<1>10. Displayed' /\ AtHub'
  BY <1>1, <1>3 DEF CheckoutInv, Displayed, AtHub
<1>11. OnePrompt'
  BY <1>3, <1>4, <1>6, <1>7, <1>8 DEF CheckoutInv, OnePrompt
<1>12. SubmittedOnce'
  BY <1>4, <1>6 DEF CheckoutInv, SubmittedOnce
<1>13. TypeOK'
  BY <1>1, <1>3, <1>6, <1>7 DEF CheckoutInv, TypeOK
<1> QED BY <1>9, <1>10, <1>11, <1>12, <1>13 DEF CheckoutInv

LEMMA Redirects ==
  ASSUME CheckoutInv, NEW j \in Jobs, Redirect(j) \/ RecoverInstead(j)
  PROVE  CheckoutInv'
<1> DEFINE p == Paying(j)
<1>1. /\ page = "app" /\ jobs[j].step \in {"idle", "received", "preparing"}
      /\ screen.target # None
      /\ p \in Job /\ p.target \in Targets /\ (p.shown => p.target = screen.target)
      /\ Busy(j) \in Screen /\ Busy(j).target = screen.target /\ Busy(j).kept = screen.kept
  BY Prepares DEF Redirect, RecoverInstead, Checkout
<1>2. module \in Module /\ slot \in Slot \cup {None} /\ server \in [Targets -> Record]
  BY DEF CheckoutInv, TypeOK
<1>3. Stored(j) \in Slot
  BY <1>1 DEF Stored, Slot
<1>4. UNCHANGED <<host, paid, server>>
  BY DEF Redirect, RecoverInstead
<1>5. PICK b \in {screen, Busy(j), Show(p, "ready"), Show(p, "rejected")} : screen' = b
  BY DEF Redirect, RecoverInstead
<1>6. screen' \in Screen /\ screen'.target = screen.target /\ screen'.kept = screen.kept
  BY <1>1, <1>5, Shows DEF CheckoutInv, TypeOK
<1>7. CASE Redirect(j)
  <2>1. slot' = Stored(j) /\ jobs' = [jobs EXCEPT ![j] = Idle] /\ page' \in {"app", "hub"}
        /\ \E told \in BOOLEAN : module' = [module EXCEPT !.redirectStarted = told]
    BY <1>1, <1>7 DEF Redirect
  <2>2. module' \in Module /\ module'.flight = module.flight
    BY <2>1, Frees
  <2> QED BY <1>1, <1>2, <1>3, <1>4, <1>6, <2>1, <2>2, Ends
<1>8. CASE RecoverInstead(j) /\ module.captured = Cancelled
  <2>1. slot' = Stored(j) /\ jobs' = [jobs EXCEPT ![j] = Idle] /\ UNCHANGED page
        /\ module' = [module EXCEPT !.redirectStarted = FALSE]
    BY <1>8 DEF RecoverInstead
  <2>2. module' \in Module /\ module'.flight = module.flight
    BY <2>1, Frees
  <2> QED BY <1>1, <1>2, <1>3, <1>4, <1>6, <2>1, <2>2, Ends
<1>9. CASE RecoverInstead(j) /\ module.captured # Cancelled
  <2> DEFINE h == module.captured
             s == Submitting(p, h)
  <2>1. h \in Hashes
    BY <1>2, <1>9 DEF RecoverInstead, Module
  <2>2. slot' = [Stored(j) EXCEPT !.hash = h] /\ jobs' = [jobs EXCEPT ![j] = s] /\ UNCHANGED <<page, module>>
    BY <1>9 DEF RecoverInstead
  <2> HIDE DEF h, p
  <2>3. slot' \in Slot
    BY <1>3, <2>1, <2>2 DEF Slot
  <2>4. /\ s \in Job /\ Formed(s) /\ s.target = p.target /\ s.hash = h /\ s.shown = p.shown
        /\ s.step \in {"joined", "posting"} /\ (Posts(s) => ~InFlight(s.target, s.hash))
    BY <1>1, <2>1, Submits
  <2> HIDE DEF s
  <2> QED BY <1>1, <1>2, <1>4, <1>6, <2>2, <2>3, <2>4, Advances
<1> QED BY <1>7, <1>8, <1>9

-------------------------------------------------------------------------------
(***************************************************************************)
(* The steps: the wallet and the API.                                       *)
(***************************************************************************)

LEMMA WalletAnswers ==
  ASSUME CheckoutInv, NEW j \in Jobs, WalletPays(j)
  PROVE  CheckoutInv'
<1> DEFINE h == Len(paid) + 1
           K == Behind \cup {j}
           received(k) == [jobs[k] EXCEPT !.step = "received", !.hash = h]
<1>1. /\ page = "app" /\ jobs[j].step = "wallet" /\ h \in Hashes /\ jobs \in [Jobs -> Job]
      /\ paid' = Append(paid, jobs[j].target) /\ module' = [module EXCEPT !.flight = None]
      /\ jobs' = [k \in Jobs |-> IF k \in K THEN received(k) ELSE jobs[k]]
      /\ UNCHANGED <<host, page, screen, slot, server>>
      /\ module \in Module /\ module.flight = j /\ paid \in Seq(Targets) /\ jobs[j].target \in Targets
  BY DEF WalletPays, Open, CheckoutInv, TypeOK, OnePrompt, JobsOK, Formed
<1> HIDE DEF h
<1>2. ASSUME NEW k \in Jobs
      PROVE  received(k) \in Job /\ received(k).step = "received" /\ received(k).hash = h
             /\ received(k).target = jobs[k].target /\ received(k).shown = jobs[k].shown
  <2> DEFINE a == [jobs[k] EXCEPT !.step = "received"]
  <2>1. a \in Job /\ a.step = "received" /\ a.target = jobs[k].target /\ a.shown = jobs[k].shown
    BY <1>1 DEF Job
  <2>2. received(k) = [a EXCEPT !.hash = h]
    OBVIOUS
  <2> HIDE DEF a, received
  <2> QED BY <1>1, <2>1, <2>2 DEF Job
<1> HIDE DEF received
<1>3. \A k \in K \cap Jobs : jobs[k].step \in {"waiting", "wallet"}
  BY <1>1 DEF Behind
<1> HIDE DEF K
<1>4. jobs' \in [Jobs -> Job] /\ \A k \in Jobs : jobs'[k] = IF k \in K THEN received(k) ELSE jobs[k]
  BY <1>1, <1>2
<1>5. JobsOK'
  <2> SUFFICES ASSUME NEW k \in Jobs
               PROVE  Formed(jobs'[k]) /\ (jobs'[k].shown => jobs'[k].target = screen'.target)
    BY DEF JobsOK
  <2>1. CASE k \in K
    BY <1>1, <1>2, <1>3, <1>4, <2>1 DEF CheckoutInv, JobsOK, Formed
  <2>2. CASE k \notin K
    BY <1>1, <1>4, <2>2 DEF CheckoutInv, JobsOK
  <2> QED BY <2>1, <2>2
<1>6. Displayed' /\ AtHub'
  BY <1>1 DEF CheckoutInv, Displayed, AtHub
<1>7. OnePrompt'
  <2>1. module'.flight = None /\ None \notin Jobs
    BY <1>1, WebCheckoutAssumption DEF Module
  <2>2. \A k \in Jobs : jobs[k].step = "wallet" => k = j
    BY <1>1 DEF CheckoutInv, OnePrompt
  <2>3. j \in K
    BY DEF K
  <2> QED BY <1>2, <1>4, <2>1, <2>2, <2>3 DEF OnePrompt
<1>8. SubmittedOnce'
  BY <1>2, <1>4 DEF CheckoutInv, SubmittedOnce
<1>9. module' \in Module
  BY <1>1 DEF Module
<1>10. paid' \in Seq(Targets) /\ Len(paid') = h
  BY <1>1 DEF h
<1>11. h <= MaxPaid
  BY <1>1 DEF Hashes
<1>12. TypeOK'
  BY <1>1, <1>4, <1>9, <1>10, <1>11 DEF CheckoutInv, TypeOK
<1> QED BY <1>5, <1>6, <1>7, <1>8, <1>12 DEF CheckoutInv

LEMMA Refuses ==
  ASSUME CheckoutInv, NEW j \in Jobs, WalletRefuses(j)
  PROVE  CheckoutInv'
<1> DEFINE K == Behind \cup {j}
<1>1. /\ page = "app" /\ jobs[j].step = "wallet" /\ module' = [module EXCEPT !.flight = None]
      /\ jobs' = [k \in Jobs |-> IF k \in K THEN Idle ELSE jobs[k]]
      /\ screen' \in {screen, [screen EXCEPT !.view = "rejected"]}
      /\ UNCHANGED <<host, page, slot, paid, server>>
  BY DEF WalletRefuses, Open
<1>2. module \in Module /\ module.flight = j /\ screen.target # None /\ slot \in Slot \cup {None}
      /\ screen \in Screen /\ (screen.kept # None => screen.target \in Requests)
  BY <1>1 DEF CheckoutInv, TypeOK, OnePrompt, Displayed
<1>3. screen' \in Screen /\ screen'.target = screen.target /\ screen'.kept = screen.kept
  BY <1>1, <1>2, Shows
<1>4. module' \in Module /\ module'.flight = None /\ None \notin Jobs
  BY <1>1, <1>2, WebCheckoutAssumption DEF Module
<1>5. j \in K
  OBVIOUS
<1> HIDE DEF K
<1> QED BY <1>1, <1>2, <1>3, <1>4, <1>5, Settles

LEMMA World ==
  ASSUME CheckoutInv, HubPays \/ Back \/ \E t \in Targets : Elsewhere(t)
  PROVE  CheckoutInv'
<1>1. UNCHANGED <<host, screen, module, slot, jobs>>
  BY DEF HubPays, Back, Elsewhere
<1>2. JobsOK' /\ OnePrompt' /\ SubmittedOnce'
  BY <1>1 DEF CheckoutInv, JobsOK, OnePrompt, SubmittedOnce
<1>3. CASE HubPays
  <2>1. slot.target \in Targets /\ paid \in Seq(Targets)
    BY <1>3 DEF HubPays, CheckoutInv, AtHub, TypeOK, Slot
  <2>2. paid' \in Seq(Targets) /\ Len(paid') = Len(paid) + 1 /\ Len(paid) < MaxPaid
    BY <1>3, <2>1 DEF HubPays
  <2>3. page = "hub" /\ page' = "paid" /\ UNCHANGED server /\ Len(paid) \in Nat
    BY <1>3, <2>1 DEF HubPays
  <2> QED BY <1>1, <1>2, <2>2, <2>3, WebCheckoutAssumption DEF CheckoutInv, TypeOK, Displayed, AtHub
<1>4. CASE Back
  BY <1>1, <1>2, <1>4 DEF Back, CheckoutInv, TypeOK, Displayed, AtHub
<1>5. ASSUME NEW t \in Targets, Elsewhere(t) PROVE CheckoutInv'
  <2>1. server' \in [Targets -> Record] /\ UNCHANGED <<page, paid>>
    BY <1>5 DEF Elsewhere, CheckoutInv, TypeOK, Record
  <2> QED BY <1>1, <1>2, <2>1 DEF CheckoutInv, TypeOK, Displayed, AtHub
<1> QED BY <1>3, <1>4, <1>5

LEMMA Answers ==
  ASSUME CheckoutInv, NEW j \in Jobs, Answer(j)
  PROVE  CheckoutInv'
<1>1. PICK accepted \in BOOLEAN :
        jobs' = [jobs EXCEPT ![j].step = "answered", ![j].accepted = accepted]
  BY DEF Answer
<1>2. /\ jobs[j].step = "posting" /\ UNCHANGED <<host, page, screen, module, slot, paid>>
      /\ \/ server' = server
         \/ server' = [server EXCEPT ![jobs[j].target] = [status |-> "taken", hash |-> jobs[j].hash]]
  BY DEF Answer
<1>3. /\ jobs \in [Jobs -> Job] /\ jobs[j].target \in Targets /\ jobs[j].hash \in Hashes
      /\ (jobs[j].shown => jobs[j].target = screen.target) /\ screen.target # None
      /\ screen \in Screen /\ module \in Module /\ slot \in Slot \cup {None}
      /\ server \in [Targets -> Record] /\ (page = "hub" => slot \in Slot)
  BY <1>2 DEF CheckoutInv, TypeOK, JobsOK, Formed, Displayed, AtHub
<1>4. server' \in [Targets -> Record]
  BY <1>2, <1>3 DEF Record
<1> DEFINE a == [jobs[j] EXCEPT !.step = "answered"]
           job == [a EXCEPT !.accepted = accepted]
<1>5. jobs' = [jobs EXCEPT ![j] = job]
  BY <1>1, <1>3
<1>6. a \in Job /\ a.step = "answered" /\ a.target = jobs[j].target /\ a.hash = jobs[j].hash
      /\ a.shown = jobs[j].shown
  BY <1>3 DEF Job
<1> HIDE DEF a
<1>7. job \in Job /\ job.step = "answered" /\ job.target = jobs[j].target /\ job.hash = jobs[j].hash
      /\ job.shown = jobs[j].shown
  BY <1>6 DEF Job
<1> HIDE DEF job
<1>8. Formed(job) /\ Posts(jobs[j])
  BY <1>2, <1>3, <1>7 DEF Formed, Posts
<1> QED BY <1>2, <1>3, <1>4, <1>5, <1>7, <1>8, Advances

LEMMA Submissions ==
  ASSUME CheckoutInv, NEW j \in Jobs, Accepted(j) \/ Refused(j)
  PROVE  CheckoutInv'
<1> DEFINE K == Posted(j)
<1>1. /\ page = "app" /\ jobs[j].step \in {"posting", "answered"} /\ UNCHANGED <<host, page, module, paid, server>>
      /\ jobs' = [k \in Jobs |-> IF k \in K THEN Idle ELSE jobs[k]]
  BY DEF Accepted, Refused, Settle, Open
<1>2. /\ jobs[j].target \in Targets /\ jobs[j].hash \in Hashes /\ screen.target # None
      /\ screen \in Screen /\ module \in Module /\ slot \in Slot \cup {None}
      /\ (screen.kept # None => screen.target \in Requests)
  BY <1>1 DEF CheckoutInv, TypeOK, JobsOK, Formed, Displayed
<1>3. \A k \in Jobs : module'.flight = k <=> k \notin K /\ module.flight = k
  BY <1>1 DEF CheckoutInv, OnePrompt, Posted
<1>4. slot' \in Slot \cup {None}
  <2>1. CASE slot = None \/ UNCHANGED slot
    BY <1>2, <2>1 DEF Accepted, Refused
  <2>2. CASE slot # None /\ slot' = [slot EXCEPT !.hash = jobs[j].hash, !.submitted = TRUE]
    <3> DEFINE h == jobs[j].hash
               a == [slot EXCEPT !.hash = h]
    <3>1. a \in Slot
      BY <1>2, <2>2, KeepsHash
    <3>2. slot' = [a EXCEPT !.submitted = TRUE]
      BY <2>2
    <3> HIDE DEF a
    <3> QED BY <3>1, <3>2 DEF Slot
  <2> QED BY <2>1, <2>2 DEF Accepted, Refused
<1>5. \A ops : Shown(j, ops) # {} => jobs[j].target = screen.target
  BY DEF Shown, Posted, CheckoutInv, JobsOK
<1>6. PICK view \in {"loading", "ready", "busy", "rejected", "error", "done"}, kept \in {screen.kept, jobs[j].hash} :
        /\ screen' = [screen EXCEPT !.view = view, !.kept = kept] \/ (screen' = screen /\ kept = screen.kept)
        /\ kept # screen.kept => jobs[j].target \in Requests /\ jobs[j].target = screen.target
  <2>1. CASE Accepted(j)
    <3>1. CASE Shown(j, {"restore", "pay"}) = {}
      BY <2>1, <3>1 DEF Accepted
    <3>2. CASE Shown(j, {"restore", "pay"}) # {}
      <4>1. screen' = [screen EXCEPT !.view = "done",
                         !.kept = IF jobs[j].target \in Requests THEN jobs[j].hash ELSE screen.kept]
        BY <2>1, <3>2 DEF Accepted
      <4> DEFINE kept == IF jobs[j].target \in Requests THEN jobs[j].hash ELSE screen.kept
      <4>2. kept \in {screen.kept, jobs[j].hash} /\ (kept # screen.kept => jobs[j].target \in Requests)
        OBVIOUS
      <4>3. jobs[j].target = screen.target
        BY <1>5, <3>2
      <4> HIDE DEF kept
      <4> QED BY <4>1, <4>2, <4>3 DEF kept
    <3> QED BY <3>1, <3>2
  <2>2. CASE Refused(j)
    <3> DEFINE unpayable == jobs[j].target \in Requests /\ jobs[j].step = "answered" /\ ~jobs[j].accepted
               view == IF Shown(j, {"restore"}) # {} THEN "error"
                       ELSE IF Shown(j, {"pay"}) = {} THEN screen.view
                       ELSE IF unpayable THEN "done" ELSE "ready"
               kept == IF jobs[j].target \in Requests /\ Shown(j, {"pay"}) # {} THEN jobs[j].hash ELSE screen.kept
    <3>1. screen' = [screen EXCEPT !.view = view, !.kept = kept]
      BY <2>2 DEF Refused
    <3>2. view \in {"loading", "ready", "busy", "rejected", "error", "done"}
      BY <1>2 DEF Screen
    <3>3. kept \in {screen.kept, jobs[j].hash}
          /\ (kept # screen.kept => jobs[j].target \in Requests /\ jobs[j].target = screen.target)
      BY <1>5
    <3> HIDE DEF view, kept
    <3> QED BY <3>1, <3>2, <3>3
  <2> QED BY <2>1, <2>2
<1>7. screen' \in Screen /\ screen'.target = screen.target /\ screen'.kept = kept
  <2>1. CASE screen' = screen /\ kept = screen.kept
    BY <1>2, <2>1
  <2>2. CASE screen' = [screen EXCEPT !.view = view, !.kept = kept]
    <3> DEFINE a == [screen EXCEPT !.view = view]
    <3>1. a \in Screen /\ a.target = screen.target
      BY Shows
    <3>2. screen' = [a EXCEPT !.kept = kept]
      BY <2>2
    <3> HIDE DEF a
    <3>3. kept \in Hashes \cup {None}
      BY <1>2, <1>6 DEF Screen
    <3> QED BY <3>1, <3>2, <3>3 DEF Screen
  <2> QED BY <1>6, <2>1, <2>2
<1>8. screen'.kept # None => screen.target \in Requests
  BY <1>2, <1>6, <1>7
<1> HIDE DEF K
<1> QED BY <1>1, <1>2, <1>3, <1>4, <1>7, <1>8, Settles

-------------------------------------------------------------------------------
(***************************************************************************)
(* The theorems.                                                            *)
(***************************************************************************)

LEMMA StartInv == Init => CheckoutInv
<1> SUFFICES ASSUME Init PROVE CheckoutInv
  OBVIOUS
<1>1. Idle \in Job /\ Idle.step = "idle" /\ ~Idle.shown
  BY DEF Idle, Job
<1>2. jobs \in [Jobs -> Job] /\ \A j \in Jobs : jobs[j] = Idle
  BY <1>1 DEF Init
<1>3. module \in Module /\ module.flight = None /\ None \notin Jobs
  BY WebCheckoutAssumption DEF Init, Fresh, Module
<1>4. server \in [Targets -> Record]
  BY DEF Init, Record
<1>5. paid \in Seq(Targets) /\ Len(paid) <= MaxPaid
  BY WebCheckoutAssumption DEF Init
<1>6. TypeOK
  BY <1>2, <1>3, <1>4, <1>5 DEF Init, TypeOK, Screen
<1>7. JobsOK /\ OnePrompt /\ SubmittedOnce
  BY <1>1, <1>2, <1>3 DEF JobsOK, Formed, OnePrompt, SubmittedOnce
<1> QED BY <1>1, <1>2, <1>6, <1>7 DEF Init, CheckoutInv, Displayed, AtHub

LEMMA StepInv == CheckoutInv /\ [Next]_vars => CheckoutInv'
<1> SUFFICES ASSUME CheckoutInv, [Next]_vars PROVE CheckoutInv'
  OBVIOUS
<1>1. CASE UNCHANGED vars
  BY <1>1 DEF vars, CheckoutInv, TypeOK, JobsOK, Displayed, AtHub, OnePrompt, SubmittedOnce
<1>2. CASE \E j \in Jobs, t \in Targets : Navigate(j, t)
  BY <1>2, Navigates
<1>3. CASE HubPays \/ Back \/ \E t \in Targets : Elsewhere(t)
  BY <1>3, World
<1>4. ASSUME NEW j \in Jobs, Reload(j) \/ HubReturns(j) PROVE CheckoutInv'
  BY <1>4, Returns
<1>5. ASSUME NEW j \in Jobs, Restored(j) \/ RestoreFails(j) \/ NotPayable(j) PROVE CheckoutInv'
  BY <1>5, Fetches
<1>6. ASSUME NEW j \in Jobs, TryAgain(j) \/ PressPurchase(j) PROVE CheckoutInv'
  BY <1>6, TriesAgain, Presses
<1>7. ASSUME NEW j \in Jobs, SubmitKnown(j) \/ ReportCancelled(j) \/ AwaitOther(j) PROVE CheckoutInv'
  BY <1>7, SubmitsKnown, Waits
<1>8. ASSUME NEW j \in Jobs, OpenWallet(j) \/ Redirect(j) \/ RecoverInstead(j) PROVE CheckoutInv'
  BY <1>8, Opens, Redirects
<1>9. ASSUME NEW j \in Jobs, WalletPays(j) \/ WalletRefuses(j) PROVE CheckoutInv'
  BY <1>9, WalletAnswers, Refuses
<1>10. ASSUME NEW j \in Jobs, Answer(j) \/ Accepted(j) \/ Refused(j) PROVE CheckoutInv'
  BY <1>10, Answers, Submissions
<1> QED BY <1>1, <1>2, <1>3, <1>4, <1>5, <1>6, <1>7, <1>8, <1>9, <1>10 DEF Next

\* Only a job that found no hash asks for another payment.
LEMMA Asks ==
  ASSUME CheckoutInv, CheckoutInv', [Next]_vars, NEW t \in Targets,
         \/ Open /\ page' = "hub" /\ slot'.target = t
         \/ \E j \in Jobs : jobs[j].step # "wallet" /\ jobs'[j].step = "wallet" /\ jobs'[j].target = t
  PROVE  \E j \in Jobs : Prepared(j) /\ Known(Paying(j)) = None /\ Paying(j).target = t
<1>1. CASE Open /\ page' = "hub" /\ slot'.target = t
  <2>1. PICK j \in Jobs : Redirect(j)
    BY <1>1 DEF Open, Next, vars, Navigate, Reload, Load, Restored, RestoreFails, TryAgain, PressPurchase,
       NotPayable, SubmitKnown, ReportCancelled, AwaitOther, OpenWallet, RecoverInstead, WalletPays,
       WalletRefuses, HubReturns, Answer, Accepted, Refused, HubPays, Back, Elsewhere
  <2>2. Prepared(j) /\ Known(Paying(j)) = None /\ slot' = Stored(j)
    BY <2>1 DEF Redirect, Checkout
  <2> QED BY <1>1, <2>2 DEF Stored
<1>2. ASSUME NEW k \in Jobs, jobs[k].step # "wallet", jobs'[k].step = "wallet", jobs'[k].target = t
      PROVE  Prepared(k) /\ Known(Paying(k)) = None /\ Paying(k).target = t
  <2>1. module'.flight = k /\ module.flight # k /\ k # None /\ module \in Module
    BY <1>2, WebCheckoutAssumption DEF CheckoutInv, OnePrompt, TypeOK
  <2>2. ~\E c, b : module' = Fresh(c) \/ module' = module \/ module' = [module EXCEPT !.flight = None]
                  \/ module' = [module EXCEPT !.redirectStarted = b]
    BY <2>1 DEF Fresh, Module
  <2>3. PICK j \in Jobs : OpenWallet(j)
    BY <2>2 DEF Next, vars, Navigate, Reload, Load, Restored, Resume, RestoreFails, TryAgain, PressPurchase,
       NotPayable, SubmitKnown, ReportCancelled, AwaitOther, Redirect, RecoverInstead, WalletPays,
       WalletRefuses, HubReturns, Answer, Accepted, Refused, HubPays, Back, Elsewhere
  <2>4. /\ Prepared(j) /\ Known(Paying(j)) = None /\ module' = [module EXCEPT !.flight = j]
        /\ jobs' = [jobs EXCEPT ![j] = [Paying(j) EXCEPT !.step = "wallet"]]
    BY <2>3 DEF OpenWallet
  <2>5. j = k
    BY <2>1, <2>4 DEF Module
  <2>6. Paying(j) \in Job /\ jobs \in [Jobs -> Job]
    BY <2>4, Prepares DEF CheckoutInv, TypeOK
  <2>7. jobs'[k].target = Paying(j).target
    BY <2>4, <2>5, <2>6 DEF Job
  <2> QED BY <1>2, <2>4, <2>5, <2>7
<1> QED BY <1>1, <1>2

LEMMA NothingKept ==
  ASSUME CheckoutInv, NEW j \in Jobs, Prepared(j), Known(Paying(j)) = None
  PROVE  LET t == Paying(j).target IN
         /\ screen.target = t => screen.kept = None
         /\ Matches(t) => slot.hash = None /\ module.captured \notin Hashes
<1> DEFINE t == Paying(j).target
<1>1. None \notin Hashes
  BY WebCheckoutAssumption DEF Hashes
<1>2. Paying(j).hash = None
  BY DEF Known
<1>3. Matches(t) => slot.hash = None /\ module.captured \notin Hashes
  BY <1>1, <1>2 DEF Known, Recovered
<1>4. CASE Confirms(j)
  <2>1. screen.target \in Targets /\ Paying(j) = PayOf(screen.target)
    BY <1>4 DEF Confirms, Targets, Paying
  <2>2. screen.kept = None
    BY <1>2, <2>1, Pays
  <2> QED BY <1>3, <2>2
<1>5. CASE ~Confirms(j)
  <2>1. Paying(j) = jobs[j] /\ jobs[j].step \in {"received", "preparing"}
    BY <1>5 DEF Paying, Prepared
  <2>2. jobs[j].step = "preparing" /\ t \in Purchases
    BY <1>1, <1>2, <2>1 DEF CheckoutInv, JobsOK, Formed
  <2> QED BY <1>3, <2>2, WebCheckoutAssumption DEF CheckoutInv, Displayed
<1> QED BY <1>4, <1>5

\* Everything above holds in every state of the tab.
THEOREM SafetyInvariant == Spec => []CheckoutInv
BY StartInv, StepInv, PTL DEF Spec

\* The values stay what the pages and the storage can hold.
THEOREM TypeCorrect == Spec => []TypeOK
<1>1. CheckoutInv => TypeOK
  BY DEF CheckoutInv
<1> QED BY <1>1, SafetyInvariant, PTL

\* The wallet is asked for one payment at a time, and the job it answers is the
\* one that asked: paymentSubmitInFlight.
THEOREM OnePromptAtATime == Spec => []OnePrompt
<1>1. CheckoutInv => OnePrompt
  BY DEF CheckoutInv
<1> QED BY <1>1, SafetyInvariant, PTL

\* A hash is posted once, whoever holds it: hubPaymentSubmitOnce.
THEOREM PostedOnce == Spec => []SubmittedOnce
<1>1. CheckoutInv => SubmittedOnce
  BY DEF CheckoutInv
<1> QED BY <1>1, SafetyInvariant, PTL

\* A payment whose hash the tab still has is never made again: recoverHubPaymentHash
\* before sendNimiqPayment.
THEOREM NeverPaidAgain == Spec => KeptHashNotPaidAgain
<1> DEFINE PaysFor(t) == \/ Open /\ page' = "hub" /\ slot'.target = t
                         \/ \E j \in Jobs : jobs[j].step # "wallet" /\ jobs'[j].step = "wallet" /\ jobs'[j].target = t
           Unkept(t) == /\ screen.target = t => screen.kept = None
                        /\ Matches(t) => slot.hash = None /\ module.captured \notin Hashes
<1>1. ASSUME CheckoutInv, CheckoutInv', [Next]_vars, NEW t \in Targets, PaysFor(t)
      PROVE  Unkept(t)
  BY <1>1, Asks, NothingKept
<1>2. CheckoutInv /\ CheckoutInv' /\ [Next]_vars => [\A t \in Targets : PaysFor(t) => Unkept(t)]_vars
  <2> HIDE DEF PaysFor, Unkept
  <2> QED BY <1>1
<1> QED BY <1>2, SafetyInvariant, PTL DEF Spec, KeptHashNotPaidAgain

===============================================================================
