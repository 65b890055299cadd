------------------------------ MODULE WebCheckout ------------------------------
(***************************************************************************)
(* Paying in one tab of the web client: the event page and the payment      *)
(* request page, the transport they share, and the wallet.                  *)
(*                                                                         *)
(* In Nimiq Pay the wallet answers in the page.  In a browser the page goes  *)
(* to the Nimiq Hub and a later load of it finds the answer in the URL.  The *)
(* session storage survives a load of the page, module state does not; both *)
(* are shared by every payment of the tab.  An async function is a job; what *)
(* runs between two awaits, promise callbacks included, is one step.  The    *)
(* deployment, and so the network of the stored payment, is fixed.           *)
(***************************************************************************)
EXTENDS Naturals, Sequences, FiniteSets

CONSTANTS
  None,
  Cancelled,     \* the wallet's refusal, as the Hub hands it over
  Purchases,     \* ids of event purchases the API would return
  Requests,      \* public ids of payment requests
  Jobs,          \* bound: async functions under way
  MaxPaid        \* bound: transfers the wallet makes

Targets == Purchases \cup Requests
Hashes == 1..MaxPaid

ASSUME WebCheckoutAssumption ==
  /\ MaxPaid \in Nat
  /\ Purchases \cap Requests = {}
  /\ None \notin Targets \cup Jobs \cup Nat
  /\ Cancelled \notin Nat \cup {None}

VARIABLES
  host,      \* NimiqPaymentTransport
  page,      \* where the tab is
  screen,    \* the page component on display
  module,    \* module-level state of payment-transport.ts and nimiq.ts
  slot,      \* sessionStorage, PENDING_PAYMENT_KEY
  jobs,
  paid,      \* the transfers the wallet has made: paid[h] is what h was for
  server     \* the purchase or payment request, as the API reports it

vars == <<host, page, screen, module, slot, jobs, paid, server>>

Screen == [target : Targets \cup {None}, kept : Hashes \cup {None},   \* submittedHash
           view : {"loading", "ready", "busy", "rejected", "error", "done"}]

\* captured: the redirect result, kept for as long as the page is loaded;
\* flight: the job whose promise is paymentSubmitInFlight.
Module == [redirectStarted : BOOLEAN, captured : Hashes \cup {Cancelled, None}, flight : Jobs \cup {None}]
Slot == [target : Targets, hash : Hashes \cup {None}, submitted : BOOLEAN]

\* "taken": submitted, verifying, paid or confirmed; "dead": failed, expired or cancelled.
Record == [status : {"pending", "taken", "dead"}, hash : Hashes \cup {None}]

\* shown: its component is still mounted; accepted: the API's answer to the POST.
Job == [step : {"idle", "fetching", "preparing", "waiting", "wallet", "received", "posting", "joined", "answered"},
        op : {"restore", "pay"}, target : Targets \cup {None}, hash : Hashes \cup {None},
        shown : BOOLEAN, accepted : BOOLEAN]
Idle == [step |-> "idle", op |-> "pay", target |-> None, hash |-> None,
         shown |-> FALSE, accepted |-> FALSE]

Fresh(captured) == [redirectStarted |-> FALSE, captured |-> captured, flight |-> None]
Open == page = "app"

-------------------------------------------------------------------------------
\* What a step leaves on the screen, if the job's component is still there.

Show(job, view) == IF job.shown THEN [screen EXCEPT !.view = view] ELSE screen

\* The POST of a hash, shared by whoever asks for the same one (hubPaymentSubmitOnce).
MutantEachPosts(t, h) == FALSE
InFlight(t, h) ==
  \E k \in Jobs : jobs[k].step \in {"posting", "answered"} /\ jobs[k].target = t /\ jobs[k].hash = h
Submitting(job, h) ==
  [job EXCEPT !.step = IF InFlight(job.target, h) THEN "joined" ELSE "posting", !.hash = h]

\* The stored payment is for this resource.
Matches(t) == slot # None /\ slot.target = t

\* recoverHubPaymentHash, of a stored payment that matches.
MutantOnlyRedirect == module.captured
Recovered == IF slot.hash # None THEN slot.hash ELSE module.captured

\* Of the redirect results only a transaction is a hash; a cancellation throws.
IsTransaction(h) == h \in Hashes

-------------------------------------------------------------------------------
\* Pages.

Restore(t) == [Idle EXCEPT !.step = "fetching", !.op = "restore", !.target = t, !.shown = TRUE]
Mounted(t) == [target |-> t, kept |-> None, view |-> "loading"]

\* Client-side navigation, also back to the same page: the old component is
\* unmounted, what it started goes on.
Navigate(j, t) ==
  /\ Open
  /\ jobs[j].step = "idle"
  /\ screen' = Mounted(t)
  /\ jobs' = [k \in Jobs |-> IF k = j THEN Restore(t) ELSE [jobs[k] EXCEPT !.shown = FALSE]]
  /\ UNCHANGED <<host, page, module, slot, paid, server>>

\* A load of the document: nothing but the session storage is left of the page.
Load(j, t, captured) ==
  /\ page' = "app"
  /\ screen' = Mounted(t)
  /\ module' = Fresh(captured)
  /\ jobs' = [[k \in Jobs |-> Idle] EXCEPT ![j] = Restore(t)]

Reload(j) ==
  /\ Open
  /\ screen.target # None
  /\ Load(j, screen.target, None)
  /\ UNCHANGED <<host, slot, paid, server>>

\* resumeHubPaidResource, for a pending purchase or request.
ToResume(t) == IF Matches(t) /\ ~slot.submitted THEN Recovered ELSE None

Resume(j) ==
  LET t == jobs[j].target
      h == ToResume(t)
  IN
  \/ /\ ~IsTransaction(h)
     /\ screen' = Show(jobs[j], IF h = None THEN "ready" ELSE IF t \in Purchases THEN "rejected" ELSE "error")
     /\ module' = IF Matches(t) /\ ~slot.submitted THEN [module EXCEPT !.redirectStarted = FALSE] ELSE module
     /\ jobs' = [jobs EXCEPT ![j] = Idle]
     /\ UNCHANGED slot
  \/ /\ IsTransaction(h)    \* the request page is on display while it submits
     /\ screen' = IF t \in Requests THEN Show(jobs[j], "ready") ELSE screen
     /\ slot' = [slot EXCEPT !.hash = h]
     /\ jobs' = [jobs EXCEPT ![j] = Submitting(jobs[j], h)]
     /\ UNCHANGED module

\* The status has come: restore of the event page, boot of the request page.  A
\* purchase that is under way clears the stored payment, whatever it is for.
Restored(j) ==
  LET t == jobs[j].target IN
  /\ Open
  /\ jobs[j].step = "fetching"
  /\ IF jobs[j].shown /\ server[t].status = "pending"
     THEN Resume(j)
     ELSE /\ screen' = Show(jobs[j], "done")
          /\ slot' = IF jobs[j].shown /\ t \in Purchases /\ server[t].status = "taken" THEN None ELSE slot
          /\ jobs' = [jobs EXCEPT ![j] = Idle]
          /\ UNCHANGED module
  /\ UNCHANGED <<host, page, paid, server>>

RestoreFails(j) ==
  /\ Open
  /\ jobs[j].step = "fetching"
  /\ screen' = Show(jobs[j], "error")
  /\ jobs' = [jobs EXCEPT ![j] = Idle]
  /\ UNCHANGED <<host, page, module, slot, paid, server>>

\* "Try again": the event page restores once more, the request page only refetches.
TryAgain(j) ==
  LET t == screen.target IN
  /\ Open
  /\ screen.view = "error"
  /\ jobs[j].step = "idle"
  /\ IF t \in Purchases
     THEN screen' = Mounted(t) /\ jobs' = [jobs EXCEPT ![j] = Restore(t)]
     ELSE /\ screen' = [screen EXCEPT !.view = IF server[t].status = "pending" THEN "ready" ELSE "done"]
          /\ UNCHANGED jobs
  /\ UNCHANGED <<host, page, module, slot, paid, server>>

-------------------------------------------------------------------------------
\* Paying: handlePurchase asks the API first and goes no further unless it may
\* pay (for a dead purchase the API opens another one, which is another target);
\* confirmPay calls the transport at once.

PayOf(t) == [Idle EXCEPT !.target = t, !.hash = screen.kept, !.shown = TRUE]
MayPress(j) == Open /\ screen.view \in {"ready", "rejected"} /\ jobs[j].step = "idle"

PressPurchase(j) ==
  /\ MayPress(j)
  /\ screen.target \in Purchases
  /\ screen' = [screen EXCEPT !.view = "busy"]
  /\ jobs' = [jobs EXCEPT ![j] = [PayOf(screen.target) EXCEPT !.step = "preparing"]]
  /\ UNCHANGED <<host, page, module, slot, paid, server>>

NotPayable(j) ==
  /\ Open
  /\ jobs[j].step = "preparing"
  /\ \/ server[jobs[j].target].status # "pending" /\ screen' = Show(jobs[j], "done")
     \/ screen' = Show(jobs[j], "ready")
  /\ jobs' = [jobs EXCEPT ![j] = Idle]
  /\ UNCHANGED <<host, page, module, slot, paid, server>>

Confirms(j) == MayPress(j) /\ screen.target \in Requests
Prepared(j) ==
  \/ Confirms(j)
  \/ Open /\ jobs[j].step = "received"
  \/ Open /\ jobs[j].step = "preparing" /\ server[jobs[j].target].status = "pending"

\* The payment this step is about, and its page meanwhile.
Paying(j) == IF Confirms(j) THEN PayOf(screen.target) ELSE jobs[j]
Busy(j) == IF Confirms(j) THEN [screen EXCEPT !.view = "busy"] ELSE screen

\* A hash there is already: the one a failed submission left on the request
\* page or the wallet's, the stored one, or what the redirect brought.
Known(job) ==
  IF job.hash # None THEN job.hash ELSE IF Matches(job.target) THEN Recovered ELSE None

SubmitKnown(j) ==
  LET job == Paying(j) IN
  /\ Prepared(j)
  /\ IsTransaction(Known(job))
  /\ slot' = IF job.hash = None THEN [slot EXCEPT !.hash = Known(job)] ELSE slot
  /\ jobs' = [jobs EXCEPT ![j] = Submitting(job, Known(job))]
  /\ screen' = Busy(j)
  /\ UNCHANGED <<host, page, module, paid, server>>

\* The redirect brought a cancellation: that is what the payer is told.
ReportCancelled(j) ==
  /\ Prepared(j)
  /\ Known(Paying(j)) = Cancelled
  /\ screen' = Show(Paying(j), "rejected")
  /\ module' = [module EXCEPT !.redirectStarted = FALSE]
  /\ jobs' = [jobs EXCEPT ![j] = Idle]
  /\ UNCHANGED <<host, page, slot, paid, server>>

\* sendNimiqPayment while another payment is with the wallet: its promise.
MutantOwnFlight == FALSE
MustWait == module.flight # None

AwaitOther(j) ==
  /\ Prepared(j)
  /\ Known(Paying(j)) = None /\ MustWait
  /\ jobs' = [jobs EXCEPT ![j] = [Paying(j) EXCEPT !.step = "waiting"]]
  /\ screen' = Busy(j)
  /\ UNCHANGED <<host, page, module, slot, paid, server>>

OpenWallet(j) ==
  /\ Prepared(j)
  /\ Known(Paying(j)) = None /\ ~MustWait
  /\ host = "mini-app"
  /\ jobs' = [jobs EXCEPT ![j] = [Paying(j) EXCEPT !.step = "wallet"]]
  /\ module' = [module EXCEPT !.flight = j]
  /\ screen' = Busy(j)
  /\ UNCHANGED <<host, page, slot, paid, server>>

\* sendHubCheckoutPayment: the stored payment is replaced by this one.  The page
\* leaves, or the checkout throws.  After a redirect that did not unload the
\* page, the redirect result is asked for again first.
Checkout(j) ==
  /\ Prepared(j)
  /\ Known(Paying(j)) = None /\ ~MustWait
  /\ host = "hub"
Stored(j) == [target |-> Paying(j).target, hash |-> None, submitted |-> FALSE]

Redirect(j) ==
  /\ Checkout(j)
  /\ module.redirectStarted => module.captured = None
  /\ slot' = Stored(j)
  /\ jobs' = [jobs EXCEPT ![j] = Idle]
  /\ \/ /\ page' = "hub"
        /\ module' = [module EXCEPT !.redirectStarted = TRUE]
        /\ screen' = Busy(j)
     \/ /\ screen' = Show(Paying(j), "ready")
        /\ module' = [module EXCEPT !.redirectStarted = FALSE]
        /\ UNCHANGED page
  /\ UNCHANGED <<host, paid, server>>

RecoverInstead(j) ==
  /\ Checkout(j)
  /\ module.redirectStarted /\ module.captured # None
  /\ IF module.captured = Cancelled
     THEN /\ slot' = Stored(j)
          /\ screen' = Show(Paying(j), "rejected")
          /\ module' = [module EXCEPT !.redirectStarted = FALSE]
          /\ jobs' = [jobs EXCEPT ![j] = Idle]
     ELSE /\ slot' = [Stored(j) EXCEPT !.hash = module.captured]
          /\ jobs' = [jobs EXCEPT ![j] = Submitting(Paying(j), module.captured)]
          /\ screen' = Busy(j)
          /\ UNCHANGED module
  /\ UNCHANGED <<host, page, paid, server>>

-------------------------------------------------------------------------------
\* The wallet.

Behind == {k \in Jobs : jobs[k].step = "waiting"}

\* Nimiq Pay answers with a hash: the job that asked and whoever waits receive it.
WalletPays(j) ==
  LET h == Len(paid) + 1 IN
  /\ Open
  /\ jobs[j].step = "wallet"
  /\ h \in Hashes
  /\ paid' = Append(paid, jobs[j].target)
  /\ module' = [module EXCEPT !.flight = None]
  /\ jobs' = [k \in Jobs |-> IF k \in Behind \cup {j}
                             THEN [jobs[k] EXCEPT !.step = "received", !.hash = h] ELSE jobs[k]]
  /\ UNCHANGED <<host, page, screen, slot, server>>

WalletRefuses(j) ==
  /\ Open
  /\ jobs[j].step = "wallet"
  /\ module' = [module EXCEPT !.flight = None]
  /\ jobs' = [k \in Jobs |-> IF k \in Behind \cup {j} THEN Idle ELSE jobs[k]]
  /\ screen' = IF \E k \in Behind \cup {j} : jobs[k].shown
               THEN [screen EXCEPT !.view = "rejected"] ELSE screen
  /\ UNCHANGED <<host, page, slot, paid, server>>

\* The Hub pays or not, and the tab comes back: with the answer in the URL, with
\* none, or to the page as the browser kept it.
HubPays ==
  /\ page = "hub"
  /\ Len(paid) < MaxPaid
  /\ paid' = Append(paid, slot.target)
  /\ page' = "paid"
  /\ UNCHANGED <<host, screen, module, slot, jobs, server>>

HubReturns(j) ==
  /\ \/ page = "hub" /\ \E answer \in {Cancelled, None} : Load(j, screen.target, answer)
     \/ page = "paid" /\ \E answer \in {Len(paid), None} : Load(j, screen.target, answer)
  /\ UNCHANGED <<host, slot, paid, server>>

Back ==
  /\ page # "app"
  /\ page' = "app"
  /\ UNCHANGED <<host, screen, module, slot, jobs, paid, server>>

-------------------------------------------------------------------------------
\* Submission of a hash, and the API.

Consumed == {server[t].hash : t \in Targets}

\* The API takes a hash once, for a pending resource; the same one again is fine.
Answer(j) ==
  LET t == jobs[j].target
      h == jobs[j].hash
      taken == server[t].status = "pending" /\ h \notin Consumed
  IN
  /\ jobs[j].step = "posting"
  /\ server' = IF taken THEN [server EXCEPT ![t] = [status |-> "taken", hash |-> h]] ELSE server
  /\ jobs' = [jobs EXCEPT ![j].step = "answered",
                          ![j].accepted = taken \/ server[t] = [status |-> "taken", hash |-> h]]
  /\ UNCHANGED <<host, page, screen, module, slot, paid>>

\* The job that posted and those that joined it.
Posted(j) == {k \in Jobs : jobs[k].step \in {"answered", "joined", "posting"}
                           /\ jobs[k].target = jobs[j].target /\ jobs[k].hash = jobs[j].hash}
Settle(j) == jobs' = [k \in Jobs |-> IF k \in Posted(j) THEN Idle ELSE jobs[k]]
Shown(j, ops) == {k \in Posted(j) : jobs[k].shown /\ jobs[k].op \in ops}

\* markHubPaymentSubmitted marks whatever payment is stored by now.
Accepted(j) ==
  /\ Open
  /\ jobs[j].step = "answered" /\ jobs[j].accepted
  /\ slot' = IF slot = None THEN None ELSE [slot EXCEPT !.hash = jobs[j].hash, !.submitted = TRUE]
  /\ screen' = IF Shown(j, {"restore", "pay"}) = {} THEN screen
               ELSE [screen EXCEPT !.view = "done",
                                   !.kept = IF jobs[j].target \in Requests THEN jobs[j].hash ELSE @]
  /\ Settle(j)
  /\ UNCHANGED <<host, page, module, paid, server>>

\* A refusal or no answer.  Only the request page keeps the hash, for a retry
\* unless the API said the request is no longer payable.
Refused(j) ==
  LET t == jobs[j].target
      unpayable == t \in Requests /\ jobs[j].step = "answered" /\ ~jobs[j].accepted
  IN
  /\ Open
  /\ jobs[j].step \in {"posting", "answered"}
  /\ screen' = [screen EXCEPT
                   !.view = IF Shown(j, {"restore"}) # {} THEN "error"
                            ELSE IF Shown(j, {"pay"}) = {} THEN @
                            ELSE IF unpayable THEN "done" ELSE "ready",
                   !.kept = IF t \in Requests /\ Shown(j, {"pay"}) # {} THEN jobs[j].hash ELSE @]
  /\ Settle(j)
  /\ UNCHANGED <<host, page, module, slot, paid, server>>

\* Verification fails, or the hold or the request lapses.
Elsewhere(t) ==
  /\ server[t].status # "dead"
  /\ server' = [server EXCEPT ![t].status = "dead"]
  /\ UNCHANGED <<host, page, screen, module, slot, jobs, paid>>

-------------------------------------------------------------------------------
Init ==
  /\ host \in {"hub", "mini-app"}
  /\ page = "app"
  /\ screen = [target |-> None, kept |-> None, view |-> "done"]
  /\ module = Fresh(None)
  /\ slot = None
  /\ jobs = [j \in Jobs |-> Idle]
  /\ paid = <<>>
  /\ server = [t \in Targets |-> [status |-> "pending", hash |-> None]]

Next ==
  \/ \E j \in Jobs, t \in Targets : Navigate(j, t)
  \/ \E j \in Jobs :
       \/ Reload(j) \/ Restored(j) \/ RestoreFails(j) \/ TryAgain(j)
       \/ PressPurchase(j) \/ NotPayable(j) \/ SubmitKnown(j) \/ ReportCancelled(j) \/ AwaitOther(j)
       \/ OpenWallet(j) \/ Redirect(j) \/ RecoverInstead(j)
       \/ WalletPays(j) \/ WalletRefuses(j) \/ HubReturns(j)
       \/ Answer(j) \/ Accepted(j) \/ Refused(j)
  \/ HubPays \/ Back
  \/ \E t \in Targets : Elsewhere(t)

Spec == Init /\ [][Next]_vars

-------------------------------------------------------------------------------
TypeOK ==
  /\ host \in {"hub", "mini-app"}
  /\ page \in {"app", "hub", "paid"}
  /\ screen \in Screen
  /\ module \in Module
  /\ slot \in Slot \cup {None}
  /\ jobs \in [Jobs -> Job]
  /\ paid \in Seq(Targets) /\ Len(paid) <= MaxPaid
  /\ server \in [Targets -> Record]

\* Whatever pages and payments overlap, the wallet is asked for one payment at
\* a time (paymentSubmitInFlight), and the job it answers is the one that waits.
OnePrompt ==
  \A j \in Jobs : jobs[j].step = "wallet" <=> module.flight = j

\* "duplicate Hub callback cannot submit twice" (payment-transport.test.ts:318):
\* a restore, a payment and a retry that hold the same hash make one POST of it.
SubmittedOnce ==
  \A j, k \in Jobs :
    /\ jobs[j].step \in {"posting", "answered"} /\ jobs[k].step \in {"posting", "answered"}
    /\ jobs[j].target = jobs[k].target /\ jobs[j].hash = jobs[k].hash
    => j = k

\* A payment whose hash the tab still has, stored, brought by the redirect or
\* kept on the page, is submitted and never made again.
KeptHashNotPaidAgain ==
  [][\A t \in Targets :
       \/ Open /\ page' = "hub" /\ slot'.target = t
       \/ \E j \in Jobs : jobs[j].step # "wallet" /\ jobs'[j].step = "wallet" /\ jobs'[j].target = t
       => /\ screen.target = t => screen.kept = None
          /\ Matches(t) => slot.hash = None /\ module.captured \notin Hashes]_vars
===============================================================================
