------------------------------- MODULE WebSession -------------------------------
(***************************************************************************)
(* Signing in, in one tab of the web client: the provider component and      *)
(* its dialog, the sign-in flow of lib/auth/nimiq.ts, the wallet and the      *)
(* part of the API it calls.                                                 *)
(*                                                                         *)
(* In a browser the page goes to the Nimiq Hub twice, to choose an address    *)
(* and to sign a challenge for it; a later load of the page finds the answer *)
(* in its URL.  The session storage survives a load, module state and React  *)
(* state do not, unless Back brings the page itself back.  What runs between *)
(* two awaits is one step, and a load ends when resumeHubAuthFlow first      *)
(* waits.  A sign-in dialog can be opened at any time, so isOpen is left out. *)
(***************************************************************************)
EXTENDS Naturals, FiniteSets

CONSTANTS
  None,
  Wallets,         \* addresses of the person's wallet
  Networks,        \* networks a deployment may be for
  MaxChallenges,   \* bound: challenges the API issues
  Jobs             \* bound: async functions under way

Challenges == 1..MaxChallenges

ASSUME WebSessionAssumption ==
  /\ MaxChallenges \in Nat
  /\ None \notin Wallets \cup Networks \cup Nat

VARIABLES
  deployed,  \* the network of the API and of the bundle a load gets
  place,     \* where the tab is: None in the application, or a request of the Hub
  past,      \* Hub requests in the history of the tab
  page,      \* React state of the provider, and the network of its bundle
  module,    \* module state of nimiq.ts
  leaving,   \* the Hub request the page is navigating to
  store,     \* the session storage
  jobs,
  issued,    \* the API's challenges
  cookie,    \* the wallet the session cookie signs in
  host,      \* NimiqAuthTransport
  chosenOn     \* for a property alone: the network an address was chosen for, and not used yet

vars == <<deployed, place, past, page, module, leaving, store, jobs, issued, cookie, host, chosenOn>>
world == <<deployed, issued, cookie, host>>

Stages == {"restoring-session", "idle", "requesting-wallet", "selecting-account", "requesting-challenge",
           "awaiting-signature", "requesting-signature", "authenticated"}
Pending == [address : Wallets, challenge : Challenges, network : Networks]
Continuation == [phase : {"choose-address", "request-challenge", "sign-challenge"},
                 addressSelected : BOOLEAN, network : Networks]

\* What the page asks of the Hub, and what a load finds in its URL.
HubRequest == [command : {"choose-address"}] \cup [command : {"sign-message"}, pending : Pending]
Redirected == [type : {"empty", "cancelled", "error", "payment"}] \cup
              [type : {"address"}, address : Wallets] \cup
              [type : {"signature"}, address : Wallets, challenge : Challenges]

Page == [network : Networks, stage : Stages, session : Wallets \cup {None},
         pendingHub : Pending \cup {None}, accounts : SUBSET Wallets]

\* signRequests counts the sign requests of a load, for the property alone.
Module == [captured : Redirected, signStarted : BOOLEAN, signRequests : 0..2]

Selected == [address : Wallets, network : Networks]
Store == [pending : Pending \cup {None}, selected : Selected \cup {None},
          continuation : Continuation \cup {None}, user : Wallets \cup {None}]

\* signed: the challenge the signature is for.
Job == [step : {"idle", "restoring", "resuming", "challenge", "verify", "miniWallet", "miniSign"},
        address : Wallets \cup {None}, challenge : Challenges \cup {None}, signed : Challenges \cup {None},
        answer : {"none", "accepted", "failed"}]
Idle == [step |-> "idle", address |-> None, challenge |-> None, signed |-> None, answer |-> "none"]

Challenge == [address : Wallets, network : Networks, status : {"open", "used", "expired"}]

ASSUME NoneIsNoRecord == None \notin Pending \cup Selected \cup HubRequest \cup Challenge

Empty == [type |-> "empty"]
Open == place = None

-------------------------------------------------------------------------------
\* The session storage.

\* isCurrentPendingHubAuthentication: of this version, network and Hub.
MutantKeepsForeign(pending, network) == pending # None
IsCurrent(pending, network) == pending # None /\ pending.network = network

\* discardStaleHubAuthState: what another network left behind.  A foreign
\* challenge takes the selected address and the continuation with it.
DiscardStale(s, network) ==
  LET foreign == s.pending # None /\ ~IsCurrent(s.pending, network)
      Ours(x) == IF x # None /\ ~foreign /\ x.network = network THEN x ELSE None
  IN [s EXCEPT !.pending = IF foreign THEN None ELSE @,
               !.selected = Ours(@), !.continuation = Ours(@)]

SelectAddress(s, address, network) == [s EXCEPT !.selected = [address |-> address, network |-> network]]
Continue(s, phase, selected, network) ==
  [s EXCEPT !.continuation = [phase |-> phase, addressSelected |-> selected, network |-> network]]

\* persistPendingHubAuthentication and persistSelectedHubAddress.
KeepPending(s, p, network) ==
  SelectAddress(Continue([s EXCEPT !.pending = [p EXCEPT !.network = network]],
                         "sign-challenge", TRUE, network), p.address, network)

\* clearPendingHubAuthentication
ClearPending(s) == [s EXCEPT !.pending = None, !.selected = None, !.continuation = None]

\* A redirect result is consumed at the load; an address is stored at once, for
\* the next load will not find it in the URL (interpretHubRpcResult).
MutantOnlyInMemory(s, result, network) == s
Capture(s, result, network) ==
  IF result.type = "address" THEN SelectAddress(s, result.address, network) ELSE s

-------------------------------------------------------------------------------
\* Loading the page, and leaving it for the Hub.

Load(result, s) ==
  /\ page' = [network |-> deployed, stage |-> "restoring-session", session |-> None,
              pendingHub |-> None, accounts |-> {}]
  /\ module' = [captured |-> result, signStarted |-> FALSE, signRequests |-> 0]
  /\ leaving' = None
  /\ place' = None
  /\ store' = Capture(DiscardStale(s, deployed), result, deployed)
  /\ chosenOn' = IF result.type = "address" THEN deployed ELSE IF chosenOn = deployed THEN chosenOn ELSE None
  /\ \E j \in Jobs : jobs' = [[k \in Jobs |-> Idle] EXCEPT ![j].step = "restoring"]

Reload ==
  /\ Open
  /\ Load(Empty, store)
  /\ UNCHANGED <<world, past>>

\* The way back from a checkout of WebCheckout.
PaymentReturns ==
  /\ Open
  /\ Load([type |-> "payment"], store)
  /\ UNCHANGED <<world, past>>

Visit(request) ==
  /\ place' = request
  /\ past' = past \cup {request}
  /\ leaving' = None
  /\ UNCHANGED <<world, page, module, store, jobs, chosenOn>>

Leave == Open /\ leaving # None /\ Visit(leaving)

\* Back or Forward to a page of the Hub that has been open before.
RevisitHub == Open /\ \E request \in past : Visit(request)

HubReturns ==
  /\ ~Open
  /\ \E result \in Redirected :
       /\ CASE result.type = "address" -> place.command = "choose-address"
            [] result.type = "signature" ->
                 place.command = "sign-message" /\ result.challenge = place.pending.challenge
            [] OTHER -> result.type \in {"cancelled", "error"}
       /\ Load(result, store)
  /\ UNCHANGED <<world, past>>

\* Back, with the page loaded again.
BackReloads ==
  /\ ~Open
  /\ Load(Empty, store)
  /\ UNCHANGED <<world, past>>

HasPending == IsCurrent(store.pending, page.network)
AfterShow(stage) ==
  IF stage \notin {"requesting-wallet", "requesting-signature"} THEN stage
  ELSE IF HasPending THEN "awaiting-signature" ELSE "idle"

\* pageshow: after the load event, which the flow may have outrun, and when Back
\* brings the page back as it was left.
PageShow ==
  /\ place' = None
  /\ page' = [page EXCEPT !.stage = AfterShow(@)]
  /\ UNCHANGED <<world, past, module, leaving, store, jobs, chosenOn>>

-------------------------------------------------------------------------------
\* Signing with the Hub.

\* showError
ErrorStage(s) == IF IsCurrent(s.pending, page.network) THEN "awaiting-signature" ELSE "idle"

Done(j) == jobs' = [jobs EXCEPT ![j] = Idle]
Fail(j) ==
  /\ page' = [page EXCEPT !.stage = ErrorStage(store)]
  /\ Done(j)
  /\ UNCHANGED <<module, leaving, store>>

\* completeHubAuthentication starts one navigation per load of the page, unless
\* the Hub client throws; shown is what an error leaves of pendingHub.
MutantAsksAgain == FALSE
SignUnderWay == module.signStarted

Sign(p, shown) ==
  /\ store' = KeepPending(store, p, page.network)
  /\ \/ /\ page' = [page EXCEPT !.pendingHub = p, !.stage = "requesting-signature"]
        /\ IF SignUnderWay
           THEN UNCHANGED <<module, leaving>>
           ELSE /\ module' = [module EXCEPT !.signStarted = TRUE,
                                            !.signRequests = IF @ < 2 THEN @ + 1 ELSE @]
                /\ leaving' = [command |-> "sign-message", pending |-> p]
     \/ /\ ~SignUnderWay
        /\ page' = [page EXCEPT !.pendingHub = shown, !.stage = "awaiting-signature"]
        /\ UNCHANGED <<module, leaving>>

\* continueAfterAddress: the stored challenge for this address, or a new one.
ContinueAfterAddress(j, address) ==
  IF HasPending /\ store.pending.address = address
  THEN Sign(store.pending, None) /\ Done(j)
  ELSE /\ store' = Continue(store, "request-challenge", TRUE, page.network)
       /\ jobs' = [jobs EXCEPT ![j] = [Idle EXCEPT !.step = "challenge", !.address = address]]
       /\ UNCHANGED <<page, module, leaving>>

\* What start has put on display before it signs; the flow that resumes a load, which
\* leaves the stage alone until it ends, displays only what it returns.
ShownFirst(p) == IF page.stage = "requesting-challenge" THEN p ELSE None

ChallengeCreated(j) ==
  LET address == jobs[j].address IN
  /\ Open
  /\ jobs[j].step = "challenge"
  /\ page.network = deployed
  /\ \E c \in Challenges :
       /\ issued[c] = None
       /\ issued' = [issued EXCEPT ![c] = [address |-> address, network |-> deployed, status |-> "open"]]
       /\ IF host = "hub"
          THEN LET p == [address |-> address, challenge |-> c, network |-> page.network]
               IN  Sign(p, ShownFirst(p)) /\ Done(j)
          ELSE /\ jobs' = [jobs EXCEPT ![j].step = "miniSign", ![j].challenge = c]
               /\ UNCHANGED <<page, module, leaving, store>>
  /\ UNCHANGED <<deployed, cookie, host, place, past, chosenOn>>

\* No answer, or another network's: the API refuses it, and so does the client.
ChallengeFails(j) ==
  /\ Open
  /\ jobs[j].step = "challenge"
  /\ Fail(j)
  /\ UNCHANGED <<world, place, past, chosenOn>>

-------------------------------------------------------------------------------
\* resumeHubAuthFlow, once per load.

RestoreAnswered(j) ==
  /\ Open
  /\ jobs[j].step = "restoring"
  /\ store' = [store EXCEPT !.user = cookie]    \* a lost session clears what was stored
  /\ IF cookie # None
     THEN page' = [page EXCEPT !.session = cookie, !.stage = "authenticated"] /\ Done(j)
     ELSE jobs' = [jobs EXCEPT ![j].step = "resuming"] /\ UNCHANGED page
  /\ UNCHANGED <<world, place, past, module, leaving, chosenOn>>

RestoreFails(j) ==
  /\ Open
  /\ jobs[j].step = "restoring"
  /\ jobs' = [jobs EXCEPT ![j].step = "resuming"]
  /\ UNCHANGED <<world, place, past, page, module, leaving, store, chosenOn>>

Rest(j, pending, stage) ==
  /\ page' = [page EXCEPT !.pendingHub = pending, !.stage = stage]
  /\ Done(j)
  /\ UNCHANGED <<module, leaving, store>>

Verify(j, address, challenge, signed) ==
  /\ jobs' = [jobs EXCEPT ![j] = [step |-> "verify", address |-> address, challenge |-> challenge,
                                  signed |-> signed, answer |-> "none"]]
  /\ UNCHANGED <<page, module, leaving, store>>

\* Nothing in the URL: go on from what is stored.
ResumeFromStore(j) ==
  IF HasPending
  THEN IF store.continuation # None /\ store.continuation.phase = "sign-challenge" /\ store.continuation.addressSelected
       THEN Sign(store.pending, None) /\ Done(j)
       ELSE Rest(j, store.pending, "awaiting-signature")
  ELSE IF store.selected # None THEN ContinueAfterAddress(j, store.selected.address)
  ELSE Rest(j, None, "idle")

\* The signature must be for the stored address (finishHubSignature).
ResumeSignature(j, signature) ==
  IF HasPending /\ signature.address = store.pending.address
  THEN Verify(j, signature.address, store.pending.challenge, signature.challenge)
  ELSE Fail(j)

Resume(j) ==
  LET result == module.captured IN
  /\ Open
  /\ jobs[j].step = "resuming"
  /\ \/ result.type = "payment" /\ Rest(j, None, "idle")
     \/ result.type = "error" /\ Fail(j)
     \/ result.type = "cancelled" /\ Rest(j, store.pending, ErrorStage(store))
     \/ result.type = "address" /\ ContinueAfterAddress(j, result.address)
     \/ result.type = "signature" /\ ResumeSignature(j, result)
     \/ result.type = "empty" /\ ResumeFromStore(j)
     \/ /\ result.type = "empty"    \* checkRedirectResponse throws
        /\ IF store.selected # None THEN ContinueAfterAddress(j, store.selected.address) ELSE Fail(j)
  /\ UNCHANGED <<world, place, past, chosenOn>>

-------------------------------------------------------------------------------
\* The dialog.

Start(j) ==
  /\ Open
  /\ jobs[j].step = "idle"
  /\ page.stage = "idle" /\ page.pendingHub = None
  /\ \/ HasPending /\ Sign(store.pending, store.pending) /\ UNCHANGED jobs
     \/ /\ ~HasPending
        /\ store.selected # None
        /\ page' = [page EXCEPT !.stage = "requesting-challenge"]
        /\ jobs' = [jobs EXCEPT ![j] = [Idle EXCEPT !.step = "challenge", !.address = store.selected.address]]
        /\ UNCHANGED <<module, leaving, store>>
     \/ /\ ~HasPending
        /\ store.selected = None
        /\ host = "hub"    \* beginHubAuthentication
        /\ store' = Continue(store, "choose-address", FALSE, page.network)
        /\ \/ /\ page' = [page EXCEPT !.stage = "requesting-wallet"]
              /\ leaving' = [command |-> "choose-address"]
           \/ UNCHANGED <<page, leaving>>    \* the Hub client throws
        /\ UNCHANGED <<module, jobs>>
     \/ /\ host = "mini-app"
        /\ page' = [page EXCEPT !.stage = "requesting-wallet"]
        /\ jobs' = [jobs EXCEPT ![j].step = "miniWallet"]
        /\ UNCHANGED <<module, leaving, store>>
  /\ UNCHANGED <<world, place, past, chosenOn>>

SignWithHub ==
  /\ Open
  /\ page.pendingHub # None
  /\ page.stage # "requesting-signature"
  /\ Sign(page.pendingHub, page.pendingHub)
  /\ UNCHANGED <<world, place, past, jobs, chosenOn>>

\* requestMiniAppWallet
WalletAnswered(j) ==
  /\ Open
  /\ jobs[j].step = "miniWallet"
  /\ \/ \E accounts \in (SUBSET Wallets) \ {{}} :
          /\ page' = [page EXCEPT !.accounts = accounts,
                         !.stage = IF Cardinality(accounts) > 1 THEN "selecting-account" ELSE "requesting-challenge"]
          /\ IF Cardinality(accounts) > 1 THEN Done(j)
             ELSE jobs' = [jobs EXCEPT ![j] = [Idle EXCEPT !.step = "challenge",
                                                          !.address = CHOOSE a \in accounts : TRUE]]
          /\ UNCHANGED <<module, leaving, store>>
     \/ Fail(j)
  /\ UNCHANGED <<world, place, past, chosenOn>>

SignWithMiniApp(j, address) ==
  /\ Open
  /\ jobs[j].step = "idle"
  /\ page.stage = "selecting-account" /\ address \in page.accounts
  /\ page' = [page EXCEPT !.stage = "requesting-challenge"]
  /\ jobs' = [jobs EXCEPT ![j] = [Idle EXCEPT !.step = "challenge", !.address = address]]
  /\ UNCHANGED <<world, place, past, module, leaving, store, chosenOn>>

MiniAppSigned(j) ==
  /\ Open
  /\ jobs[j].step = "miniSign"
  /\ \/ Verify(j, jobs[j].address, jobs[j].challenge, jobs[j].challenge)
     \/ Fail(j)
  /\ UNCHANGED <<world, place, past, chosenOn>>

-------------------------------------------------------------------------------
\* The API verifies; its answer may be lost, and a page that has been left does
\* not hear it.

Acceptable(job) ==
  /\ job.signed = job.challenge
  /\ issued[job.challenge].status = "open"
  /\ issued[job.challenge].network = deployed

ApiVerifies(j) ==
  LET job == jobs[j] IN
  /\ job.step = "verify" /\ job.answer = "none"
  /\ \/ /\ Acceptable(job)
        /\ issued' = [issued EXCEPT ![job.challenge].status = "used"]
        /\ \/ /\ cookie' = job.address
              /\ jobs' = [jobs EXCEPT ![j].answer = "accepted"]
           \/ /\ UNCHANGED cookie
              /\ jobs' = [jobs EXCEPT ![j].answer = "failed"]
     \/ /\ jobs' = [jobs EXCEPT ![j].answer = "failed"]
        /\ UNCHANGED <<issued, cookie>>
  /\ UNCHANGED <<deployed, host, place, past, page, module, leaving, store, chosenOn>>

\* After the Hub the provider shows the session, and stores nothing of it; in
\* Nimiq Pay it stores the session and loads the page again.
Verified(j) ==
  LET job == jobs[j] IN
  /\ Open
  /\ job.step = "verify"
  /\ \/ /\ job.answer = "failed"
        /\ Fail(j)
        /\ UNCHANGED <<place, chosenOn>>
     \/ /\ job.answer = "accepted"
        /\ host = "hub"
        /\ store' = ClearPending(store)
        /\ page' = [page EXCEPT !.session = job.address, !.stage = "authenticated"]
        /\ chosenOn' = None
        /\ Done(j)
        /\ UNCHANGED <<place, module, leaving>>
     \/ /\ job.answer = "accepted"
        /\ host = "mini-app"
        /\ Load(Empty, [store EXCEPT !.user = job.address])
  /\ UNCHANGED <<world, past>>

\* A refused or lost logout request is ignored.
SignOut ==
  /\ Open
  /\ page.stage = "authenticated"
  /\ cookie' \in {None, cookie}
  /\ Load(Empty, [store EXCEPT !.user = None])
  /\ UNCHANGED <<deployed, issued, host, past>>

-------------------------------------------------------------------------------
\* The world.

ChallengeExpires(c) ==
  /\ issued[c] # None /\ issued[c].status = "open"
  /\ issued' = [issued EXCEPT ![c].status = "expired"]
  /\ UNCHANGED <<deployed, cookie, host, place, past, page, module, leaving, store, jobs, chosenOn>>

SessionEnds ==
  /\ cookie' = None
  /\ UNCHANGED <<deployed, issued, host, place, past, page, module, leaving, store, jobs, chosenOn>>

\* Bundle and API together, for another network.
Redeploy ==
  /\ deployed' \in Networks \ {deployed}
  /\ UNCHANGED <<issued, cookie, host, place, past, page, module, leaving, store, jobs, chosenOn>>

Init ==
  /\ deployed \in Networks
  /\ host \in {"hub", "mini-app"}
  /\ place = None
  /\ past = {}
  /\ page = [network |-> deployed, stage |-> "restoring-session", session |-> None,
             pendingHub |-> None, accounts |-> {}]
  /\ module = [captured |-> Empty, signStarted |-> FALSE, signRequests |-> 0]
  /\ leaving = None
  /\ store = [pending |-> None, selected |-> None, continuation |-> None, user |-> None]
  /\ \E j \in Jobs : jobs = [[k \in Jobs |-> Idle] EXCEPT ![j].step = "restoring"]
  /\ issued = [c \in Challenges |-> None]
  /\ cookie = None
  /\ chosenOn = None

Flow(j) ==
  \/ RestoreAnswered(j) \/ RestoreFails(j) \/ Resume(j)
  \/ ChallengeCreated(j) \/ ChallengeFails(j)
  \/ WalletAnswered(j) \/ MiniAppSigned(j)
  \/ ApiVerifies(j) \/ Verified(j)

Tab ==
  \/ Reload \/ PaymentReturns \/ Leave \/ RevisitHub \/ HubReturns \/ BackReloads \/ PageShow
  \/ SignWithHub \/ SignOut
  \/ \E j \in Jobs : Start(j) \/ \E a \in Wallets : SignWithMiniApp(j, a)

World == SessionEnds \/ Redeploy \/ \E c \in Challenges : ChallengeExpires(c)

Next == Tab \/ World \/ \E j \in Jobs : Flow(j)

Spec == Init /\ [][Next]_vars

-------------------------------------------------------------------------------
TypeOK ==
  /\ deployed \in Networks
  /\ place \in HubRequest \cup {None}
  /\ past \subseteq HubRequest
  /\ page \in Page
  /\ module \in Module
  /\ leaving \in HubRequest \cup {None}
  /\ store \in Store
  /\ jobs \in [Jobs -> Job]
  /\ issued \in [Challenges -> Challenge \cup {None}]
  /\ cookie \in Wallets \cup {None}
  /\ host \in {"hub", "mini-app"}
  /\ chosenOn \in Networks \cup {None}

\* A load of the page asks the Hub for one signature at most, whoever starts it:
\* the flow that resumes, or the person when pageshow has set the button free
\* again (hubSignRedirectStarted).
OneSignRequest == module.signRequests <= 1

\* What the Hub is asked to sign was issued for the network of the page, also
\* when the deployment moved to another one between two loads.
SignsForThisNetwork ==
  leaving # None /\ leaving.command = "sign-message" =>
    issued[leaving.pending.challenge].network = page.network

\* Who has chosen an address is not sent to choose one again before it was used,
\* however often the page is loaded, left or fails on the way ("refresh after
\* chooseAddress keeps continuation and can start signing").
ChoosesOnce ==
  leaving # None /\ leaving.command = "choose-address" => chosenOn # page.network

===============================================================================
