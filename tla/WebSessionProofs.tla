---------------------------- MODULE WebSessionProofs ----------------------------
(***************************************************************************)
(* Theorems of WebSession for any addresses, networks and challenges, and   *)
(* any number of functions under way.                                       *)
(***************************************************************************)
EXTENDS WebSession, TLAPS

-------------------------------------------------------------------------------
(***************************************************************************)
(* The invariant: a function knows its address and its challenge; what the  *)
(* tab keeps is of the page's network, as the API issued it; the flag tells *)
(* whether the Hub has been asked; an address that was chosen is stored.    *)
(***************************************************************************)

Shaped ==
  \A j \in Jobs :
    /\ jobs[j].step \in {"challenge", "miniSign", "verify"} => jobs[j].address \in Wallets
    /\ jobs[j].step \in {"miniSign", "verify"} =>
         /\ jobs[j].challenge \in Challenges
         /\ issued[jobs[j].challenge] # None

Ours(p) ==
  /\ p.network = page.network
  /\ issued[p.challenge] # None
  /\ issued[p.challenge].network = p.network

Kept ==
  /\ store.pending # None => Ours(store.pending)
  /\ store.selected # None => store.selected.network = page.network
  /\ page.pendingHub # None => Ours(page.pendingHub)
  /\ leaving # None /\ leaving.command = "sign-message" => Ours(leaving.pending)

OneAsked == module.signRequests <= 1 /\ (~module.signStarted => module.signRequests = 0)

Known ==
  /\ chosenOn \in {None, page.network}
  /\ chosenOn # None => store.pending # None \/ store.selected # None
  /\ leaving # None /\ leaving.command = "choose-address" => chosenOn = None

SessionInv == TypeOK /\ Shaped /\ Kept /\ OneAsked /\ Known

\* The API only adds challenges, and does not change whose and where they are.
Grows ==
  /\ issued' \in [Challenges -> Challenge \cup {None}]
  /\ \A c \in Challenges : issued[c] # None =>
       issued'[c] # None /\ issued'[c].network = issued[c].network

LEMMA SameIssued == ASSUME TypeOK, UNCHANGED issued PROVE Grows
BY DEF TypeOK, Grows

\* A load keeps what is of the network deployed, and nothing else.
LEMMA Loads ==
  ASSUME SessionInv, NEW result \in Redirected, NEW s \in Store, Load(result, s),
         s.pending = store.pending, s.selected = store.selected,
         UNCHANGED <<deployed, issued>>
  PROVE  /\ page' \in Page /\ module' \in Module /\ leaving' = None /\ place' = None
         /\ store' \in Store /\ jobs' \in [Jobs -> Job] /\ chosenOn' \in Networks \cup {None}
         /\ Shaped' /\ Kept' /\ OneAsked' /\ Known'
<1> DEFINE t == DiscardStale(s, deployed)
<1>1. /\ deployed \in Networks /\ chosenOn \in Networks \cup {None}
      /\ store.pending \in Pending \cup {None} /\ store.selected \in Selected \cup {None}
  BY DEF SessionInv, TypeOK, Store
<1>2. /\ page' = [network |-> deployed, stage |-> "restoring-session", session |-> None,
                  pendingHub |-> None, accounts |-> {}]
      /\ module' = [captured |-> result, signStarted |-> FALSE, signRequests |-> 0]
      /\ leaving' = None /\ place' = None
      /\ store' = Capture(t, result, deployed)
      /\ chosenOn' = IF result.type = "address" THEN deployed ELSE IF chosenOn = deployed THEN chosenOn ELSE None
  BY DEF Load
<1>3. page' \in Page /\ module' \in Module
  BY <1>1, <1>2 DEF Page, Module, Stages
<1>4. jobs' \in [Jobs -> Job] /\ \A j \in Jobs : jobs'[j].step \in {"idle", "restoring"}
  <2>1. PICK j \in Jobs : jobs' = [[k \in Jobs |-> Idle] EXCEPT ![j].step = "restoring"]
    BY DEF Load
  <2> QED BY <2>1 DEF Idle, Job
<1>5. /\ t \in Store
      /\ t.pending # None => t.pending = store.pending /\ t.pending.network = deployed
      /\ t.selected # None => t.selected.network = deployed
      /\ store.pending # None /\ store.pending.network = deployed => t.pending = store.pending
      /\ (store.pending # None => store.pending.network = deployed) /\ store.selected # None
         /\ store.selected.network = deployed => t.selected = store.selected
  BY <1>1 DEF DiscardStale, IsCurrent, Store, Selected, Continuation
<1>6. CASE result.type = "address"
  <2>1. result.address \in Wallets
    BY <1>6 DEF Redirected
  <2>2. store' = [t EXCEPT !.selected = [address |-> result.address, network |-> deployed]]
    BY <1>2, <1>6 DEF Capture, SelectAddress
  <2>3. [address |-> result.address, network |-> deployed] \in Selected
    BY <1>1, <2>1 DEF Selected
  <2>4. /\ store' \in Store /\ store'.pending = t.pending
        /\ store'.selected # None /\ store'.selected.network = deployed
    BY <1>5, <2>2, <2>3, NoneIsNoRecord DEF Store
  <2>5. Kept'
    BY <1>2, <1>5, <2>4 DEF SessionInv, Kept, Ours
  <2> QED BY <1>1, <1>2, <1>3, <1>4, <1>6, <2>4, <2>5 DEF Shaped, OneAsked, Known
<1>7. CASE result.type # "address"
  <2>1. store' = t
    BY <1>2, <1>7 DEF Capture
  <2>2. Kept'
    BY <1>2, <1>5, <2>1 DEF SessionInv, Kept, Ours
  <2>3. Known'
    <3>1. CASE chosenOn # deployed
      BY <1>2, <1>7, <3>1 DEF Known
    <3>2. CASE chosenOn = deployed
      <4>1. deployed # None
        BY <1>1, WebSessionAssumption
      <4>2. chosenOn' = deployed /\ page.network = deployed
            /\ (store.pending # None \/ store.selected # None)
        BY <1>2, <1>7, <3>2, <4>1 DEF SessionInv, Known
      <4>3. t.pending # None \/ t.selected # None
        BY <1>5, <4>2 DEF SessionInv, Kept, Ours
      <4> QED BY <1>2, <2>1, <4>2, <4>3 DEF Known
    <3> QED BY <3>1, <3>2
  <2> QED BY <1>1, <1>2, <1>3, <1>4, <1>5, <2>1, <2>2, <2>3 DEF Shaped, OneAsked
<1> QED BY <1>6, <1>7

\* Signing asks the Hub once, of a challenge of the page's own network.
LEMMA Signs ==
  ASSUME SessionInv, Grows, NEW p \in Pending, p.network = page.network,
         issued'[p.challenge] # None, issued'[p.challenge].network = p.network,
         NEW shown \in {None, p}, Sign(p, shown), UNCHANGED chosenOn
  PROVE  /\ page' \in Page /\ module' \in Module /\ leaving' \in HubRequest \cup {None}
         /\ store' \in Store /\ Kept' /\ OneAsked' /\ Known'
<1>1. page \in Page /\ module \in Module /\ store \in Store /\ leaving \in HubRequest \cup {None}
  BY DEF SessionInv, TypeOK
<1>2. store' = KeepPending(store, p, page.network)
  BY DEF Sign
<1>3. [address |-> p.address, network |-> page.network] \in Selected /\ [p EXCEPT !.network = page.network] = p
  BY <1>1 DEF Selected, Pending, Page
<1>4. [phase |-> "sign-challenge", addressSelected |-> TRUE, network |-> page.network] \in Continuation
  BY <1>1 DEF Continuation, Page
<1>5. /\ store' \in Store /\ store'.pending = p
      /\ store'.selected = [address |-> p.address, network |-> page.network]
  BY <1>1, <1>2, <1>3, <1>4 DEF KeepPending, SelectAddress, Continue, Store
<1>6. p # None
  BY NoneIsNoRecord
<1>7. CASE UNCHANGED <<module, leaving>>
  <2>1. page' \in Page /\ page'.network = page.network /\ page'.pendingHub \in {None, p}
    <3>1. PICK q \in {None, p}, stage \in Stages :
            page' = [page EXCEPT !.pendingHub = q, !.stage = stage]
      BY DEF Sign, Stages
    <3> QED BY <1>1, <3>1 DEF Page
  <2>2. Kept'
    <3>1. leaving # None /\ leaving.command = "sign-message" => leaving.pending \in Pending
      BY <1>1 DEF HubRequest
    <3>2. leaving # None /\ leaving.command = "sign-message" => leaving.pending.challenge \in Challenges
      BY <3>1 DEF Pending
    <3> QED BY <1>5, <1>7, <2>1, <3>2 DEF SessionInv, Kept, Ours, Grows
  <2> QED BY <1>1, <1>5, <1>6, <1>7, <2>1, <2>2 DEF SessionInv, OneAsked, Known
<1>8. CASE ~UNCHANGED <<module, leaving>>
  <2>1. /\ ~module.signStarted
        /\ module' = [module EXCEPT !.signStarted = TRUE,
                                    !.signRequests = IF @ < 2 THEN @ + 1 ELSE @]
        /\ leaving' = [command |-> "sign-message", pending |-> p]
        /\ page' = [page EXCEPT !.pendingHub = p, !.stage = "requesting-signature"]
    BY <1>8 DEF Sign, SignUnderWay
  <2>2. page' \in Page /\ page'.network = page.network /\ page'.pendingHub = p
    BY <1>1, <2>1 DEF Page, Stages
  <2>3. module.signRequests = 0
    BY <2>1 DEF SessionInv, OneAsked
  <2>4. module' \in Module /\ OneAsked'
    <3>1. module' = [module EXCEPT !.signStarted = TRUE, !.signRequests = 1]
      BY <2>1, <2>3
    <3>2. module.captured \in Redirected
      BY <1>1 DEF Module
    <3>3. module' = [captured |-> module.captured, signStarted |-> TRUE, signRequests |-> 1]
      BY <1>1, <3>1 DEF Module
    <3> QED BY <3>2, <3>3 DEF Module, OneAsked
  <2>5. leaving' \in HubRequest /\ leaving'.command = "sign-message" /\ leaving'.pending = p
    BY <2>1 DEF HubRequest
  <2>6. Kept'
    BY <1>5, <2>2, <2>5 DEF Kept, Ours
  <2>7. Known'
    BY <1>5, <1>6, <2>2, <2>5 DEF SessionInv, Known
  <2> QED BY <1>5, <2>2, <2>4, <2>5, <2>6, <2>7
<1> QED BY <1>7, <1>8

\* What neither asks the Hub nor forgets what the tab keeps.
LEMMA Stays ==
  ASSUME SessionInv, Grows, page'.network = page.network,
         page'.pendingHub \in {None, page.pendingHub, store.pending},
         store'.pending = store.pending, store'.selected = store.selected,
         UNCHANGED <<module, leaving, chosenOn>>
  PROVE  Kept' /\ OneAsked' /\ Known'
<1>1. /\ store.pending # None => store.pending.challenge \in Challenges
      /\ page.pendingHub # None => page.pendingHub.challenge \in Challenges
      /\ leaving # None /\ leaving.command = "sign-message" => leaving.pending.challenge \in Challenges
  <2>1. /\ store.pending # None => store.pending \in Pending
        /\ page.pendingHub # None => page.pendingHub \in Pending
        /\ leaving # None /\ leaving.command = "sign-message" => leaving.pending \in Pending
    BY DEF SessionInv, TypeOK, Store, Page, HubRequest
  <2> QED BY <2>1 DEF Pending
<1>2. Kept'
  BY <1>1 DEF SessionInv, Kept, Ours, Grows
<1>3. OneAsked' /\ Known'
  BY DEF SessionInv, OneAsked, Known
<1> QED BY <1>2, <1>3

\* A function goes on with an address, and a challenge the API has issued.
LEMMA Works ==
  ASSUME SessionInv, Grows, NEW j \in Jobs, NEW job \in Job, jobs' = [jobs EXCEPT ![j] = job],
         job.step \in {"challenge", "miniSign", "verify"} => job.address \in Wallets,
         job.step \in {"miniSign", "verify"} =>
           job.challenge \in Challenges /\ issued'[job.challenge] # None
  PROVE  jobs' \in [Jobs -> Job] /\ Shaped'
<1>1. jobs \in [Jobs -> Job] /\ Shaped
  BY DEF SessionInv, TypeOK
<1>2. jobs' \in [Jobs -> Job] /\ jobs'[j] = job /\ \A k \in Jobs : k # j => jobs'[k] = jobs[k]
  BY <1>1
<1> QED BY <1>1, <1>2 DEF Shaped, Grows

LEMMA Ends ==
  ASSUME SessionInv, Grows, NEW j \in Jobs, Done(j)
  PROVE  jobs' \in [Jobs -> Job] /\ Shaped'
<1>1. Idle \in Job /\ Idle.step = "idle"
  BY DEF Idle, Job
<1> QED BY <1>1, Works DEF Done

LEMMA Asking ==
  ASSUME NEW address \in Wallets
  PROVE  [Idle EXCEPT !.step = "challenge", !.address = address] =
         [step |-> "challenge", address |-> address, challenge |-> None, signed |-> None, answer |-> "none"]
<1> DEFINE a == [Idle EXCEPT !.step = "challenge"]
           b == [a EXCEPT !.address = address]
<1>1. a = [step |-> "challenge", address |-> None, challenge |-> None, signed |-> None, answer |-> "none"]
  BY DEF Idle
<1> HIDE DEF a
<1>2. b = [step |-> "challenge", address |-> address, challenge |-> None, signed |-> None, answer |-> "none"]
  BY <1>1
<1> QED BY <1>2 DEF a

\* A function starts to ask the API for a challenge.
LEMMA Asks ==
  ASSUME SessionInv, Grows, NEW j \in Jobs, NEW address \in Wallets,
         jobs' = [jobs EXCEPT ![j] = [Idle EXCEPT !.step = "challenge", !.address = address]]
  PROVE  jobs' \in [Jobs -> Job] /\ Shaped'
<1> DEFINE job == [Idle EXCEPT !.step = "challenge", !.address = address]
<1>1. job = [step |-> "challenge", address |-> address, challenge |-> None, signed |-> None, answer |-> "none"]
  BY Asking
<1>2. job \in Job /\ job.step = "challenge" /\ job.address = address
  BY <1>1 DEF Job
<1>3. jobs' = [jobs EXCEPT ![j] = job]
  OBVIOUS
<1>4. job.address \in Wallets /\ job.step \notin {"miniSign", "verify"}
  BY <1>2
<1> HIDE DEF job
<1> QED BY <1>2, <1>3, <1>4, Works

\* The parts of the state an action of the page may change.
Tidy ==
  /\ page' \in Page /\ module' \in Module /\ leaving' \in HubRequest \cup {None}
  /\ store' \in Store /\ jobs' \in [Jobs -> Job]
  /\ Shaped' /\ Kept' /\ OneAsked' /\ Known'

\* An error, whatever stage it leaves.
LEMMA Fails ==
  ASSUME SessionInv, Grows, NEW j \in Jobs, Fail(j), UNCHANGED chosenOn
  PROVE  Tidy
<1>1. page \in Page /\ module \in Module /\ store \in Store /\ leaving \in HubRequest \cup {None}
  BY DEF SessionInv, TypeOK
<1>2. PICK stage \in Stages : page' = [page EXCEPT !.stage = stage]
  BY DEF Fail, ErrorStage, Stages
<1>3. page' \in Page /\ page'.network = page.network /\ page'.pendingHub = page.pendingHub
  BY <1>1, <1>2 DEF Page
<1>4. UNCHANGED <<module, leaving, store>> /\ Done(j)
  BY DEF Fail
<1> QED BY <1>1, <1>3, <1>4, Stays, Ends DEF Tidy

\* A step of a function that leaves page and storage alone.
LEMMA Verifies ==
  ASSUME SessionInv, Grows, NEW j \in Jobs, NEW address \in Wallets, NEW challenge \in Challenges,
         NEW signed \in Challenges, issued'[challenge] # None,
         Verify(j, address, challenge, signed), UNCHANGED chosenOn
  PROVE  Tidy
<1>1. page \in Page /\ module \in Module /\ store \in Store /\ leaving \in HubRequest \cup {None}
  BY DEF SessionInv, TypeOK
<1> DEFINE job == [step |-> "verify", address |-> address, challenge |-> challenge,
                   signed |-> signed, answer |-> "none"]
<1>2. job \in Job /\ job.step = "verify" /\ job.address = address /\ job.challenge = challenge
  BY DEF Job
<1>3. jobs' = [jobs EXCEPT ![j] = job] /\ UNCHANGED <<page, module, leaving, store>>
  BY DEF Verify
<1> HIDE DEF job
<1>4. jobs' \in [Jobs -> Job] /\ Shaped'
  BY <1>2, <1>3, Works
<1> QED BY <1>1, <1>3, <1>4, Stays DEF Tidy

LEMMA Rests ==
  ASSUME SessionInv, Grows, NEW j \in Jobs, NEW pending \in {None, store.pending}, NEW stage \in Stages,
         Rest(j, pending, stage), UNCHANGED chosenOn
  PROVE  Tidy
<1>1. page \in Page /\ module \in Module /\ store \in Store /\ leaving \in HubRequest \cup {None}
  BY DEF SessionInv, TypeOK
<1>2. page' = [page EXCEPT !.pendingHub = pending, !.stage = stage]
  BY DEF Rest
<1>3. pending \in Pending \cup {None}
  BY <1>1 DEF Store
<1>4. page' \in Page /\ page'.network = page.network /\ page'.pendingHub = pending
  BY <1>1, <1>2, <1>3 DEF Page
<1>5. UNCHANGED <<module, leaving, store>> /\ Done(j)
  BY DEF Rest
<1> QED BY <1>1, <1>4, <1>5, Stays, Ends DEF Tidy

\* The stored challenge is the page's own: signing it keeps the invariant.
LEMMA SignsStored ==
  ASSUME SessionInv, UNCHANGED issued, HasPending, NEW shown \in {None, store.pending},
         Sign(store.pending, shown), UNCHANGED chosenOn
  PROVE  /\ page' \in Page /\ module' \in Module /\ leaving' \in HubRequest \cup {None}
         /\ store' \in Store /\ Kept' /\ OneAsked' /\ Known'
<1>1. store.pending \in Pending /\ store.pending.network = page.network
  BY DEF SessionInv, TypeOK, Store, HasPending, IsCurrent
<1>2. issued'[store.pending.challenge] # None
      /\ issued'[store.pending.challenge].network = store.pending.network
  BY DEF SessionInv, Kept, Ours, HasPending, IsCurrent
<1>3. Grows
  BY SameIssued DEF SessionInv
<1> QED BY <1>1, <1>2, <1>3, Signs

LEMMA ContinuesAfterAddress ==
  ASSUME SessionInv, UNCHANGED issued, NEW j \in Jobs, NEW address \in Wallets,
         ContinueAfterAddress(j, address), UNCHANGED chosenOn
  PROVE  Tidy
<1>1. Grows
  BY SameIssued DEF SessionInv
<1>2. CASE HasPending /\ store.pending.address = address
  <2>1. Sign(store.pending, None) /\ Done(j)
    BY <1>2 DEF ContinueAfterAddress
  <2> QED BY <1>1, <1>2, <2>1, SignsStored, Ends DEF Tidy
<1>3. CASE ~(HasPending /\ store.pending.address = address)
  <2>1. page \in Page /\ module \in Module /\ store \in Store /\ leaving \in HubRequest \cup {None}
    BY DEF SessionInv, TypeOK
  <2>2. /\ store' = Continue(store, "request-challenge", TRUE, page.network)
        /\ jobs' = [jobs EXCEPT ![j] = [Idle EXCEPT !.step = "challenge", !.address = address]]
        /\ UNCHANGED <<page, module, leaving>>
    BY <1>3 DEF ContinueAfterAddress
  <2>3. [phase |-> "request-challenge", addressSelected |-> TRUE, network |-> page.network] \in Continuation
    BY <2>1 DEF Continuation, Page
  <2>4. store' \in Store /\ store'.pending = store.pending /\ store'.selected = store.selected
    BY <2>1, <2>2, <2>3 DEF Continue, Store
  <2>5. jobs' \in [Jobs -> Job] /\ Shaped'
    BY <1>1, <2>2, Asks
  <2>6. Kept' /\ OneAsked' /\ Known'
    BY <1>1, <2>2, <2>4, Stays
  <2> QED BY <2>1, <2>2, <2>4, <2>5, <2>6 DEF Tidy
<1> QED BY <1>2, <1>3

-------------------------------------------------------------------------------
(***************************************************************************)
(* The steps.                                                               *)
(***************************************************************************)

LEMMA TidySteps ==
  ASSUME SessionInv, Tidy, UNCHANGED <<world, place, past, chosenOn>>
  PROVE  SessionInv'
BY DEF SessionInv, TypeOK, Tidy, world

\* A load from the URL, from the Hub or by the program itself.
LEMMA LoadSteps ==
  ASSUME SessionInv, NEW result \in Redirected, NEW s \in Store, Load(result, s),
         s.pending = store.pending, s.selected = store.selected,
         UNCHANGED <<deployed, issued, host, past>>, cookie' \in Wallets \cup {None}
  PROVE  SessionInv'
<1>1. /\ page' \in Page /\ module' \in Module /\ leaving' = None /\ place' = None
      /\ store' \in Store /\ jobs' \in [Jobs -> Job] /\ chosenOn' \in Networks \cup {None}
      /\ Shaped' /\ Kept' /\ OneAsked' /\ Known'
  BY Loads
<1> QED BY <1>1 DEF SessionInv, TypeOK

LEMMA Navigations ==
  ASSUME SessionInv, Reload \/ PaymentReturns \/ HubReturns \/ BackReloads \/ SignOut
  PROVE  SessionInv'
<1>1. store \in Store /\ cookie \in Wallets \cup {None}
  BY DEF SessionInv, TypeOK
<1>2. Empty \in Redirected /\ [type |-> "payment"] \in Redirected
  BY DEF Empty, Redirected
<1>3. CASE Reload \/ PaymentReturns \/ HubReturns \/ BackReloads
  <2>1. PICK result \in Redirected : Load(result, store)
    BY <1>2, <1>3 DEF Reload, PaymentReturns, HubReturns, BackReloads
  <2>2. UNCHANGED <<deployed, issued, host, past, cookie>>
    BY <1>3 DEF Reload, PaymentReturns, HubReturns, BackReloads, world
  <2> QED BY <1>1, <2>1, <2>2, LoadSteps
<1>4. CASE SignOut
  <2>1. LET s == [store EXCEPT !.user = None]
        IN s \in Store /\ s.pending = store.pending /\ s.selected = store.selected
    BY <1>1 DEF Store
  <2>2. Load(Empty, [store EXCEPT !.user = None])
        /\ UNCHANGED <<deployed, issued, host, past>> /\ cookie' \in Wallets \cup {None}
    BY <1>1, <1>4 DEF SignOut
  <2> QED BY <1>2, <2>1, <2>2, LoadSteps
<1> QED BY <1>3, <1>4

LEMMA Visits ==
  ASSUME SessionInv, Leave \/ RevisitHub
  PROVE  SessionInv'
<1>1. past \subseteq HubRequest /\ leaving \in HubRequest \cup {None}
  BY DEF SessionInv, TypeOK
<1>2. PICK request \in HubRequest : Visit(request)
  BY <1>1 DEF Leave, RevisitHub
<1> QED BY <1>1, <1>2 DEF Visit, world, SessionInv, TypeOK, Shaped, Kept, Ours, OneAsked, Known

LEMMA Shows ==
  ASSUME SessionInv, PageShow
  PROVE  SessionInv'
<1>1. page \in Page /\ module \in Module /\ store \in Store /\ leaving \in HubRequest \cup {None}
  BY DEF SessionInv, TypeOK
<1>2. PICK stage \in Stages : page' = [page EXCEPT !.stage = stage]
  <2>1. AfterShow(page.stage) \in Stages
    BY <1>1 DEF AfterShow, Page, Stages
  <2> QED BY <2>1 DEF PageShow
<1>3. page' \in Page /\ page'.network = page.network /\ page'.pendingHub = page.pendingHub
  BY <1>1, <1>2 DEF Page
<1>4. /\ place' = None
      /\ UNCHANGED <<deployed, issued, cookie, host, past, module, leaving, store, jobs, chosenOn>>
  BY DEF PageShow, world
<1>5. Grows
  BY <1>4, SameIssued DEF SessionInv
<1>6. Kept' /\ OneAsked' /\ Known'
  BY <1>3, <1>4, <1>5, Stays
<1> QED BY <1>3, <1>4, <1>6 DEF SessionInv, TypeOK, Shaped

LEMMA Starts ==
  ASSUME SessionInv, NEW j \in Jobs, Start(j)
  PROVE  SessionInv'
<1>1. page \in Page /\ module \in Module /\ store \in Store /\ leaving \in HubRequest \cup {None}
      /\ jobs \in [Jobs -> Job] /\ Shaped
  BY DEF SessionInv, TypeOK
<1>2. UNCHANGED <<world, place, past, chosenOn>> /\ issued' = issued
  BY DEF Start, world
<1>3. Grows
  BY <1>2, SameIssued DEF SessionInv
<1>4. CASE HasPending /\ Sign(store.pending, store.pending) /\ UNCHANGED jobs
  <2>1. Shaped'
    BY <1>1, <1>2, <1>4 DEF Shaped
  <2> QED BY <1>1, <1>2, <1>4, <2>1, SignsStored, TidySteps DEF Tidy
<1>5. CASE /\ store.selected # None
           /\ page' = [page EXCEPT !.stage = "requesting-challenge"]
           /\ jobs' = [jobs EXCEPT ![j] = [Idle EXCEPT !.step = "challenge", !.address = store.selected.address]]
           /\ UNCHANGED <<module, leaving, store>>
  <2>1. store.selected.address \in Wallets
    BY <1>1, <1>5 DEF Store, Selected
  <2>2. jobs' \in [Jobs -> Job] /\ Shaped'
    BY <1>3, <1>5, <2>1, Asks
  <2>3. page' \in Page /\ page'.network = page.network /\ page'.pendingHub = page.pendingHub
    BY <1>1, <1>5 DEF Page, Stages
  <2>4. Kept' /\ OneAsked' /\ Known'
    BY <1>2, <1>3, <1>5, <2>3, Stays
  <2> QED BY <1>1, <1>2, <1>5, <2>2, <2>3, <2>4, TidySteps DEF Tidy
<1>6. CASE /\ ~HasPending /\ store.selected = None
           /\ store' = Continue(store, "choose-address", FALSE, page.network)
           /\ \/ /\ page' = [page EXCEPT !.stage = "requesting-wallet"]
                 /\ leaving' = [command |-> "choose-address"]
              \/ UNCHANGED <<page, leaving>>
           /\ UNCHANGED <<module, jobs>>
  <2>1. [phase |-> "choose-address", addressSelected |-> FALSE, network |-> page.network] \in Continuation
    BY <1>1 DEF Continuation, Page
  <2>2. store' \in Store /\ store'.pending = store.pending /\ store'.selected = store.selected
    BY <1>1, <1>6, <2>1 DEF Continue, Store
  <2>3. page' \in Page /\ page'.network = page.network /\ page'.pendingHub = page.pendingHub
    BY <1>1, <1>6 DEF Page, Stages
  <2>4. leaving' \in HubRequest \cup {None} /\ (leaving' = leaving \/ leaving'.command = "choose-address")
    BY <1>1, <1>6 DEF HubRequest
  <2>5. store.pending = None /\ chosenOn = None
    BY <1>6 DEF SessionInv, Kept, Ours, Known, HasPending, IsCurrent
  <2>6. Kept'
    BY <1>2, <2>2, <2>3, <2>4 DEF SessionInv, Kept, Ours
  <2>7. OneAsked' /\ Known' /\ Shaped'
    BY <1>1, <1>2, <1>6, <2>5 DEF SessionInv, OneAsked, Known, Shaped
  <2> QED BY <1>1, <1>2, <1>6, <2>2, <2>3, <2>4, <2>6, <2>7, TidySteps DEF Tidy
<1>7. CASE /\ page' = [page EXCEPT !.stage = "requesting-wallet"]
           /\ jobs' = [jobs EXCEPT ![j].step = "miniWallet"]
           /\ UNCHANGED <<module, leaving, store>>
  <2>1. page' \in Page /\ page'.network = page.network /\ page'.pendingHub = page.pendingHub
    BY <1>1, <1>7 DEF Page, Stages
  <2>2. jobs' \in [Jobs -> Job] /\ Shaped'
    BY <1>1, <1>2, <1>7 DEF Job, Shaped
  <2>3. Kept' /\ OneAsked' /\ Known'
    BY <1>2, <1>3, <1>7, <2>1, Stays
  <2> QED BY <1>1, <1>2, <1>7, <2>1, <2>2, <2>3, TidySteps DEF Tidy
<1> QED BY <1>4, <1>5, <1>6, <1>7 DEF Start

LEMMA SignsWithHub ==
  ASSUME SessionInv, SignWithHub
  PROVE  SessionInv'
<1>1. page.pendingHub \in Pending /\ jobs \in [Jobs -> Job] /\ Shaped
  BY DEF SessionInv, TypeOK, Page, SignWithHub
<1>2. UNCHANGED <<world, place, past, chosenOn, jobs>> /\ issued' = issued /\ Sign(page.pendingHub, page.pendingHub)
  BY DEF SignWithHub, world
<1>3. Grows
  BY <1>2, SameIssued DEF SessionInv
<1>4. /\ page.pendingHub.network = page.network
      /\ issued'[page.pendingHub.challenge] # None
      /\ issued'[page.pendingHub.challenge].network = page.pendingHub.network
  BY <1>2 DEF SignWithHub, SessionInv, Kept, Ours
<1>5. /\ page' \in Page /\ module' \in Module /\ leaving' \in HubRequest \cup {None}
      /\ store' \in Store /\ Kept' /\ OneAsked' /\ Known'
  BY <1>1, <1>2, <1>3, <1>4, Signs
<1>6. jobs' \in [Jobs -> Job] /\ Shaped'
  BY <1>1, <1>2 DEF Shaped
<1> QED BY <1>2, <1>5, <1>6, TidySteps DEF Tidy

LEMMA MiniAppSteps ==
  ASSUME SessionInv, NEW j \in Jobs,
         (\E a \in Wallets : SignWithMiniApp(j, a)) \/ WalletAnswered(j) \/ MiniAppSigned(j)
  PROVE  SessionInv'
<1>1. page \in Page /\ module \in Module /\ store \in Store /\ leaving \in HubRequest \cup {None}
      /\ jobs \in [Jobs -> Job] /\ Shaped
  BY DEF SessionInv, TypeOK
<1>2. UNCHANGED <<world, place, past, chosenOn>> /\ issued' = issued
  BY DEF SignWithMiniApp, WalletAnswered, MiniAppSigned, world
<1>3. Grows
  BY <1>2, SameIssued DEF SessionInv
<1>4. ASSUME NEW a \in Wallets, SignWithMiniApp(j, a) PROVE SessionInv'
  <2>1. page' = [page EXCEPT !.stage = "requesting-challenge"]
        /\ UNCHANGED <<module, leaving, store>>
        /\ jobs' = [jobs EXCEPT ![j] = [Idle EXCEPT !.step = "challenge", !.address = a]]
    BY <1>4 DEF SignWithMiniApp
  <2>2. page' \in Page /\ page'.network = page.network /\ page'.pendingHub = page.pendingHub
    BY <1>1, <2>1 DEF Page, Stages
  <2>3. jobs' \in [Jobs -> Job] /\ Shaped'
    BY <1>3, <2>1, Asks
  <2>4. Kept' /\ OneAsked' /\ Known'
    BY <1>2, <1>3, <2>1, <2>2, Stays
  <2> QED BY <1>1, <1>2, <2>1, <2>2, <2>3, <2>4, TidySteps DEF Tidy
<1>5. CASE Fail(j)
  BY <1>2, <1>3, <1>5, Fails, TidySteps
<1>6. ASSUME NEW accounts \in (SUBSET Wallets) \ {{}},
             page' = [page EXCEPT !.accounts = accounts,
                        !.stage = IF Cardinality(accounts) > 1 THEN "selecting-account" ELSE "requesting-challenge"],
             IF Cardinality(accounts) > 1 THEN Done(j)
             ELSE jobs' = [jobs EXCEPT ![j] = [Idle EXCEPT !.step = "challenge",
                                                          !.address = CHOOSE a \in accounts : TRUE]],
             UNCHANGED <<module, leaving, store>>
      PROVE  SessionInv'
  <2>1. PICK stage \in Stages : page' = [page EXCEPT !.accounts = accounts, !.stage = stage]
    BY <1>6 DEF Stages
  <2>2. page' \in Page /\ page'.network = page.network /\ page'.pendingHub = page.pendingHub
    BY <1>1, <2>1 DEF Page
  <2>3. (CHOOSE a \in accounts : TRUE) \in Wallets
    <3>1. PICK w \in accounts : TRUE
      OBVIOUS
    <3>2. (CHOOSE a \in accounts : TRUE) \in accounts
      BY <3>1
    <3> QED BY <3>2
  <2>4. jobs' \in [Jobs -> Job] /\ Shaped'
    BY <1>3, <1>6, <2>3, Asks, Ends
  <2>5. Kept' /\ OneAsked' /\ Known'
    BY <1>2, <1>3, <1>6, <2>2, Stays
  <2> QED BY <1>1, <1>2, <1>6, <2>2, <2>4, <2>5, TidySteps DEF Tidy
<1>7. CASE MiniAppSigned(j) /\ ~Fail(j)
  <2>1. jobs[j].step = "miniSign" /\ Verify(j, jobs[j].address, jobs[j].challenge, jobs[j].challenge)
    BY <1>7 DEF MiniAppSigned
  <2>2. jobs[j].address \in Wallets /\ jobs[j].challenge \in Challenges /\ issued'[jobs[j].challenge] # None
    BY <1>1, <1>2, <2>1 DEF Shaped
  <2> QED BY <1>2, <1>3, <2>1, <2>2, Verifies, TidySteps
<1> QED BY <1>4, <1>5, <1>6, <1>7 DEF WalletAnswered

LEMMA ChallengeSteps ==
  ASSUME SessionInv, NEW j \in Jobs, ChallengeCreated(j) \/ ChallengeFails(j)
  PROVE  SessionInv'
<1>1. /\ page \in Page /\ module \in Module /\ store \in Store /\ leaving \in HubRequest \cup {None}
      /\ jobs \in [Jobs -> Job] /\ Shaped /\ issued \in [Challenges -> Challenge \cup {None}]
      /\ deployed \in Networks
  BY DEF SessionInv, TypeOK
<1>2. CASE ChallengeFails(j)
  <2>1. Fail(j) /\ UNCHANGED <<world, place, past, chosenOn>> /\ issued' = issued
    BY <1>2 DEF ChallengeFails, world
  <2>2. Grows
    BY <2>1, SameIssued DEF SessionInv
  <2> QED BY <2>1, <2>2, Fails, TidySteps
<1>3. CASE ChallengeCreated(j)
  <2> DEFINE address == jobs[j].address
             fresh == [address |-> address, network |-> deployed, status |-> "open"]
  <2>1. PICK c \in Challenges :
          /\ issued[c] = None
          /\ issued' = [issued EXCEPT ![c] = fresh]
          /\ IF host = "hub"
             THEN \E shown \in {None, [address |-> address, challenge |-> c, network |-> page.network]} :
                    Sign([address |-> address, challenge |-> c, network |-> page.network], shown)
                    /\ Done(j)
             ELSE /\ jobs' = [jobs EXCEPT ![j].step = "miniSign", ![j].challenge = c]
                  /\ UNCHANGED <<page, module, leaving, store>>
    BY <1>3 DEF ChallengeCreated, ShownFirst
  <2>2. page.network = deployed /\ UNCHANGED <<deployed, cookie, host, place, past, chosenOn>>
        /\ address \in Wallets
    BY <1>1, <1>3 DEF ChallengeCreated, Shaped
  <2>3. fresh \in Challenge /\ fresh # None /\ fresh.network = deployed
    BY <1>1, <2>2, NoneIsNoRecord DEF Challenge
  <2> HIDE DEF fresh
  <2>4. Grows /\ issued'[c] # None /\ issued'[c].network = page.network
    BY <1>1, <2>1, <2>2, <2>3 DEF Grows
  <2>5. Tidy
    <3>1. CASE host = "hub"
      <4> DEFINE p == [address |-> address, challenge |-> c, network |-> page.network]
      <4>1. p \in Pending /\ p.network = page.network /\ p.challenge = c
        BY <1>1, <2>2 DEF Pending
      <4>2. PICK shown \in {None, p} : Sign(p, shown) /\ Done(j)
        BY <2>1, <3>1
      <4> HIDE DEF p
      <4>3. /\ page' \in Page /\ module' \in Module /\ leaving' \in HubRequest \cup {None}
            /\ store' \in Store /\ Kept' /\ OneAsked' /\ Known'
        BY <2>2, <2>4, <4>1, <4>2, Signs
      <4> QED BY <2>4, <4>2, <4>3, Ends DEF Tidy
    <3>2. CASE host # "hub"
      <4>1. /\ jobs' = [jobs EXCEPT ![j].step = "miniSign", ![j].challenge = c]
            /\ UNCHANGED <<page, module, leaving, store>>
        BY <2>1, <3>2
      <4> DEFINE job == [jobs[j] EXCEPT !.step = "miniSign", !.challenge = c]
      <4>2. jobs' = [jobs EXCEPT ![j] = job]
        BY <1>1, <4>1
      <4>3. job \in Job /\ job.step = "miniSign" /\ job.challenge = c /\ job.address = address
        BY <1>1 DEF Job
      <4>4. job.address \in Wallets /\ job.challenge \in Challenges /\ issued'[job.challenge] # None
        BY <2>2, <2>4, <4>3
      <4> HIDE DEF job
      <4>5. jobs' \in [Jobs -> Job] /\ Shaped'
        BY <2>4, <4>2, <4>3, <4>4, Works
      <4>6. Kept' /\ OneAsked' /\ Known'
        BY <2>2, <2>4, <4>1, Stays
      <4> QED BY <1>1, <4>1, <4>5, <4>6 DEF Tidy
    <3> QED BY <3>1, <3>2
  <2> QED BY <2>2, <2>4, <2>5 DEF SessionInv, TypeOK, Tidy, Grows
<1> QED BY <1>2, <1>3

\* The flow that resumes.
LEMMA Restores ==
  ASSUME SessionInv, NEW j \in Jobs, RestoreAnswered(j) \/ RestoreFails(j)
  PROVE  SessionInv'
<1>1. /\ page \in Page /\ module \in Module /\ store \in Store /\ leaving \in HubRequest \cup {None}
      /\ jobs \in [Jobs -> Job] /\ Shaped /\ cookie \in Wallets \cup {None}
  BY DEF SessionInv, TypeOK
<1>2. UNCHANGED <<world, place, past, chosenOn, module, leaving>> /\ issued' = issued
  BY DEF RestoreAnswered, RestoreFails, world
<1>3. Grows
  BY <1>2, SameIssued DEF SessionInv
<1>4. page' \in Page /\ page'.network = page.network /\ page'.pendingHub = page.pendingHub
  <2>1. CASE UNCHANGED page
    BY <1>1, <2>1
  <2>2. CASE cookie \in Wallets /\ page' = [page EXCEPT !.session = cookie, !.stage = "authenticated"]
    BY <1>1, <2>2 DEF Page, Stages
  <2> QED BY <1>1, <2>1, <2>2 DEF RestoreAnswered, RestoreFails
<1>5. store' \in Store /\ store'.pending = store.pending /\ store'.selected = store.selected
  BY <1>1 DEF RestoreAnswered, RestoreFails, Store
<1>6. jobs' \in [Jobs -> Job] /\ Shaped'
  <2>1. CASE Done(j)
    BY <1>3, <2>1, Ends
  <2>2. CASE jobs' = [jobs EXCEPT ![j].step = "resuming"]
    BY <1>1, <1>2, <2>2 DEF Job, Shaped
  <2> QED BY <2>1, <2>2 DEF RestoreAnswered, RestoreFails
<1>7. Kept' /\ OneAsked' /\ Known'
  BY <1>2, <1>3, <1>4, <1>5, Stays
<1> QED BY <1>1, <1>2, <1>4, <1>5, <1>6, <1>7, TidySteps DEF Tidy

LEMMA Resumes ==
  ASSUME SessionInv, NEW j \in Jobs, Resume(j)
  PROVE  SessionInv'
<1> DEFINE result == module.captured
<1>1. /\ page \in Page /\ result \in Redirected /\ store \in Store
      /\ jobs \in [Jobs -> Job]
  BY DEF SessionInv, TypeOK, Module
<1>2. UNCHANGED <<world, place, past, chosenOn>> /\ issued' = issued
  BY DEF Resume, world
<1>3. Grows
  BY <1>2, SameIssued DEF SessionInv
<1>4. store.selected # None => store.selected.address \in Wallets
  BY <1>1 DEF Store, Selected
<1>5. ASSUME NEW address \in Wallets, ContinueAfterAddress(j, address) PROVE Tidy
  BY <1>2, <1>5, ContinuesAfterAddress
<1>6. ASSUME NEW pending \in {None, store.pending}, NEW stage \in Stages, Rest(j, pending, stage) PROVE Tidy
  BY <1>2, <1>3, <1>6, Rests
<1>7. CASE Fail(j)
  BY <1>2, <1>3, <1>7, Fails, TidySteps
<1>8. CASE result.type = "payment" /\ Rest(j, None, "idle")
  BY <1>2, <1>6, <1>8, TidySteps DEF Stages
<1>9. CASE result.type = "cancelled" /\ Rest(j, store.pending, ErrorStage(store))
  <2>1. ErrorStage(store) \in Stages
    BY DEF ErrorStage, Stages
  <2> QED BY <1>2, <1>6, <1>9, <2>1, TidySteps
<1>10. CASE result.type = "address" /\ ContinueAfterAddress(j, result.address)
  <2>1. result.address \in Wallets
    BY <1>1, <1>10 DEF Redirected
  <2> QED BY <1>2, <1>5, <1>10, <2>1, TidySteps
<1>11. CASE result.type = "signature" /\ ResumeSignature(j, result) /\ ~Fail(j)
  <2>1. result.address \in Wallets /\ result.challenge \in Challenges
    BY <1>1, <1>11 DEF Redirected
  <2>2. HasPending /\ Verify(j, result.address, store.pending.challenge, result.challenge)
    BY <1>11 DEF ResumeSignature
  <2>3. store.pending \in Pending /\ issued'[store.pending.challenge] # None
    BY <1>1, <1>2, <2>2 DEF HasPending, IsCurrent, Store, SessionInv, Kept, Ours
  <2>4. store.pending.challenge \in Challenges
    BY <2>3 DEF Pending
  <2> HIDE DEF result
  <2> QED BY <1>2, <1>3, <2>1, <2>2, <2>3, <2>4, Verifies, TidySteps
<1>12. CASE ResumeFromStore(j)
  <2>1. CASE Sign(store.pending, None) /\ Done(j) /\ HasPending
    BY <1>2, <1>3, <2>1, SignsStored, Ends, TidySteps DEF Tidy
  <2>2. CASE Rest(j, store.pending, "awaiting-signature") \/ Rest(j, None, "idle")
    BY <1>2, <1>6, <2>2, TidySteps DEF Stages
  <2>3. CASE store.selected # None /\ ContinueAfterAddress(j, store.selected.address)
    BY <1>2, <1>4, <1>5, <2>3, TidySteps
  <2> QED BY <1>12, <2>1, <2>2, <2>3 DEF ResumeFromStore
<1>13. CASE store.selected # None /\ ContinueAfterAddress(j, store.selected.address)
  BY <1>2, <1>4, <1>5, <1>13, TidySteps
<1> HIDE DEF result
<1>14. \/ Fail(j)
       \/ result.type = "payment" /\ Rest(j, None, "idle")
       \/ result.type = "cancelled" /\ Rest(j, store.pending, ErrorStage(store))
       \/ result.type = "address" /\ ContinueAfterAddress(j, result.address)
       \/ result.type = "signature" /\ ResumeSignature(j, result)
       \/ ResumeFromStore(j)
       \/ store.selected # None /\ ContinueAfterAddress(j, store.selected.address)
  BY DEF Resume, result
<1> QED BY <1>7, <1>8, <1>9, <1>10, <1>11, <1>12, <1>13, <1>14

LEMMA Verifications ==
  ASSUME SessionInv, NEW j \in Jobs, ApiVerifies(j) \/ Verified(j)
  PROVE  SessionInv'
<1>1. /\ page \in Page /\ module \in Module /\ store \in Store /\ leaving \in HubRequest \cup {None}
      /\ jobs \in [Jobs -> Job] /\ Shaped /\ issued \in [Challenges -> Challenge \cup {None}]
      /\ cookie \in Wallets \cup {None}
  BY DEF SessionInv, TypeOK
<1>2. jobs[j].step = "verify" => jobs[j].address \in Wallets /\ jobs[j].challenge \in Challenges
                                 /\ issued[jobs[j].challenge] \in Challenge
  BY <1>1 DEF Shaped
<1>3. CASE ApiVerifies(j)
  <2>1. UNCHANGED <<deployed, host, place, past, page, module, leaving, store, chosenOn>>
        /\ jobs[j].step = "verify"
    BY <1>3 DEF ApiVerifies
  <2>2. cookie' \in Wallets \cup {None}
    BY <1>1, <1>2, <1>3, <2>1 DEF ApiVerifies
  <2>3. Grows
    <3>1. issued' = issued \/ issued' = [issued EXCEPT ![jobs[j].challenge].status = "used"]
      BY <1>3 DEF ApiVerifies
    <3>2. CASE issued' = [issued EXCEPT ![jobs[j].challenge].status = "used"]
      <4> DEFINE used == [issued[jobs[j].challenge] EXCEPT !.status = "used"]
      <4>1. used \in Challenge /\ used # None /\ used.network = issued[jobs[j].challenge].network
        BY <1>2, <2>1, NoneIsNoRecord DEF Challenge
      <4>2. issued' = [issued EXCEPT ![jobs[j].challenge] = used]
        BY <3>2
      <4> HIDE DEF used
      <4> QED BY <1>1, <1>2, <2>1, <4>1, <4>2 DEF Grows
    <3> QED BY <3>1, <3>2, SameIssued DEF SessionInv
  <2>4. jobs' \in [Jobs -> Job] /\ Shaped'
    <3>1. PICK answer \in {"accepted", "failed"} : jobs' = [jobs EXCEPT ![j].answer = answer]
      BY <1>3 DEF ApiVerifies
    <3> DEFINE job == [jobs[j] EXCEPT !.answer = answer]
    <3>2. /\ job \in Job /\ job.step = "verify"
          /\ job.address = jobs[j].address /\ job.challenge = jobs[j].challenge
      BY <1>1, <2>1 DEF Job
    <3>3. jobs' = [jobs EXCEPT ![j] = job]
      BY <3>1
    <3>4. issued[jobs[j].challenge] # None
      BY <1>1, <2>1 DEF Shaped
    <3>5. job.address \in Wallets /\ job.challenge \in Challenges /\ issued'[job.challenge] # None
      BY <1>2, <2>1, <2>3, <3>2, <3>4 DEF Grows
    <3> HIDE DEF job
    <3> QED BY <2>3, <3>2, <3>3, <3>5, Works
  <2>5. Kept' /\ OneAsked' /\ Known'
    BY <2>1, <2>3, Stays
  <2> QED BY <2>1, <2>2, <2>3, <2>4, <2>5 DEF SessionInv, TypeOK, Grows
<1>4. CASE Verified(j)
  <2>1. UNCHANGED <<world, past>> /\ UNCHANGED <<deployed, issued, cookie, host>> /\ jobs[j].step = "verify"
    BY <1>4 DEF Verified, world
  <2>2. Grows
    BY <2>1, SameIssued DEF SessionInv
  <2>3. CASE Fail(j) /\ UNCHANGED <<place, chosenOn>>
    BY <2>1, <2>2, <2>3, Fails, TidySteps
  <2>4. CASE /\ store' = ClearPending(store)
             /\ page' = [page EXCEPT !.session = jobs[j].address, !.stage = "authenticated"]
             /\ chosenOn' = None
             /\ Done(j)
             /\ UNCHANGED <<place, module, leaving>>
    <3>1. page' \in Page /\ page'.network = page.network /\ page'.pendingHub = page.pendingHub
      BY <1>1, <1>2, <2>1, <2>4 DEF Page, Stages
    <3>2. store' \in Store /\ store'.pending = None /\ store'.selected = None
      BY <1>1, <2>4 DEF ClearPending, Store
    <3>3. jobs' \in [Jobs -> Job] /\ Shaped'
      BY <2>2, <2>4, Ends
    <3>4. Kept'
      BY <2>1, <2>4, <3>1, <3>2 DEF SessionInv, Kept, Ours
    <3>5. OneAsked' /\ Known'
      BY <2>4 DEF SessionInv, OneAsked, Known
    <3> QED BY <2>1, <2>4, <3>1, <3>2, <3>3, <3>4, <3>5 DEF SessionInv, TypeOK
  <2>5. CASE Load(Empty, [store EXCEPT !.user = jobs[j].address])
    <3> DEFINE s == [store EXCEPT !.user = jobs[j].address]
    <3>1. s \in Store /\ s.pending = store.pending /\ s.selected = store.selected
      BY <1>1, <1>2, <2>1 DEF Store
    <3>2. Empty \in Redirected
      BY DEF Empty, Redirected
    <3> QED BY <1>1, <2>1, <2>5, <3>1, <3>2, LoadSteps
  <2> QED BY <1>4, <2>3, <2>4, <2>5 DEF Verified
<1> QED BY <1>3, <1>4

\* What neither the page nor the person does.
LEMMA WorldSteps ==
  ASSUME SessionInv, World
  PROVE  SessionInv'
<1>1. /\ issued \in [Challenges -> Challenge \cup {None}] /\ jobs \in [Jobs -> Job] /\ Shaped
  BY DEF SessionInv, TypeOK
<1>2. UNCHANGED <<host, place, past, page, module, leaving, store, jobs, chosenOn>>
      /\ deployed' \in Networks /\ cookie' \in Wallets \cup {None}
  BY DEF World, SessionEnds, Redeploy, ChallengeExpires, SessionInv, TypeOK
<1>3. Grows
  <2>1. CASE UNCHANGED issued
    BY <2>1, SameIssued DEF SessionInv
  <2>2. ASSUME NEW c \in Challenges, ChallengeExpires(c) PROVE Grows
    <3> DEFINE gone == [issued[c] EXCEPT !.status = "expired"]
    <3>1. gone \in Challenge /\ gone # None /\ gone.network = issued[c].network
      BY <1>1, <2>2, NoneIsNoRecord DEF ChallengeExpires, Challenge
    <3>2. issued' = [issued EXCEPT ![c] = gone]
      BY <2>2 DEF ChallengeExpires
    <3> HIDE DEF gone
    <3> QED BY <1>1, <3>1, <3>2 DEF Grows
  <2> QED BY <2>1, <2>2 DEF World, SessionEnds, Redeploy
<1>4. Kept' /\ OneAsked' /\ Known'
  BY <1>2, <1>3, Stays
<1>5. Shaped'
  BY <1>1, <1>2, <1>3 DEF Shaped, Grows
<1> QED BY <1>2, <1>3, <1>4, <1>5 DEF SessionInv, TypeOK, Grows

-------------------------------------------------------------------------------
(***************************************************************************)
(* The theorems.                                                            *)
(***************************************************************************)

LEMMA StartInv == Init => SessionInv
<1> SUFFICES ASSUME Init PROVE SessionInv
  OBVIOUS
<1>1. PICK j \in Jobs : jobs = [[k \in Jobs |-> Idle] EXCEPT ![j].step = "restoring"]
  BY DEF Init
<1>2. jobs \in [Jobs -> Job] /\ \A k \in Jobs : jobs[k].step \in {"idle", "restoring"}
  BY <1>1 DEF Idle, Job
<1>3. page \in Page /\ page.pendingHub = None
  BY DEF Init, Page, Stages
<1>4. store \in Store /\ store.pending = None /\ store.selected = None
  BY DEF Init, Store
<1>5. module \in Module /\ module.signRequests = 0
  BY DEF Init, Module, Empty, Redirected
<1>6. Shaped /\ Kept /\ OneAsked /\ Known
  BY <1>2, <1>3, <1>4, <1>5 DEF Init, Shaped, Kept, OneAsked, Known
<1> QED BY <1>2, <1>3, <1>4, <1>5, <1>6 DEF Init, SessionInv, TypeOK

LEMMA StepInv == SessionInv /\ [Next]_vars => SessionInv'
<1> SUFFICES ASSUME SessionInv, [Next]_vars PROVE SessionInv'
  OBVIOUS
<1>1. CASE UNCHANGED vars
  BY <1>1 DEF vars, SessionInv, TypeOK, Shaped, Kept, Ours, OneAsked, Known
<1>2. CASE Tab
  BY <1>2, Navigations, Visits, Shows, SignsWithHub, Starts, MiniAppSteps DEF Tab
<1>3. CASE World
  BY <1>3, WorldSteps
<1>4. ASSUME NEW j \in Jobs, Flow(j) PROVE SessionInv'
  BY <1>4, Restores, Resumes, ChallengeSteps, MiniAppSteps, Verifications DEF Flow
<1> QED BY <1>1, <1>2, <1>3, <1>4 DEF Next

THEOREM SafetyInvariant == Spec => []SessionInv
BY StartInv, StepInv, PTL DEF Spec

THEOREM TypeCorrect == Spec => []TypeOK
<1>1. SessionInv => TypeOK
  BY DEF SessionInv
<1> QED BY <1>1, SafetyInvariant, PTL

\* However many functions of a load try, the Hub is asked for one signature.
THEOREM AskedOnce == Spec => []OneSignRequest
<1>1. SessionInv => OneSignRequest
  BY DEF SessionInv, OneAsked, OneSignRequest
<1> QED BY <1>1, SafetyInvariant, PTL

\* No load asks for a signature of another network's challenge.
THEOREM NeverForeign == Spec => []SignsForThisNetwork
<1>1. SessionInv => SignsForThisNetwork
  BY DEF SessionInv, Kept, Ours, SignsForThisNetwork
<1> QED BY <1>1, SafetyInvariant, PTL

\* An address that was chosen is not asked for again before it was used.
THEOREM ChosenOnce == Spec => []ChoosesOnce
<1>1. SessionInv => ChoosesOnce
  <2> SUFFICES ASSUME SessionInv, leaving # None, leaving.command = "choose-address"
               PROVE  chosenOn # page.network
    BY DEF ChoosesOnce
  <2>1. chosenOn = None /\ page.network \in Networks
    BY DEF SessionInv, TypeOK, Page, Known
  <2> QED BY <2>1, WebSessionAssumption
<1> QED BY <1>1, SafetyInvariant, PTL

===============================================================================
