--------------------------- MODULE MediaPageProofs ---------------------------
(***************************************************************************)
(* Proofs about MediaPage, for every set of downloads and deletes and any  *)
(* number of failures.                                                     *)
(***************************************************************************)
EXTENDS MediaPage, TLAPS

(***************************************************************************)
(* The inductive invariant                                                 *)
(***************************************************************************)

\* The page's part of TypeOK, and the services'.
PageOK ==
    /\ channel \in {"none", "joining", "joined"}
    /\ flow \in [Flows -> FlowStates]
    /\ pending \in [Keys -> Flows \cup {"none"}]
    /\ \A k \in Keys, f \in Flows : pending[k] = f =>
            flow[f] \in Waiting /\ k \in WaitKeys(f)
    /\ timers = {f \in Flows : flow[f] \in Waiting}
    /\ displaced \subseteq Flows

ServiceOK ==
    /\ asked \subseteq Flows
    /\ file \subseteq {"active", "deleted"}
    /\ object \in {"none", "signed", "stored", "ended"}
    /\ confirmed \in Nat /\ recorded \in 0..confirmed /\ announced \in 0..confirmed
    /\ inbox \subseteq Notifications
    /\ ignored \subseteq [flow : Flows, event : Events, joined : BOOLEAN]
    /\ faults \in 0..MaxFaults

\* A flow that waits is registered under all its keys, unless it was displaced.
Registered ==
    \A f \in Flows : flow[f] \in Waiting /\ f \notin displaced =>
        \A k \in WaitKeys(f) : pending[k] = f

\* Only an upload stores.
UploadsStore ==
    \A f \in Flows : flow[f] \in {"storing", "stored", "processing"} => f \in Uploads

PageInv == PageOK /\ Registered

\* The keys that the notification job puts into a row.
Worded(n) ==
    /\ n.event = "upload_expired" => n.path = "uploads"
    /\ n.event = "delete_rejected" => n.path = "files"
    /\ n.event \in {"upload_completed", "file_deleted"} =>
           n.request = "none" /\ n.path = "files"

\* A success on its way, and one that was reported, is one of the file: a delete
\* has deleted a row, and the move saga has confirmed an upload.
Truthful(n) ==
    /\ n.event = "file_deleted" => "deleted" \in file
    /\ n.event = "upload_completed" => confirmed > 0

Reported ==
    /\ \A x \in Deletes : flow[x] = "done" => "deleted" \in file
    /\ \A u \in Uploads : flow[u] = "done" => confirmed > 0

InboxInv == \A n \in inbox : Worded(n) /\ Truthful(n)

\* The rows come from the balance job, one for each confirmation it has read;
\* after a delete there is an active one only if it has read two.
RowInv ==
    /\ Uploads = {} => confirmed = 0 /\ object \notin {"signed", "stored"}
    /\ recorded > 0 => file # {}
    /\ Uploads # {} /\ file # {} => recorded > 0
    /\ "active" \in file /\ "deleted" \in file => recorded > 1

IInv ==
    /\ PageInv /\ UploadsStore /\ ServiceOK /\ InboxInv /\ RowInv /\ Reported
    /\ AnswerReachesItsWaiter

\* Flows, paths and the absent key are told apart.
LEMMA KeyNames ==
    /\ \A f \in Flows : f # "none" /\ f \notin Paths /\ f \in Keys
    /\ Paths \subseteq Keys /\ "files" \in Paths /\ "uploads" \in Paths
    /\ \A f \in Flows : WaitKeys(f) \subseteq Keys
BY MediaPageAssumption DEF Paths, Keys, WaitKeys

\* The two parts are all of TypeOK.
LEMMA TypeParts == TypeOK <=> PageOK /\ ServiceOK
<1>1. ASSUME pending \in [Keys -> Flows \cup {"none"}]
      PROVE  (\A k \in Keys : pending[k] # "none" =>
                  flow[pending[k]] \in Waiting /\ k \in WaitKeys(pending[k]))
             <=> (\A k \in Keys, f \in Flows : pending[k] = f =>
                      flow[f] \in Waiting /\ k \in WaitKeys(f))
  BY <1>1, KeyNames
<1>. QED BY <1>1 DEF TypeOK, PageOK, ServiceOK


-----------------------------------------------------------------------------
(***************************************************************************)
(* The map of the waiters                                                  *)
(***************************************************************************)

\* A flow that does not change keeps its keys.
LEMMA SameKeys ==
    ASSUME NEW g, flow'[g] = flow[g]
    PROVE  WaitKeys(g)' = WaitKeys(g)
BY DEF WaitKeys

\* A step between states without a waiter leaves the map as it is.
LEMMA MoveKeepsPage ==
    ASSUME PageInv, NEW f \in Flows, NEW at \in FlowStates \ Waiting,
           flow[f] \notin Waiting, flow' = [flow EXCEPT ![f] = at],
           UNCHANGED <<channel, pending, timers, displaced>>
    PROVE  PageInv'
<1>1. /\ flow' \in [Flows -> FlowStates] /\ flow'[f] = at
      /\ \A g \in Flows : g # f => flow'[g] = flow[g] /\ WaitKeys(g)' = WaitKeys(g)
  BY SameKeys DEF PageInv, PageOK
<1>2. \A k \in Keys : pending[k] # f BY DEF PageInv, PageOK
<1>3. PageOK' BY <1>1, <1>2 DEF PageInv, PageOK
<1>4. Registered' BY <1>1 DEF PageInv, Registered
<1>. QED BY <1>3, <1>4 DEF PageInv

\* waitFor: the flows whose keys it takes are displaced.
LEMMA WaitKeepsPage ==
    ASSUME PageInv, NEW f \in Flows, NEW at \in Waiting, WaitFor(f, at),
           flow[f] \notin Waiting, WaitKeys(f)' = WaitKeys(f), UNCHANGED channel
    PROVE  PageInv'
<1>1. /\ flow' \in [Flows -> FlowStates] /\ flow'[f] = at
      /\ \A g \in Flows : g # f => flow'[g] = flow[g] /\ WaitKeys(g)' = WaitKeys(g)
  BY SameKeys DEF WaitFor, PageInv, PageOK, FlowStates, Waiting
<1>2. \A k \in Keys : pending'[k] = IF k \in WaitKeys(f) THEN f ELSE pending[k]
  BY DEF WaitFor
<1>3. pending' \in [Keys -> Flows \cup {"none"}] BY DEF WaitFor, PageInv, PageOK
<1>4. ASSUME NEW k \in Keys, NEW g \in Flows, pending'[k] = g
      PROVE  flow'[g] \in Waiting /\ k \in WaitKeys(g)'
  <2>1. CASE k \in WaitKeys(f) BY <1>1, <1>2, <1>4, <2>1
  <2>2. CASE k \notin WaitKeys(f)
    <3>1. pending[k] = g BY <1>2, <1>4, <2>2
    <3>2. g # f /\ flow[g] \in Waiting /\ k \in WaitKeys(g)
      BY <3>1 DEF PageInv, PageOK
    <3>. QED BY <1>1, <3>2
  <2>. QED BY <2>1, <2>2
<1>5. timers' = {g \in Flows : flow'[g] \in Waiting}
  BY <1>1 DEF WaitFor, StartTimer, PageInv, PageOK
<1>6. displaced' = displaced \cup Others(f) /\ Others(f) \subseteq Flows
  BY KeyNames DEF WaitFor, Others, PageInv, PageOK
<1>7. Registered'
  <2>1. SUFFICES ASSUME NEW g \in Flows, flow'[g] \in Waiting, g \notin displaced',
                        NEW k \in WaitKeys(g)'
                 PROVE  pending'[k] = g
    BY DEF Registered
  <2>2. CASE g = f BY <1>2, <2>1, <2>2, KeyNames
  <2>3. CASE g # f
    <3>1. k \in WaitKeys(g) /\ k \in Keys /\ pending[k] = g
      BY <1>1, <1>6, <2>1, <2>3, KeyNames DEF PageInv, Registered
    <3>2. k \notin WaitKeys(f) BY <1>6, <2>1, <2>3, <3>1, KeyNames DEF Others
    <3>. QED BY <1>2, <3>1, <3>2
  <2>. QED BY <2>2, <2>3
<1>8. PageOK' BY <1>1, <1>3, <1>4, <1>5, <1>6 DEF PageInv, PageOK
<1>. QED BY <1>7, <1>8 DEF PageInv

\* A waiter that is answered or times out takes its keys along, whoever is
\* registered under them.
LEMMA UnregisterKeepsPage ==
    ASSUME PageInv, NEW f \in Flows, NEW at \in FlowStates \ Waiting, Unregister(f),
           flow' = [flow EXCEPT ![f] = at], UNCHANGED channel
    PROVE  PageInv'
<1>1. /\ flow' \in [Flows -> FlowStates] /\ flow'[f] = at
      /\ \A g \in Flows : g # f => flow'[g] = flow[g] /\ WaitKeys(g)' = WaitKeys(g)
  BY SameKeys DEF PageInv, PageOK
<1>2. \A k \in Keys : pending'[k] = IF k \in WaitKeys(f) THEN "none" ELSE pending[k]
  BY DEF Unregister
<1>3. pending' \in [Keys -> Flows \cup {"none"}] BY DEF Unregister, PageInv, PageOK
<1>4. ASSUME NEW k \in Keys, NEW g \in Flows, pending'[k] = g
      PROVE  flow'[g] \in Waiting /\ k \in WaitKeys(g)'
  <2>1. k \notin WaitKeys(f) /\ pending[k] = g BY <1>2, <1>4, KeyNames
  <2>2. g # f /\ flow[g] \in Waiting /\ k \in WaitKeys(g)
    BY <2>1 DEF PageInv, PageOK
  <2>. QED BY <1>1, <2>2
<1>5. timers' = {g \in Flows : flow'[g] \in Waiting}
  BY <1>1 DEF Unregister, PageInv, PageOK
<1>6. displaced' = displaced \cup Others(f) /\ Others(f) \subseteq Flows
  BY KeyNames DEF Unregister, Others, PageInv, PageOK
<1>7. Registered'
  <2>1. SUFFICES ASSUME NEW g \in Flows, flow'[g] \in Waiting, g \notin displaced',
                        NEW k \in WaitKeys(g)'
                 PROVE  pending'[k] = g
    BY DEF Registered
  <2>2. g # f BY <1>1, <2>1
  <2>3. k \in WaitKeys(g) /\ k \in Keys /\ pending[k] = g
    BY <1>1, <1>6, <2>1, <2>2, KeyNames DEF PageInv, Registered
  <2>4. k \notin WaitKeys(f) BY <1>6, <2>1, <2>2, <2>3, KeyNames DEF Others
  <2>. QED BY <1>2, <2>3, <2>4
<1>8. PageOK' BY <1>1, <1>3, <1>4, <1>5, <1>6 DEF PageInv, PageOK
<1>. QED BY <1>7, <1>8 DEF PageInv

\* The sign-out rejects every waiter of the map; the others were displaced.
LEMMA CleanupKeepsPage ==
    ASSUME PageInv, Cleanup, channel' = "none", UNCHANGED displaced
    PROVE  PageInv'
<1>. DEFINE registered == {pending[k] : k \in Keys} \ {"none"}
<1>1. /\ timers' = timers \ registered
      /\ pending' = [k \in Keys |-> "none"]
      /\ flow' = [f \in Flows |-> IF f \in registered THEN "cleaned" ELSE flow[f]]
  BY DEF Cleanup
<1>2. PageOK'
  <2>1. flow' \in [Flows -> FlowStates] BY <1>1 DEF PageInv, PageOK, FlowStates, Over
  <2>2. \A k \in Keys : pending'[k] = "none" BY <1>1
  <2>3. pending' \in [Keys -> Flows \cup {"none"}] BY <1>1
  <2>4. timers' = {f \in Flows : flow'[f] \in Waiting}
    BY <1>1 DEF PageInv, PageOK, Waiting
  <2>. QED BY <2>1, <2>2, <2>3, <2>4, KeyNames DEF PageInv, PageOK
<1>3. Registered'
  <2>1. SUFFICES ASSUME NEW g \in Flows, flow'[g] \in Waiting, g \notin displaced
                 PROVE  FALSE
    BY DEF Registered
  <2>2. g \notin registered /\ flow[g] \in Waiting BY <1>1, <2>1 DEF Waiting
  <2>3. \A k \in WaitKeys(g) : pending[k] = g /\ k \in Keys
    BY <2>1, <2>2, KeyNames DEF PageInv, Registered
  <2>4. WaitKeys(g) # {} BY DEF WaitKeys, Paths
  <2>. QED BY <2>1, <2>2, <2>3, <2>4, KeyNames
<1>. QED BY <1>2, <1>3 DEF PageInv

-----------------------------------------------------------------------------
(***************************************************************************)
(* Notifications                                                           *)
(***************************************************************************)

\* The waiter under one key, if it waits for this event.
Match(n, k) ==
    k # "none" /\ pending[k] # "none" /\ n.event \in EventTypes(pending[k])

\* The request is tried before the path.
LEMMA FoundByKeys ==
    ASSUME NEW n
    PROVE  Found(n) = IF Match(n, n.request) THEN {pending[n.request]}
                      ELSE IF Match(n, n.path) THEN {pending[n.path]} ELSE {}
<1>. DEFINE keys == LookupKeys(n)
            First == {j \in 1..2 : Match(n, keys[j]) /\ \A h \in 1..(j - 1) : ~Match(n, keys[h])}
<1>1. keys[1] = n.request /\ keys[2] = n.path /\ DOMAIN keys = 1..2 BY DEF LookupKeys
<1>2. Found(n) = {pending[keys[i]] : i \in First}
  BY <1>1 DEF Found, Match
<1>3. /\ 1 \in First <=> Match(n, n.request)
      /\ 2 \in First <=> Match(n, n.path) /\ ~Match(n, n.request)
      /\ First \subseteq {1, 2}
  BY <1>1
<1>. HIDE DEF First
<1>4. CASE Match(n, n.request)
  <2>1. First = {1} BY <1>3, <1>4
  <2>. QED BY <1>1, <1>2, <1>4, <2>1
<1>5. CASE ~Match(n, n.request) /\ Match(n, n.path)
  <2>1. First = {2} BY <1>3, <1>5
  <2>. QED BY <1>1, <1>2, <1>5, <2>1
<1>6. CASE ~Match(n, n.request) /\ ~Match(n, n.path)
  <2>1. First = {} BY <1>3, <1>6
  <2>. QED BY <1>2, <1>6, <2>1
<1>. QED BY <1>4, <1>5, <1>6

\* Who is found waits for the event.
LEMMA FoundWaits ==
    ASSUME PageInv, ServiceOK, NEW n \in inbox, NEW f \in Found(n)
    PROVE  f \in Flows /\ flow[f] \in Waiting /\ n.event \in EventTypes(f)
<1>1. n.request \in Keys \cup {"none"} /\ n.path \in Keys \cup {"none"}
  BY KeyNames DEF ServiceOK, Notifications
<1>2. PICK k \in Keys : Match(n, k) /\ f = pending[k] BY <1>1, FoundByKeys DEF Match
<1>. QED BY <1>2 DEF Match, PageInv, PageOK

\* A flow that holds its keys is found by the notification meant for it.
LEMMA AddressedIsFound ==
    ASSUME IInv, NEW n \in inbox, NEW f \in Addressed(n), f \notin displaced,
           n.event # "upload_failed"
    PROVE  f \in Found(n)
<1>1. /\ f \in Flows /\ flow[f] \in Waiting /\ n.event \in EventTypes(f)
      /\ \/ n.request = f
         \/ n.event \in {"upload_completed", "file_deleted"}
      /\ n.request \in Flows \cup {"none"}
      /\ \A k \in WaitKeys(f) : pending[k] = f
      /\ Worded(n)
  BY DEF Addressed, IInv, PageInv, Registered, InboxInv, ServiceOK, Notifications
<1>2. f # "none" /\ f \notin Paths BY <1>1, KeyNames
<1>3. n.request = f \/ n.request = "none" BY <1>1 DEF Worded
<1>4. CASE WaitKeys(f) = {f}
  <2>1. n.event \notin {"upload_completed", "file_deleted"}
    BY <1>1, <1>2, <1>4, KeyNames, MediaPageAssumption
       DEF EventTypes, WaitKeys, Waiting, Flows, Paths
  <2>2. Match(n, n.request) /\ pending[n.request] = f BY <1>1, <1>2, <1>4, <2>1 DEF Match
  <2>. QED BY <2>2, FoundByKeys
<1>5. CASE WaitKeys(f) # {f}
  <2>1. /\ f \in Deletes => WaitKeys(f) = {"files"}
        /\ f \notin Deletes => WaitKeys(f) = Paths /\ flow[f] = "processing"
    BY <1>1, <1>5 DEF WaitKeys, Waiting
  <2>2. f \notin Downloads
    BY <1>1, <2>1, MediaPageAssumption DEF IInv, UploadsStore
  <2>3. n.path \in WaitKeys(f)
    BY <1>1, <2>1, <2>2 DEF EventTypes, Worded, Paths
  <2>4. n.path # "none" /\ pending[n.path] = f BY <1>1, <2>1, <2>3 DEF Paths
  <2>5. Match(n, n.path) BY <1>1, <1>2, <2>4 DEF Match
  <2>6. ~Match(n, n.request)
    <3>1. f \notin WaitKeys(f) BY <1>2, <2>1 DEF Paths
    <3>2. \A g \in Flows : f \in WaitKeys(g) => g = f
      BY <1>2 DEF WaitKeys, Paths
    <3>3. pending[f] = "none" BY <1>1, <3>1, <3>2, KeyNames DEF IInv, PageInv, PageOK
    <3>. QED BY <1>3, <3>3 DEF Match
  <2>. QED BY <2>4, <2>5, <2>6, FoundByKeys
<1>. QED BY <1>4, <1>5

-----------------------------------------------------------------------------
(***************************************************************************)
(* Steps                                                                   *)
(***************************************************************************)

\* A failure is counted.
LEMMA FaultCounted ==
    ASSUME ServiceOK, \/ faults' = faults
                      \/ \E kind \in PageFaultKinds : Fault(kind)
    PROVE  faults' \in 0..MaxFaults
BY MediaPageAssumption DEF ServiceOK, Fault

\* What the page does on its own account disturbs no service, and reports no
\* success.
LEMMA PageOnly ==
    ASSUME IInv, UNCHANGED <<serviceVars, inbox, ignored>>, faults' \in 0..MaxFaults,
           displaced \subseteq displaced',
           \A g \in Flows : flow'[g] = flow[g] \/ flow'[g] # "done"
    PROVE  ServiceOK' /\ InboxInv' /\ RowInv' /\ Reported' /\ AnswerReachesItsWaiter'
<1>1. UNCHANGED <<asked, file, object, confirmed, recorded, announced, inbox, ignored>>
  BY DEF serviceVars, uploadVars
<1>2. ServiceOK' BY <1>1 DEF IInv, ServiceOK
<1>3. InboxInv' BY <1>1 DEF IInv, InboxInv, Worded, Truthful
<1>4. RowInv' BY <1>1 DEF IInv, RowInv, Flows
<1>5. Reported' BY <1>1 DEF IInv, Reported, Flows
<1>6. AnswerReachesItsWaiter' BY <1>1 DEF IInv, AnswerReachesItsWaiter
<1>. QED BY <1>2, <1>3, <1>4, <1>5, <1>6

\* The page's part: it moves one flow, by the lemmas above.
LEMMA PageSteps ==
    ASSUME IInv,
           \/ SignIn \/ Joined \/ SignOut
           \/ \E f \in Flows : Click(f) \/ IntentRefused(f) \/ Wait(f) \/ Timeout(f)
           \/ \E u \in Uploads : PutFails(u) \/ WaitForOutcome(u)
    PROVE  IInv'
<1>. USE DEF IInv
<1>0. \A kind : Fault(kind) => faults' = faults + 1 /\ faults < MaxFaults BY DEF Fault
<1>1. CASE SignIn \/ Joined
  <2>1. /\ UNCHANGED <<flow, pending, timers, serviceVars, inbox, historyVars>>
        /\ channel' \in {"joining", "joined"}
    BY <1>1 DEF SignIn, Joined
  <2>2. faults' \in 0..MaxFaults
    BY <1>0, <1>1, MediaPageAssumption DEF SignIn, Joined, ServiceOK
  <2>3. PageInv' /\ UploadsStore'
    BY <2>1 DEF PageInv, PageOK, Registered, UploadsStore, WaitKeys, historyVars
  <2>. QED BY <2>1, <2>2, <2>3, PageOnly DEF historyVars
<1>2. CASE SignOut
  <2>1. /\ Cleanup /\ channel' = "none" /\ UNCHANGED <<serviceVars, inbox, historyVars>>
    BY <1>2 DEF SignOut
  <2>2. faults' \in 0..MaxFaults
    BY <1>0, <1>2, MediaPageAssumption DEF SignOut, ServiceOK
  <2>3. PageInv' BY <2>1, CleanupKeepsPage DEF historyVars
  <2>4. \A g \in Flows : flow'[g] \in {flow[g], "cleaned"} BY <2>1 DEF Cleanup
  <2>5. UploadsStore' BY <2>4 DEF UploadsStore
  <2>. QED BY <2>1, <2>2, <2>3, <2>4, <2>5, PageOnly DEF historyVars
<1>3. ASSUME NEW f \in Flows, Click(f) \/ IntentRefused(f) \/ (f \in Uploads /\ PutFails(f))
      PROVE  IInv'
  <2>1. PICK at \in {"asking", "refused"} :
            /\ flow' = [flow EXCEPT ![f] = at]
            /\ flow[f] \in {"none", "asking", "asked", "storing", "stored"}
            /\ at = "asking" => flow[f] = "none"
    BY <1>3 DEF Click, IntentRefused, PutFails
  <2>2. UNCHANGED <<channel, pending, timers, serviceVars, inbox, historyVars>>
    BY <1>3 DEF Click, IntentRefused, PutFails
  <2>3. faults' \in 0..MaxFaults
    BY <1>0, <1>3, MediaPageAssumption DEF Click, IntentRefused, PutFails, ServiceOK
  <2>4. PageInv'
    BY <2>1, <2>2, MoveKeepsPage DEF FlowStates, Over, Waiting, historyVars
  <2>5. \A g \in Flows : flow'[g] = IF g = f THEN at ELSE flow[g]
    BY <2>1 DEF PageInv, PageOK
  <2>6. UploadsStore' BY <2>5 DEF UploadsStore
  <2>. QED BY <2>1, <2>2, <2>3, <2>4, <2>5, <2>6, PageOnly DEF historyVars
<1>4. ASSUME NEW f \in Flows, Wait(f) \/ (f \in Uploads /\ WaitForOutcome(f))
      PROVE  IInv'
  <2>1. PICK at \in Waiting :
            /\ WaitFor(f, at)
            /\ \/ flow[f] = "asked" /\ at = "waiting"
               \/ flow[f] = "stored" /\ at = "processing" /\ f \in Uploads
    BY <1>4 DEF Wait, WaitForOutcome, Waiting
  <2>2. UNCHANGED <<channel, serviceVars, inbox, ignored, faults>>
    BY <1>4 DEF Wait, WaitForOutcome
  <2>3. \A g \in Flows : flow'[g] = IF g = f THEN at ELSE flow[g]
    BY <2>1 DEF WaitFor, PageInv, PageOK
  <2>4. WaitKeys(f)' = WaitKeys(f) BY <2>1, <2>3 DEF WaitKeys
  <2>5. PageInv' BY <2>1, <2>2, <2>4, WaitKeepsPage DEF Waiting
  <2>6. UploadsStore' BY <2>1, <2>3 DEF UploadsStore
  <2>7. displaced \subseteq displaced' BY <2>1 DEF WaitFor
  <2>8. faults' \in 0..MaxFaults BY <2>2 DEF ServiceOK
  <2>. QED BY <2>2, <2>3, <2>5, <2>6, <2>7, <2>8, PageOnly DEF Waiting
<1>5. ASSUME NEW f \in Flows, Timeout(f) PROVE IInv'
  <2>1. /\ Unregister(f) /\ flow' = [flow EXCEPT ![f] = "timeout"]
        /\ UNCHANGED <<channel, serviceVars, inbox, ignored, faults>>
    BY <1>5 DEF Timeout
  <2>2. PageInv' BY <2>1, UnregisterKeepsPage DEF FlowStates, Over, Waiting
  <2>3. \A g \in Flows : flow'[g] = IF g = f THEN "timeout" ELSE flow[g]
    BY <2>1 DEF PageInv, PageOK
  <2>4. UploadsStore' BY <2>3 DEF UploadsStore
  <2>5. displaced \subseteq displaced' /\ faults' \in 0..MaxFaults
    BY <2>1 DEF Unregister, ServiceOK
  <2>. QED BY <2>1, <2>2, <2>3, <2>4, <2>5, PageOnly
<1>. QED BY <1>1, <1>2, <1>3, <1>4, <1>5 DEF Flows

\* A row is pushed: whoever is found is answered and leaves the map; nobody who
\* is addressed and holds its keys is passed by.
LEMMA PushStep ==
    ASSUME IInv, NEW n \in inbox, Push(n)
    PROVE  IInv'
<1>. USE DEF IInv
<1>1. /\ UNCHANGED <<channel, asked, file, object, confirmed, recorded, announced, faults>>
      /\ inbox' = inbox \ {n} /\ faults' \in 0..MaxFaults
  BY DEF Push, ServiceOK, serviceVars, uploadVars
<1>2. /\ n.event \in Events /\ Worded(n) /\ Truthful(n)
      /\ \A answered : Addressed(n) \ answered \subseteq Flows
  BY DEF ServiceOK, Notifications, InboxInv, Addressed
<1>3. InboxInv' /\ RowInv' BY <1>1 DEF InboxInv, Worded, Truthful, RowInv
<1>4. ASSUME NEW answered, PassBy(n, answered) PROVE ServiceOK'
  <2>1. \A f \in Flows : [flow |-> f, event |-> n.event, joined |-> channel = "joined"]
                             \in [flow : Flows, event : Events, joined : BOOLEAN]
    BY <1>2
  <2>2. ASSUME NEW i \in ignored' PROVE i \in [flow : Flows, event : Events, joined : BOOLEAN]
    <3>1. CASE i \in ignored BY <3>1 DEF ServiceOK
    <3>2. CASE i \notin ignored
      <4>1. PICK f \in Addressed(n) \ answered :
                i = [flow |-> f, event |-> n.event, joined |-> channel = "joined"]
        BY <1>4, <3>2 DEF PassBy
      <4>. QED BY <1>2, <2>1, <4>1
    <3>. QED BY <3>1, <3>2
  <2>. QED BY <1>1, <2>2 DEF ServiceOK
<1>5. CASE /\ channel # "joined" /\ PassBy(n, {})
           /\ UNCHANGED <<flow, pending, timers, displaced>>
  <2>1. PageInv' /\ UploadsStore' /\ Reported'
    BY <1>1, <1>5 DEF PageInv, PageOK, Registered, UploadsStore, WaitKeys, Reported
  <2>2. ASSUME NEW i \in ignored', i.joined
        PROVE  i.flow \in displaced \/ i.event = "upload_failed"
    <3>1. CASE i \in ignored BY <2>2, <3>1 DEF AnswerReachesItsWaiter
    <3>2. CASE i \notin ignored
      <4>1. PICK f \in Addressed(n) :
                i = [flow |-> f, event |-> n.event, joined |-> channel = "joined"]
        BY <1>5, <3>2 DEF PassBy
      <4>2. ~i.joined BY <1>5, <4>1
      <4>. QED BY <2>2, <4>2
    <3>. QED BY <3>1, <3>2
  <2>3. AnswerReachesItsWaiter' BY <1>5, <2>2 DEF AnswerReachesItsWaiter
  <2>. QED BY <1>3, <1>4, <1>5, <2>1, <2>3
<1>6. CASE HandleNotification(n)
  <2>1. PassBy(n, Found(n)) BY <1>6 DEF HandleNotification
  <2>2. /\ PageInv' /\ UploadsStore' /\ displaced \subseteq displaced'
        /\ \A g \in Flows :
              \/ flow'[g] = flow[g]
              \/ flow'[g] = AfterNotification(n.event) /\ n.event \in EventTypes(g)
    <3>1. CASE UNCHANGED <<flow, pending, timers, displaced>>
      BY <1>1, <3>1 DEF PageInv, PageOK, Registered, UploadsStore, WaitKeys
    <3>2. ASSUME NEW f \in Found(n), Unregister(f),
                 flow' = [flow EXCEPT ![f] = AfterNotification(n.event)]
          PROVE  /\ PageInv' /\ UploadsStore' /\ displaced \subseteq displaced'
                 /\ \A g \in Flows :
                       \/ flow'[g] = flow[g]
                       \/ flow'[g] = AfterNotification(n.event) /\ n.event \in EventTypes(g)
      <4>1. f \in Flows /\ flow[f] \in Waiting /\ n.event \in EventTypes(f)
        BY <3>2, FoundWaits
      <4>2. AfterNotification(n.event) \in {"storing", "done", "refused"}
        BY DEF AfterNotification
      <4>3. PageInv'
        BY <1>1, <3>2, <4>1, <4>2, UnregisterKeepsPage DEF FlowStates, Over, Waiting
      <4>4. \A g \in Flows :
                flow'[g] = IF g = f THEN AfterNotification(n.event) ELSE flow[g]
        BY <3>2 DEF PageInv, PageOK
      <4>5. AfterNotification(n.event) = "storing" => f \in Uploads
        BY <4>1 DEF AfterNotification, EventTypes, Flows
      <4>6. UploadsStore' BY <4>2, <4>4, <4>5 DEF UploadsStore
      <4>7. displaced \subseteq displaced' BY <3>2 DEF Unregister
      <4>. QED BY <4>1, <4>3, <4>4, <4>6, <4>7
    <3>. QED BY <1>6, <3>1, <3>2 DEF HandleNotification
  <2>3. Reported'
    <3>1. ASSUME NEW g \in Flows, n.event \in EventTypes(g),
                 AfterNotification(n.event) = "done"
          PROVE  /\ g \in Deletes => "deleted" \in file
                 /\ g \in Uploads => confirmed > 0
      BY <1>2, <3>1, MediaPageAssumption DEF EventTypes, AfterNotification, Truthful
    <3>. QED BY <1>1, <2>2, <3>1 DEF Reported, Flows
  <2>4. AnswerReachesItsWaiter'
    BY <1>2, <2>1, <2>2, AddressedIsFound DEF PassBy, AnswerReachesItsWaiter
  <2>. QED BY <1>3, <1>4, <2>1, <2>2, <2>3, <2>4
<1>. QED BY <1>5, <1>6 DEF Push

\* What happens outside the page does not change it.
LEMMA PageRests ==
    ASSUME IInv, UNCHANGED <<pageVars, historyVars>>
    PROVE  PageInv' /\ UploadsStore' /\ AnswerReachesItsWaiter'
BY DEF IInv, PageInv, PageOK, Registered, UploadsStore, WaitKeys, pageVars, historyVars,
       AnswerReachesItsWaiter

\* A new row has its keys, and tells the truth.
LEMMA AnnounceStep ==
    ASSUME IInv, NEW n, Announce(n), n \in Notifications, Worded(n), Truthful(n)',
           \A m \in inbox : Truthful(m) => Truthful(m)'
    PROVE  InboxInv' /\ inbox' \subseteq Notifications
BY DEF IInv, InboxInv, Announce, ServiceOK, Worded

\* The page's requests that the gateway and the store answer.
LEMMA RequestSteps ==
    ASSUME IInv, NEW f \in Flows, IntentAccepted(f) \/ (f \in Uploads /\ Put(f))
    PROVE  IInv'
<1>. USE DEF IInv
<1>1. PICK at \in {"asked", "stored"} :
          /\ flow' = [flow EXCEPT ![f] = at] /\ flow[f] \in {"asking", "storing"}
          /\ at = "stored" => f \in Uploads
  BY DEF IntentAccepted, Put
<1>2. UNCHANGED <<channel, pending, timers, file, confirmed, recorded, announced, inbox,
                  displaced, ignored, faults>>
  BY DEF IntentAccepted, Put, uploadVars, historyVars
<1>3. PageInv' BY <1>1, <1>2, MoveKeepsPage DEF FlowStates, Over, Waiting
<1>4. \A g \in Flows : flow'[g] = IF g = f THEN at ELSE flow[g]
  BY <1>1 DEF PageInv, PageOK
<1>5. UploadsStore' /\ Reported' BY <1>1, <1>2, <1>4 DEF UploadsStore, Reported, Flows
<1>6. asked' \subseteq asked \cup {f} /\ object' \in {object, "stored"}
  BY DEF IntentAccepted, Put
<1>7. ServiceOK' BY <1>2, <1>6 DEF ServiceOK
<1>8. Uploads = {} => object' = object BY DEF IntentAccepted
<1>9. InboxInv' /\ RowInv'
  BY <1>1, <1>2, <1>6, <1>8 DEF InboxInv, Worded, Truthful, RowInv
<1>10. AnswerReachesItsWaiter' BY <1>2 DEF AnswerReachesItsWaiter
<1>. QED BY <1>3, <1>5, <1>7, <1>9, <1>10

\* An answer that leaves the rows of the file alone.
LEMMA AnswerStep ==
    ASSUME IInv, NEW n, Announce(n), n \in Notifications, Worded(n), Truthful(n),
           asked' \subseteq asked, object' \in {object, "signed", "ended"},
           Uploads # {} \/ UNCHANGED object, faults' \in 0..MaxFaults,
           UNCHANGED <<pageVars, file, uploadVars, historyVars>>
    PROVE  IInv'
<1>. USE DEF IInv
<1>1. InboxInv' /\ inbox' \subseteq Notifications
  BY AnnounceStep DEF Truthful, uploadVars
<1>2. ServiceOK' /\ RowInv' /\ Reported'
  BY <1>1 DEF ServiceOK, RowInv, Reported, pageVars, uploadVars, historyVars
<1>. QED BY <1>1, <1>2, PageRests

\* The services.
LEMMA ServiceSteps ==
    ASSUME IInv,
           \/ \E f \in Flows : DropIntent(f)
           \/ \E f \in Downloads : SignDownload(f)
           \/ \E x \in Deletes : DeleteFile(x)
           \/ \E u \in Uploads : AnswerUpload(u) \/ EndUpload(u)
    PROVE  IInv'
<1>. USE DEF IInv
<1>0. /\ \A kind : Fault(kind) => faults' = faults + 1 /\ faults < MaxFaults
      /\ \A f : Committed(f) => /\ asked' \subseteq asked
                                /\ faults' \in {faults, faults + 1} /\ faults' \in 0..MaxFaults
      /\ faults \in 0..MaxFaults
  BY MediaPageAssumption DEF Fault, Committed, ServiceOK
<1>. USE DEF Notification, Notifications, Events, Paths, Flows, Worded, Truthful
<1>1. ASSUME NEW f \in Flows, DropIntent(f) PROVE IInv'
  <2>1. /\ asked' \subseteq asked /\ faults' \in 0..MaxFaults
        /\ UNCHANGED <<pageVars, file, object, uploadVars, inbox, historyVars>>
    BY <1>0, <1>1, MediaPageAssumption DEF DropIntent, ServiceOK
  <2>2. ServiceOK' /\ RowInv' /\ Reported' /\ InboxInv'
    BY <2>1 DEF ServiceOK, RowInv, Reported, InboxInv, pageVars, uploadVars, historyVars
  <2>. QED BY <2>1, <2>2, PageRests
<1>2. ASSUME NEW f \in Downloads, SignDownload(f) PROVE IInv'
  <2>1. PICK event \in {"download_ready", "download_rejected"} :
            Announce(Notification(event, f, "files"))
    BY <1>2 DEF SignDownload, DownloadAnswer
  <2>2. /\ asked' \subseteq asked /\ faults' \in 0..MaxFaults
        /\ UNCHANGED <<pageVars, file, object, uploadVars, historyVars>>
    BY <1>0, <1>2, MediaPageAssumption DEF SignDownload, ServiceOK
  <2>. QED BY <2>1, <2>2, AnswerStep
<1>3. ASSUME NEW x \in Deletes, DeleteFile(x) PROVE IInv'
  <2>1. /\ asked' \subseteq asked /\ faults' \in 0..MaxFaults
        /\ UNCHANGED <<pageVars, object, uploadVars, historyVars>>
    BY <1>0, <1>3 DEF DeleteFile
  <2>2. CASE /\ "active" \in file /\ file' = {"deleted"}
             /\ Announce(Notification("file_deleted", "none", "files"))
    <3>1. InboxInv' /\ inbox' \subseteq Notifications
      BY <2>1, <2>2, AnnounceStep DEF uploadVars
    <3>2. ServiceOK' /\ RowInv' /\ Reported'
      BY <2>1, <2>2, <3>1 DEF ServiceOK, RowInv, Reported, pageVars, uploadVars, historyVars
    <3>. QED BY <2>1, <3>1, <3>2, PageRests
  <2>3. CASE /\ Announce(Notification("delete_rejected", x, "files"))
             /\ UNCHANGED file
    BY <2>1, <2>3, AnswerStep
  <2>. QED BY <1>3, <2>2, <2>3 DEF DeleteFile, UpdateRows
<1>4. ASSUME NEW u \in Uploads, AnswerUpload(u) PROVE IInv'
  <2>1. /\ asked' \subseteq asked /\ faults' \in 0..MaxFaults
        /\ UNCHANGED <<pageVars, file, uploadVars, historyVars>>
        /\ object' \in {object, "signed"}
    BY <1>0, <1>4 DEF AnswerUpload
  <2>2. PICK n : /\ Announce(n)
                 /\ n \in {Notification("upload_ready", u, "uploads"),
                           Notification("upload_rejected", u, "none")}
    BY <1>4 DEF AnswerUpload
  <2>. QED BY <2>1, <2>2, AnswerStep
<1>5. ASSUME NEW u \in Uploads, EndUpload(u) PROVE IInv'
  <2>1. /\ object' = "ended" /\ asked' \subseteq asked /\ faults' \in 0..MaxFaults
        /\ UNCHANGED <<pageVars, file, uploadVars, historyVars>>
    BY <1>0, <1>5 DEF EndUpload
  <2>2. PICK n : /\ Announce(n)
                 /\ n \in {Notification("upload_failed", "none", "none"),
                           Notification("upload_expired", u, "uploads")}
    BY <1>5 DEF EndUpload
  <2>. QED BY <2>1, <2>2, AnswerStep
<1>. QED BY <1>1, <1>2, <1>3, <1>4, <1>5

\* The two jobs that read the confirmations: the row is there once the balance
\* job has read one, whatever the notification job has told the page.
LEMMA JobSteps ==
    ASSUME IInv, JobStep
    PROVE  IInv'
<1>. USE DEF IInv
<1>0. Uploads # {} BY DEF ServiceOK, RowInv, JobStep, Confirm, InsertRow, AnnounceCompleted
<1>1. confirmed \in Nat /\ recorded \in 0..confirmed /\ announced \in 0..confirmed
      /\ faults \in 0..MaxFaults
  BY DEF ServiceOK
<1>2. CASE Confirm
  <2>1. /\ confirmed' = confirmed + 1 /\ faults' \in 0..MaxFaults
        /\ UNCHANGED <<pageVars, asked, file, object, recorded, announced, inbox, historyVars>>
    BY <1>1, <1>2, MediaPageAssumption DEF Confirm, Fault
  <2>2. ServiceOK' BY <1>1, <2>1 DEF ServiceOK, historyVars
  <2>3. RowInv' BY <1>0, <2>1 DEF RowInv
  <2>4. Reported' /\ InboxInv'
    BY <1>1, <2>1 DEF Reported, InboxInv, Worded, Truthful, pageVars
  <2>. QED BY <2>1, <2>2, <2>3, <2>4, PageRests
<1>3. CASE InsertRow
  <2>1. /\ recorded' = recorded + 1 /\ recorded < confirmed /\ file' = file \cup {"active"}
        /\ UNCHANGED <<pageVars, asked, object, confirmed, announced, inbox, historyVars, faults>>
    BY <1>3 DEF InsertRow
  <2>2. ServiceOK' BY <1>1, <2>1 DEF ServiceOK, historyVars
  <2>3. RowInv' BY <1>0, <1>1, <2>1 DEF RowInv
  <2>4. Reported' /\ InboxInv'
    BY <2>1 DEF Reported, InboxInv, Worded, Truthful, pageVars
  <2>. QED BY <2>1, <2>2, <2>3, <2>4, PageRests
<1>4. CASE AnnounceCompleted
  <2>1. /\ announced' = announced + 1 /\ announced < confirmed
        /\ Announce(Notification("upload_completed", "none", "files"))
        /\ UNCHANGED <<pageVars, asked, file, object, confirmed, recorded, historyVars, faults>>
    BY <1>4 DEF AnnounceCompleted
  <2>2. confirmed > 0 BY <1>1, <2>1
  <2>3. InboxInv' /\ inbox' \subseteq Notifications
    BY <2>1, <2>2, AnnounceStep
       DEF Notification, Notifications, Events, Paths, Worded, Truthful
  <2>4. ServiceOK' BY <1>1, <2>1, <2>3 DEF ServiceOK, historyVars
  <2>5. RowInv' /\ Reported' BY <1>0, <2>1 DEF RowInv, Reported, pageVars
  <2>. QED BY <2>1, <2>3, <2>4, <2>5, PageRests
<1>. QED BY <1>2, <1>3, <1>4 DEF JobStep

-----------------------------------------------------------------------------
(***************************************************************************)
(* Theorems                                                                *)
(***************************************************************************)

\* The inductive invariant holds in every reachable state.
THEOREM PageInvariance == Spec => []IInv
<1>1. Init => IInv
  <2>1. SUFFICES ASSUME Init PROVE IInv OBVIOUS
  <2>2. \A k \in Keys : pending[k] = "none" BY <2>1 DEF Init
  <2>3. \A f \in Flows : flow[f] = "none" /\ f # "none" BY <2>1, KeyNames DEF Init
  <2>4. PageInv /\ UploadsStore
    BY <2>1, <2>2, <2>3
       DEF Init, PageInv, PageOK, Registered, UploadsStore, FlowStates, Waiting
  <2>5. ServiceOK BY <2>1, MediaPageAssumption DEF Init, ServiceOK
  <2>6. InboxInv /\ RowInv BY <2>1 DEF Init, InboxInv, RowInv
  <2>7. Reported /\ AnswerReachesItsWaiter
    BY <2>1, <2>3 DEF Init, Reported, AnswerReachesItsWaiter, Flows
  <2>. QED BY <2>4, <2>5, <2>6, <2>7 DEF IInv
<1>2. IInv /\ [Next]_vars => IInv'
  <2>1. SUFFICES ASSUME IInv, [Next]_vars PROVE IInv' OBVIOUS
  <2>2. CASE UNCHANGED vars
    <3>1. UNCHANGED <<serviceVars, inbox, ignored>> /\ faults' = faults
          /\ UNCHANGED <<pageVars, historyVars, displaced, flow>>
      BY <2>2 DEF vars, historyVars, pageVars
    <3>2. faults' \in 0..MaxFaults BY <2>1, <3>1 DEF IInv, ServiceOK
    <3>. QED BY <2>1, <3>1, <3>2, PageOnly, PageRests DEF IInv
  <2>3. CASE Next
    BY <2>1, <2>3, PageSteps, PushStep, RequestSteps, ServiceSteps, JobSteps
       DEF Next, PageStep, UploadStep, Flows
  <2>. QED BY <2>1, <2>2, <2>3
<1>. QED BY <1>1, <1>2, PTL DEF Spec

\* The map of the waiters and their timers: a key belongs to a flow that waits
\* under it, and every flow that waits has its timer, replaced or not.
THEOREM PageTypeCorrect == Spec => []TypeOK
<1>1. IInv => TypeOK BY TypeParts DEF IInv, PageInv
<1>. QED BY <1>1, PageInvariance, PTL

\* What the page reports of a file is so: of a delete, that a row was deleted,
\* and an active one is there only if the balance job read two confirmations; of
\* an upload, that it is confirmed, though its row may still have to come.
THEOREM ReportSafety == Spec => []SuccessIsTrue
<1>1. ASSUME IInv PROVE SuccessIsTrue
  <2>1. confirmed > 0 /\ file = {} => recorded < confirmed
    BY <1>1 DEF IInv, RowInv, ServiceOK
  <2>. QED BY <1>1, <2>1 DEF IInv, RowInv, Reported, SuccessIsTrue
<1>. QED BY <1>1, PageInvariance, PTL

\* Only a taken key, an event without a key or a channel that is not joined keeps
\* an answer from its waiter.
THEOREM AnswerSafety == Spec => []AnswerReachesItsWaiter
<1>1. IInv => AnswerReachesItsWaiter BY DEF IInv
<1>. QED BY <1>1, PageInvariance, PTL
=============================================================================
