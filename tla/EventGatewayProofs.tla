------------------------- MODULE EventGatewayProofs -------------------------
(***************************************************************************)
(* Proofs about EventGateway, for every set of requests and endpoints,     *)
(* every configuration and any number and set of failures.                 *)
(***************************************************************************)
EXTENDS EventGateway, FiniteSetTheorems, TLAPS

(***************************************************************************)
(* The inductive invariant                                                 *)
(***************************************************************************)

\* The steps of processAndProduceEvent and the answer that follows it.
Producing == {"resolve", "store", "encode", "answer"}

\* Where a request can be on each endpoint.
Stages(e) ==
    CASE e = "upload_url"   -> {"credit"}
      [] e = "download_url" -> {"lookup"} \cup Producing
      [] e = "delete"       -> {"lookup", "soft_delete"} \cup Producing
      [] OTHER              -> Producing

CallsKnown ==
    \A r \in Requests : call[r].at # "none" =>
        /\ call[r].endpoint \in Endpoints
        /\ call[r].at \in Stages(call[r].endpoint) \cup Ended

\* A process that does not serve has no request and no schema in its memory.
NothingKept ==
    /\ process \in {"down", "starting"} => \A r \in Requests : ~InFlight(r)
    /\ process = "down" => schemaCache = EmptyCache

\* A schema version in the memory of the process was the latest when the
\* process started, or came later.
Fresh(e, version) == version >= 1 /\ version >= atStart[e]

FreshInMemory ==
    /\ \A e \in Endpoints : atStart[e] <= registry[e]
    /\ \A e \in Endpoints : schemaCache[e] # 0 => Fresh(e, schemaCache[e])
    /\ \A r \in Requests : call[r].at \in {"store", "encode"} =>
           Fresh(call[r].endpoint, call[r].version)

FreshRecords(log) == \A i \in 1..Len(log) : log[i].version >= log[i].floor

FreshOnTheWay == \A e \in Endpoints : FreshRecords(buffer[e]) /\ FreshRecords(topic[e])

\* No delete has come past its UPDATE while the row is active.
NotPastUpdate ==
    listed =>
        /\ "delete" \in Endpoints => topic["delete"] = <<>> /\ buffer["delete"] = <<>>
        /\ \A r \in Requests : call[r].endpoint = "delete" =>
               call[r].at \in {"lookup", "soft_delete", "refused", "dropped"}

IInv ==
    /\ TypeOK /\ CallsKnown /\ NothingKept
    /\ FreshInMemory /\ FreshOnTheWay /\ NotPastUpdate

-----------------------------------------------------------------------------
(***************************************************************************)
(* Type correctness                                                        *)
(***************************************************************************)

\* The configuration names the endpoints.
LEMMA EndpointNames ==
    ASSUME NEW e \in Endpoints
    PROVE  /\ e \in {"webhook", "external", "intent", "upload_url", "download_url",
                     "delete"}
           /\ e # "none"
BY EventGatewayAssumption DEF RelayEndpoints, MediaEndpoints

\* A failure that happens is counted, and one of those that may.
LEMMA FaultTypes ==
    ASSUME TypeOK, NEW kind, Fault(kind)
    PROVE  faults' \in 0..MaxFaults /\ happened' \subseteq FaultKinds
BY EventGatewayAssumption DEF TypeOK, Fault

\* The bounds of the versions.
LEMMA Versions ==
    /\ 0 \in 0..MaxVersion /\ 1 \in 1..MaxVersion /\ 1..MaxVersion \subseteq 0..MaxVersion
    /\ [e \in Endpoints |-> 0] \in [Endpoints -> 0..MaxVersion]
    /\ [e \in Endpoints |-> 1] \in [Endpoints -> 1..MaxVersion]
<1>1. 0 \in 0..MaxVersion /\ 1 \in 1..MaxVersion /\ 1..MaxVersion \subseteq 0..MaxVersion
  BY EventGatewayAssumption
<1>. QED BY <1>1

\* The parts of TypeOK, to be shown one at a time.
ProcessOK ==
    /\ process \in {"down", "starting", "serving", "draining"}
    /\ keys \subseteq {"hs256", "es256"}
    /\ routes \subseteq RoutedEndpoints
    /\ notified \in BOOLEAN /\ mediaWired \in BOOLEAN
    /\ schemaCache \in [Endpoints -> 0..MaxVersion]
    /\ atStart \in [Endpoints -> 1..MaxVersion]

CallOK == call \in [Requests -> CallType]

RecordsOK ==
    /\ buffer \in [Endpoints -> Seq(RecordType)]
    /\ topic \in [Endpoints -> Seq(RecordType)]
    /\ lost \subseteq Requests

OutsideOK ==
    /\ listed \in BOOLEAN
    /\ registry \in [Endpoints -> 1..MaxVersion]
    /\ routesFile \in [readable : BOOLEAN, routes : SUBSET RoutedEndpoints]

FaultsOK == faults \in 0..MaxFaults /\ happened \subseteq FaultKinds

\* They are all of it.
LEMMA TypeParts ==
    /\ TypeOK <=> ProcessOK /\ CallOK /\ RecordsOK /\ OutsideOK /\ FaultsOK
    /\ TypeOK' <=> ProcessOK' /\ CallOK' /\ RecordsOK' /\ OutsideOK' /\ FaultsOK'
BY DEF TypeOK, ProcessOK, CallOK, RecordsOK, OutsideOK, FaultsOK

\* Where nothing changes, the types stay.
LEMMA Unchanged ==
    /\ ProcessOK /\ UNCHANGED processVars => ProcessOK'
    /\ CallOK /\ UNCHANGED call => CallOK'
    /\ RecordsOK /\ UNCHANGED recordVars => RecordsOK'
    /\ OutsideOK /\ UNCHANGED outsideVars => OutsideOK'
    /\ FaultsOK /\ UNCHANGED faultVars => FaultsOK'
BY DEF ProcessOK, CallOK, RecordsOK, OutsideOK, FaultsOK, processVars, recordVars,
       outsideVars, faultVars

\* The initial states are well typed.
LEMMA InitTypes == Init => TypeOK
<1>. SUFFICES ASSUME Init PROVE TypeOK OBVIOUS
<1>. USE EventGatewayAssumption
<1>1. ProcessOK BY Versions DEF Init, ProcessOK
<1>2. CallOK BY DEF Init, CallOK, CallType, NoCall
<1>3. RecordsOK BY DEF Init, RecordsOK
<1>4. OutsideOK BY DEF Init, OutsideOK
<1>5. FaultsOK BY DEF Init, FaultsOK
<1>. QED BY <1>1, <1>2, <1>3, <1>4, <1>5, TypeParts

\* A request goes to another step.
LEMMA StepTypes ==
    ASSUME CallOK, NEW r \in Requests, NEW at, Step(r, at),
           at \in {"credit", "lookup", "soft_delete"} \cup Producing \cup Ended
    PROVE  CallOK'
BY DEF CallOK, CallType, Step, Producing

\* The life of the process keeps the types.
LEMMA ProcessTypes ==
    ASSUME TypeOK, Start \/ Listen \/ Reload \/ Crash \/ Interrupt \/ Exit
    PROVE  TypeOK'
<1>. USE TypeParts, Unchanged, EventGatewayAssumption
<1>0. Reloaded \subseteq RoutedEndpoints BY DEF Reloaded, ProcessOK, OutsideOK
<1>1. CASE Start
  <2>1. \E symmetric \in SUBSET {"hs256"} : FetchJWKS(symmetric)
    BY <1>1 DEF Start
  <2>2. /\ keys' \subseteq {"hs256", "es256"}
        /\ UNCHANGED faultVars \/ Fault("jwks")
    BY <2>1 DEF FetchJWKS
  <2>3. ProcessOK' BY <1>0, <1>1, <2>2 DEF Start, ProcessOK, OutsideOK
  <2>4. FaultsOK' BY <2>2, FaultTypes DEF FaultsOK
  <2>. QED BY <1>1, <2>3, <2>4 DEF Start
<1>2. CASE Listen
  <2>1. mediaWired' \in BOOLEAN /\ (UNCHANGED faultVars \/ Fault("ping"))
    BY <1>2 DEF Listen, WireMedia
  <2>2. ProcessOK' BY <1>2, <2>1 DEF Listen, ProcessOK
  <2>3. FaultsOK' BY <2>1, FaultTypes DEF FaultsOK
  <2>. QED BY <1>2, <2>2, <2>3 DEF Listen
<1>3. CASE Reload
  <2>1. ProcessOK' BY <1>0, <1>3 DEF Reload, ProcessOK
  <2>. QED BY <1>3, <2>1 DEF Reload
<1>4. CASE Interrupt
  <2>1. ProcessOK' BY <1>4 DEF Interrupt, ProcessOK
  <2>2. FaultsOK' BY <1>4, FaultTypes DEF Interrupt, FaultsOK
  <2>. QED BY <1>4, <2>1, <2>2 DEF Interrupt
<1>5. CASE Crash \/ Exit
  <2>1. ProcessEnds BY <1>5 DEF Crash, Exit
  <2>2. schemaCache' \in [Endpoints -> 0..MaxVersion] /\ atStart' = atStart
    BY <2>1, Versions DEF ProcessEnds, EmptyCache
  <2>3. ProcessOK' BY <2>1, <2>2 DEF ProcessEnds, ProcessOK
  <2>4. CallOK' BY <2>1 DEF ProcessEnds, CallOK, CallType, Ended
  <2>5. Buffered \subseteq Requests
    <3>1. \A e \in Endpoints : \A i \in 1..Len(buffer[e]) : buffer[e][i] \in RecordType
      BY DEF RecordsOK
    <3>. QED BY <3>1 DEF Buffered, RecordType
  <2>6. RecordsOK' BY <2>1, <2>5 DEF ProcessEnds, LoseBuffered, RecordsOK
  <2>7. UNCHANGED faultVars \/ Fault("gateway_crash") BY <1>5 DEF Crash, Exit
  <2>8. FaultsOK' BY <2>7, FaultTypes DEF FaultsOK
  <2>. QED BY <2>1, <2>3, <2>4, <2>6, <2>8 DEF ProcessEnds
<1>. QED BY <1>1, <1>2, <1>3, <1>4, <1>5

\* So does a request that comes in.
LEMMA ReceiveTypes ==
    ASSUME TypeOK, NEW r \in Requests, Receive(r)
    PROVE  TypeOK' /\ \E e \in Endpoints :
               \/ call' = [call EXCEPT ![r] =
                              [at |-> FirstStep(e), endpoint |-> e, version |-> 0]]
               \/ call' = [call EXCEPT ![r] =
                              [at |-> "refused", endpoint |-> e, version |-> 0]]
<1>. USE TypeParts, Unchanged, EventGatewayAssumption
<1>1. PICK e \in Endpoints, credential \in {"secret", "hs256", "es256", "other"},
           valid \in BOOLEAN :
          call' = [call EXCEPT ![r] =
                      [at |-> IF Admits(e, credential) /\ valid
                              THEN FirstStep(e) ELSE "refused",
                       endpoint |-> e, version |-> 0]]
  BY DEF Receive
<1>2. PICK at : /\ at = FirstStep(e) \/ at = "refused"
                /\ call' = [call EXCEPT ![r] = [at |-> at, endpoint |-> e, version |-> 0]]
  <2>1. CASE Admits(e, credential) /\ valid BY <1>1, <2>1
  <2>2. CASE ~(Admits(e, credential) /\ valid) BY <1>1, <2>2
  <2>. QED BY <2>1, <2>2
<1>3. FirstStep(e) \in {"credit", "lookup", "resolve"} BY DEF FirstStep
<1>4. [at |-> at, endpoint |-> e, version |-> 0] \in CallType
  BY <1>2, <1>3 DEF CallType, Ended
<1>5. CallOK' BY <1>2, <1>4 DEF CallOK
<1>. QED BY <1>2, <1>5 DEF Receive

\* The steps of a request's goroutine.  The record that is produced has a
\* version, since its schema was resolved.
LEMMA HandleTypes ==
    ASSUME IInv, NEW r \in Requests, Handle(r)
    PROVE  TypeOK'
<1>0. TypeOK BY DEF IInv
<1>. USE <1>0, TypeParts, Unchanged, EventGatewayAssumption
<1>1. CASE CheckCredit(r)
  <2>1. CallOK' BY <1>1, StepTypes DEF CheckCredit, Ended
  <2>2. FaultsOK' BY <1>1, FaultTypes DEF CheckCredit, FaultsOK
  <2>. QED BY <1>1, <2>1, <2>2 DEF CheckCredit
<1>2. CASE GetFileMetadata(r)
  <2>1. CallOK' BY <1>2, StepTypes DEF GetFileMetadata, AfterLookup, Producing, Ended
  <2>2. FaultsOK' BY <1>2, FaultTypes DEF GetFileMetadata, FaultsOK
  <2>. QED BY <1>2, <2>1, <2>2 DEF GetFileMetadata
<1>3. CASE SoftDelete(r)
  <2>1. CallOK' BY <1>3, StepTypes DEF SoftDelete, Producing
  <2>2. OutsideOK' BY <1>3 DEF SoftDelete, UpdateRow, OutsideOK
  <2>. QED BY <1>3, <2>1, <2>2 DEF SoftDelete
<1>4. CASE SoftDeleteFails(r)
  <2>1. CallOK' BY <1>4, StepTypes DEF SoftDeleteFails, Ended
  <2>2. OutsideOK' BY <1>4 DEF SoftDeleteFails, UpdateRow, OutsideOK
  <2>3. FaultsOK' BY <1>4, FaultTypes DEF SoftDeleteFails, FaultsOK
  <2>. QED BY <1>4, <2>1, <2>2, <2>3 DEF SoftDeleteFails
<1>5. CASE ResolveSchema(r)
  <2>1. call[r].endpoint \in Endpoints
    BY <1>5 DEF ResolveSchema, IInv, CallsKnown
  <2>2. PICK at \in {"encode", "store"}, version \in 0..MaxVersion :
            call' = [call EXCEPT ![r].at = at, ![r].version = version]
    <3>1. /\ schemaCache[call[r].endpoint] \in 0..MaxVersion
          /\ registry[call[r].endpoint] \in 0..MaxVersion
      BY <2>1, Versions DEF ProcessOK, OutsideOK
    <3>2. CASE schemaCache[call[r].endpoint] # 0
      BY <1>5, <3>1, <3>2 DEF ResolveSchema
    <3>3. CASE schemaCache[call[r].endpoint] = 0
      BY <1>5, <3>1, <3>3 DEF ResolveSchema
    <3>. QED BY <3>2, <3>3
  <2>3. CallOK' BY <2>2 DEF CallOK, CallType
  <2>. QED BY <1>5, <2>3 DEF ResolveSchema
<1>6. CASE ResolveSchemaFails(r)
  <2>1. CallOK' BY <1>6, StepTypes DEF ResolveSchemaFails, NotProduced, Producing, Ended
  <2>2. FaultsOK'
    BY <1>6, FaultTypes DEF ResolveSchemaFails, FaultsOK
  <2>. QED BY <1>6, <2>1, <2>2 DEF ResolveSchemaFails
<1>7. CASE StoreSchema(r)
  <2>1. CallOK' BY <1>7, StepTypes DEF StoreSchema, Producing
  <2>2. call[r].version \in 0..MaxVersion BY DEF CallOK, CallType
  <2>3. ProcessOK' BY <1>7, <2>2 DEF StoreSchema, ProcessOK
  <2>. QED BY <1>7, <2>1, <2>3 DEF StoreSchema
<1>8. CASE Encode(r)
  <2>1. CallOK' BY <1>8, StepTypes DEF Encode, NotProduced, Producing, Ended
  <2>2. RecordsOK'
    <3>1. CASE UNCHANGED buffer BY <1>8, <3>1 DEF Encode, RecordsOK
    <3>2. CASE Produce(r)
      <4>1. /\ call[r].endpoint \in Endpoints /\ call[r].version >= 1
            /\ call[r].version \in 0..MaxVersion
        BY <1>8 DEF Encode, IInv, CallsKnown, FreshInMemory, Fresh, CallOK, CallType
      <4>2. atStart[call[r].endpoint] \in 1..MaxVersion BY <4>1 DEF ProcessOK
      <4>3. Record(r) \in RecordType BY <4>1, <4>2 DEF Record, RecordType
      <4>. QED BY <1>8, <3>2, <4>1, <4>3 DEF Encode, Produce, RecordsOK
    <3>. QED BY <1>8, <3>1, <3>2 DEF Encode
  <2>. QED BY <1>8, <2>1, <2>2 DEF Encode
<1>9. CASE Answer(r)
  <2>1. CallOK' BY <1>9, StepTypes DEF Answer, Ended
  <2>. QED BY <1>9, <2>1 DEF Answer
<1>. QED BY <1>1, <1>2, <1>3, <1>4, <1>5, <1>6, <1>7, <1>8, <1>9 DEF Handle

\* The client, and what changes outside.
LEMMA OutsideTypes ==
    ASSUME TypeOK,
           \/ \E e \in Endpoints : Flush(e) \/ ProduceFails(e) \/ EvolveSchema(e)
           \/ EditRoutes \/ OtherDelete
    PROVE  TypeOK'
<1>. USE TypeParts, Unchanged, EventGatewayAssumption
<1>0. ASSUME NEW e \in Endpoints, buffer[e] # <<>>
      PROVE  Head(buffer[e]) \in RecordType /\ Tail(buffer[e]) \in Seq(RecordType)
  BY <1>0 DEF RecordsOK
<1>1. ASSUME NEW e \in Endpoints, Flush(e) PROVE TypeOK'
  <2>1. RecordsOK' BY <1>0, <1>1 DEF Flush, RecordsOK
  <2>. QED BY <1>1, <2>1 DEF Flush
<1>2. ASSUME NEW e \in Endpoints, ProduceFails(e) PROVE TypeOK'
  <2>1. Head(buffer[e]).request \in Requests
    BY <1>0, <1>2 DEF ProduceFails, RecordType
  <2>2. RecordsOK' BY <1>0, <1>2, <2>1 DEF ProduceFails, GiveUp, RecordsOK
  <2>3. FaultsOK' BY <1>2, FaultTypes DEF ProduceFails, FaultsOK
  <2>. QED BY <1>2, <2>2, <2>3 DEF ProduceFails
<1>3. ASSUME NEW e \in Endpoints, EvolveSchema(e) PROVE TypeOK'
  <2>1. OutsideOK' BY <1>3 DEF EvolveSchema, OutsideOK
  <2>. QED BY <1>3, <2>1 DEF EvolveSchema
<1>4. CASE EditRoutes
  <2>1. ProcessOK' BY <1>4 DEF EditRoutes, Watched, ProcessOK
  <2>2. OutsideOK' BY <1>4 DEF EditRoutes, OutsideOK
  <2>3. \E kind \in {"edit", "early_edit"} : Fault(kind) BY <1>4 DEF EditRoutes
  <2>4. FaultsOK' BY <2>3, FaultTypes DEF FaultsOK
  <2>. QED BY <1>4, <2>1, <2>2, <2>4 DEF EditRoutes
<1>5. CASE OtherDelete
  <2>1. OutsideOK' BY <1>5 DEF OtherDelete, OutsideOK
  <2>2. FaultsOK' BY <1>5, FaultTypes DEF OtherDelete, FaultsOK
  <2>. QED BY <1>5, <2>1, <2>2 DEF OtherDelete
<1>. QED BY <1>1, <1>2, <1>3, <1>4, <1>5

-----------------------------------------------------------------------------
(***************************************************************************)
(* The other parts of the invariant, step by step                          *)
(***************************************************************************)

\* They hold initially.
LEMMA InitInv == Init => IInv
<1>. SUFFICES ASSUME Init PROVE IInv OBVIOUS
<1>1. \A r \in Requests : call[r] = NoCall BY DEF Init
<1>2. CallsKnown BY <1>1 DEF CallsKnown, NoCall
<1>3. NothingKept BY <1>1 DEF Init, NothingKept, InFlight, NoCall, EmptyCache
<1>4. FreshInMemory BY <1>1 DEF Init, FreshInMemory, NoCall
<1>5. FreshOnTheWay BY DEF Init, FreshOnTheWay, FreshRecords
<1>6. NotPastUpdate BY <1>1 DEF Init, NotPastUpdate, NoCall
<1>. QED BY <1>2, <1>3, <1>4, <1>5, <1>6, InitTypes DEF IInv

\* The request of a step and its endpoint.
LEMMA HandledCall ==
    ASSUME IInv, NEW r \in Requests, call[r].at # "none"
    PROVE  /\ call[r].endpoint \in Endpoints
           /\ call[r].at \in Stages(call[r].endpoint) \cup Ended
           /\ call[r] \in CallType
           /\ \A at : Step(r, at) =>
                  /\ call'[r].at = at /\ call'[r].endpoint = call[r].endpoint
                  /\ call'[r].version = call[r].version
                  /\ \A q \in Requests : q # r => call'[q] = call[q]
BY DEF IInv, TypeOK, CallsKnown, CallType, Step

\* A step that moves one goroutine within its endpoint and leaves the process,
\* the records and the schemas alone keeps the parts about them.
LEMMA MoveKeepsInv ==
    ASSUME IInv, NEW r \in Requests, InFlight(r),
           NEW at \in Stages(call[r].endpoint) \cup Ended, Step(r, at),
           at \notin {"store"}, at = "encode" => call[r].at = "store",
           UNCHANGED <<process, atStart, registry, schemaCache>>
    PROVE  CallsKnown' /\ NothingKept' /\ FreshInMemory'
<1>1. /\ call[r].endpoint \in Endpoints /\ call'[r].at = at
      /\ call'[r].endpoint = call[r].endpoint /\ call'[r].version = call[r].version
      /\ \A q \in Requests : q # r => call'[q] = call[q]
  BY HandledCall DEF InFlight
<1>2. CallsKnown' BY <1>1 DEF IInv, CallsKnown
<1>3. process \notin {"down", "starting"} BY DEF IInv, NothingKept
<1>4. NothingKept' BY <1>3 DEF NothingKept
<1>5. FreshInMemory' BY <1>1 DEF IInv, FreshInMemory, Fresh, InFlight, Ended
<1>. QED BY <1>2, <1>4, <1>5

Rest == CallsKnown /\ NothingKept /\ FreshInMemory /\ FreshOnTheWay /\ NotPastUpdate

\* A process that starts takes the latest versions for its floor: no request
\* and no cache entry is older.  One that ends takes its requests along.
LEMMA ProcessInv ==
    ASSUME IInv, Start \/ Listen \/ Reload \/ Crash \/ Interrupt \/ Exit
    PROVE  Rest'
<1>. USE DEF IInv, Rest
<1>1. CASE Start
  <2>1. /\ process = "down" /\ process' = "starting" /\ atStart' = registry
        /\ UNCHANGED <<schemaCache, call, registry, buffer, topic, listed>>
    BY <1>1 DEF Start, recordVars, outsideVars
  <2>2. schemaCache = EmptyCache /\ \A r \in Requests : ~InFlight(r)
    BY <2>1 DEF NothingKept
  <2>3. CallsKnown' BY <2>1 DEF CallsKnown
  <2>4. NothingKept' BY <2>1, <2>2 DEF NothingKept, InFlight
  <2>5. FreshInMemory'
    <3>1. \A e \in Endpoints : atStart'[e] <= registry'[e] BY <2>1 DEF TypeOK
    <3>2. \A e \in Endpoints : schemaCache'[e] = 0 BY <2>1, <2>2 DEF EmptyCache
    <3>3. \A r \in Requests : call'[r].at \notin {"store", "encode"}
      BY <2>1, <2>2 DEF InFlight, Ended
    <3>. QED BY <3>1, <3>2, <3>3 DEF FreshInMemory
  <2>6. FreshOnTheWay' /\ NotPastUpdate'
    BY <2>1 DEF FreshOnTheWay, FreshRecords, NotPastUpdate
  <2>. QED BY <2>3, <2>4, <2>5, <2>6
<1>2. CASE Listen \/ Reload \/ Interrupt
  <2>1. /\ UNCHANGED <<schemaCache, atStart, call, registry, buffer, topic, listed>>
        /\ process' \notin {"down", "starting"}
    BY <1>2 DEF Listen, Reload, Interrupt, recordVars, outsideVars
  <2>2. CallsKnown' /\ NothingKept' BY <2>1 DEF CallsKnown, NothingKept
  <2>3. FreshInMemory' BY <2>1 DEF FreshInMemory, Fresh
  <2>4. FreshOnTheWay' /\ NotPastUpdate'
    BY <2>1 DEF FreshOnTheWay, FreshRecords, NotPastUpdate
  <2>. QED BY <2>2, <2>3, <2>4
<1>3. CASE Crash \/ Exit
  <2>1. ProcessEnds BY <1>3 DEF Crash, Exit
  <2>2. /\ schemaCache' = EmptyCache
        /\ UNCHANGED <<topic, registry, listed, atStart>>
        /\ buffer' = [e \in Endpoints |-> <<>>]
    BY <2>1 DEF ProcessEnds, outsideVars
  <2>3. ASSUME NEW r \in Requests
        PROVE  /\ call'[r].endpoint = call[r].endpoint
               /\ call'[r].at = IF InFlight(r) THEN "dropped" ELSE call[r].at
    BY <2>1 DEF ProcessEnds, TypeOK, CallType
  <2>4. CallsKnown' BY <2>3 DEF CallsKnown, InFlight, Ended
  <2>5. NothingKept' BY <2>2, <2>3 DEF NothingKept, InFlight, Ended, EmptyCache
  <2>6. FreshInMemory' BY <2>2, <2>3 DEF FreshInMemory, EmptyCache, InFlight, Ended
  <2>7. FreshOnTheWay' BY <2>2 DEF FreshOnTheWay, FreshRecords
  <2>8. NotPastUpdate' BY <2>2, <2>3 DEF NotPastUpdate
  <2>. QED BY <2>4, <2>5, <2>6, <2>7, <2>8
<1>. QED BY <1>1, <1>2, <1>3

\* A request that comes in is at the first step of its endpoint.
LEMMA ReceiveInv ==
    ASSUME IInv, NEW r \in Requests, Receive(r)
    PROVE  Rest'
<1>. USE DEF IInv, Rest
<1>1. PICK e \in Endpoints :
          \/ call' = [call EXCEPT ![r] =
                         [at |-> FirstStep(e), endpoint |-> e, version |-> 0]]
          \/ call' = [call EXCEPT ![r] =
                         [at |-> "refused", endpoint |-> e, version |-> 0]]
  BY ReceiveTypes
<1>2. /\ call'[r].endpoint = e /\ call'[r].at \in {FirstStep(e), "refused"}
      /\ \A q \in Requests : q # r => call'[q] = call[q]
  BY <1>1 DEF TypeOK
<1>3. FirstStep(e) \in Stages(e) /\ FirstStep(e) \in {"credit", "lookup", "resolve"}
  BY EndpointNames DEF FirstStep, Stages, Producing
<1>4. /\ process = "serving"
      /\ UNCHANGED <<process, schemaCache, atStart, registry, buffer, topic, listed>>
  BY DEF Receive, processVars, recordVars, outsideVars
<1>5. CallsKnown' BY <1>2, <1>3 DEF CallsKnown, Ended
<1>6. NothingKept' BY <1>4 DEF NothingKept
<1>7. FreshInMemory' BY <1>2, <1>3, <1>4 DEF FreshInMemory, Fresh
<1>8. FreshOnTheWay' BY <1>4 DEF FreshOnTheWay, FreshRecords
<1>9. e = "delete" => FirstStep(e) = "lookup" BY DEF FirstStep
<1>10. NotPastUpdate' BY <1>2, <1>4, <1>9 DEF NotPastUpdate
<1>. QED BY <1>5, <1>6, <1>7, <1>8, <1>10

\* The records and the row are not touched by these steps.
LEMMA QuietStep ==
    ASSUME IInv, NEW r \in Requests, NEW at, Step(r, at), call[r].at # "none",
           UNCHANGED <<buffer, topic>>,
           listed' => listed,
           listed' /\ call[r].endpoint = "delete" =>
               at \in {"lookup", "soft_delete", "refused", "dropped"}
    PROVE  FreshOnTheWay' /\ NotPastUpdate'
<1>1. FreshOnTheWay' BY DEF IInv, FreshOnTheWay, FreshRecords
<1>2. /\ call'[r].at = at /\ call'[r].endpoint = call[r].endpoint
      /\ \A q \in Requests : q # r => call'[q] = call[q]
  BY HandledCall
<1>3. NotPastUpdate' BY <1>2 DEF IInv, NotPastUpdate
<1>. QED BY <1>1, <1>3

\* A step of a goroutine.
LEMMA HandleInv ==
    ASSUME IInv, NEW r \in Requests, Handle(r)
    PROVE  Rest'
<1>. USE DEF Rest
<1>0. InFlight(r) /\ call[r].at # "none"
  BY DEF Handle, CheckCredit, GetFileMetadata, SoftDelete, SoftDeleteFails,
         ResolveSchema, ResolveSchemaFails, StoreSchema, Encode, Answer, InFlight, Ended
<1>. DEFINE e == call[r].endpoint
<1>1. e \in Endpoints /\ call[r].at \in Stages(e) /\ call[r] \in CallType
  BY <1>0, HandledCall DEF InFlight
<1>2. CASE CheckCredit(r)
  <2>1. PICK at \in {"accepted", "refused"} : Step(r, at) BY <1>2 DEF CheckCredit
  <2>2. UNCHANGED <<process, schemaCache, atStart, registry, buffer, topic, listed>>
    BY <1>2 DEF CheckCredit, processVars, recordVars, outsideVars
  <2>3. e = "upload_url" BY <1>1, <1>2, EndpointNames DEF CheckCredit, Stages, Producing
  <2>. QED BY <1>0, <2>1, <2>2, <2>3, MoveKeepsInv, QuietStep DEF Ended
<1>3. CASE GetFileMetadata(r)
  <2>1. PICK at \in {AfterLookup(e), "refused"} : Step(r, at)
    BY <1>3 DEF GetFileMetadata
  <2>2. UNCHANGED <<process, schemaCache, atStart, registry, buffer, topic, listed>>
    BY <1>3 DEF GetFileMetadata, processVars, recordVars, outsideVars
  <2>3. e \in {"download_url", "delete"}
    BY <1>1, <1>3, EndpointNames DEF GetFileMetadata, Stages, Producing
  <2>4. /\ AfterLookup(e) \in Stages(e)
        /\ AfterLookup(e) = IF e = "delete" THEN "soft_delete" ELSE "resolve"
    BY <2>3 DEF AfterLookup, Stages, Producing
  <2>. QED BY <1>0, <2>1, <2>2, <2>4, MoveKeepsInv, QuietStep DEF Ended
<1>4. CASE SoftDelete(r)
  <2>1. Step(r, "resolve") /\ listed' = FALSE BY <1>4 DEF SoftDelete, UpdateRow
  <2>2. UNCHANGED <<process, schemaCache, atStart, registry, buffer, topic>>
    BY <1>4 DEF SoftDelete, processVars, recordVars
  <2>3. "resolve" \in Stages(e)
    BY <1>1, <1>4, EndpointNames DEF SoftDelete, Stages, Producing
  <2>. QED BY <1>0, <2>1, <2>2, <2>3, MoveKeepsInv, QuietStep DEF Ended
<1>5. CASE SoftDeleteFails(r)
  <2>1. Step(r, "refused") /\ (listed' = FALSE \/ listed' = listed)
    BY <1>5 DEF SoftDeleteFails, UpdateRow
  <2>2. UNCHANGED <<process, schemaCache, atStart, registry, buffer, topic>>
    BY <1>5 DEF SoftDeleteFails, processVars, recordVars
  <2>. QED BY <1>0, <2>1, <2>2, MoveKeepsInv, QuietStep DEF Ended
<1>6. ASSUME call[r].at \in Producing
      PROVE  (listed => e # "delete") /\ "answer" \in Stages(e)
  BY <1>1, <1>6, EndpointNames DEF IInv, NotPastUpdate, Stages, Producing
<1>7. CASE ResolveSchemaFails(r)
  <2>1. PICK at \in {"refused", "answer"} : Step(r, at)
    BY <1>7 DEF ResolveSchemaFails, NotProduced
  <2>2. UNCHANGED <<process, schemaCache, atStart, registry, buffer, topic, listed>>
    BY <1>7 DEF ResolveSchemaFails, processVars, recordVars, outsideVars
  <2>3. (listed => e # "delete") /\ "answer" \in Stages(e)
    BY <1>6, <1>7 DEF ResolveSchemaFails, Producing
  <2>. QED BY <1>0, <2>1, <2>2, <2>3, MoveKeepsInv, QuietStep DEF Ended
<1>8. CASE ResolveSchema(r)
  <2>1. /\ call'[r].endpoint = e
        /\ call'[r].at = IF schemaCache[e] # 0 THEN "encode" ELSE "store"
        /\ call'[r].version = IF schemaCache[e] # 0 THEN schemaCache[e] ELSE registry[e]
        /\ \A q \in Requests : q # r => call'[q] = call[q]
    BY <1>8 DEF ResolveSchema, IInv, TypeOK, CallType
  <2>2. UNCHANGED <<process, schemaCache, atStart, registry, buffer, topic, listed>>
    BY <1>8 DEF ResolveSchema, processVars, recordVars, outsideVars
  <2>3. "encode" \in Stages(e) /\ "store" \in Stages(e)
    BY <1>1, <1>8, EndpointNames DEF ResolveSchema, Stages, Producing
  <2>4. CallsKnown' BY <1>1, <2>1, <2>3 DEF IInv, CallsKnown
  <2>5. NothingKept' BY <1>0, <2>2 DEF IInv, NothingKept
  <2>6. Fresh(e, call'[r].version)
    BY <1>1, <2>1 DEF IInv, FreshInMemory, Fresh, TypeOK
  <2>7. FreshInMemory'
    BY <2>1, <2>2, <2>6 DEF IInv, FreshInMemory, Fresh
  <2>8. FreshOnTheWay' BY <2>2 DEF IInv, FreshOnTheWay, FreshRecords
  <2>9. NotPastUpdate'
    BY <1>6, <1>8, <2>1, <2>2 DEF ResolveSchema, IInv, NotPastUpdate, Producing
  <2>. QED BY <2>4, <2>5, <2>7, <2>8, <2>9
<1>9. CASE StoreSchema(r)
  <2>1. /\ Step(r, "encode")
        /\ schemaCache' = [schemaCache EXCEPT ![e] = call[r].version]
        /\ UNCHANGED <<process, atStart, registry, buffer, topic, listed>>
    BY <1>9 DEF StoreSchema, recordVars, outsideVars
  <2>2. /\ call'[r].at = "encode" /\ call'[r].endpoint = e
        /\ call'[r].version = call[r].version
        /\ \A q \in Requests : q # r => call'[q] = call[q]
    BY <1>0, <2>1, HandledCall
  <2>3. "encode" \in Stages(e)
    BY <1>1, <1>9, EndpointNames DEF StoreSchema, Stages, Producing
  <2>4. CallsKnown' BY <1>1, <2>2, <2>3 DEF IInv, CallsKnown
  <2>5. NothingKept' BY <1>0, <2>1 DEF IInv, NothingKept
  <2>6. Fresh(e, call[r].version) BY <1>9 DEF StoreSchema, IInv, FreshInMemory
  <2>7. FreshInMemory'
    BY <1>1, <2>1, <2>2, <2>6 DEF IInv, FreshInMemory, Fresh, TypeOK
  <2>8. listed => e # "delete" BY <1>6, <1>9 DEF StoreSchema, Producing
  <2>9. FreshOnTheWay' /\ NotPastUpdate' BY <1>0, <2>1, <2>8, QuietStep
  <2>. QED BY <2>4, <2>5, <2>7, <2>9
<1>10. CASE Encode(r)
  <2>1. /\ call[r].at = "encode"
        /\ UNCHANGED <<process, schemaCache, atStart, registry, topic, listed>>
    BY <1>10 DEF Encode, processVars, outsideVars
  <2>2. (listed => e # "delete") /\ "answer" \in Stages(e)
    BY <1>6, <2>1 DEF Producing
  <2>3. PICK at \in {"refused", "answer"} : Step(r, at)
    BY <1>10 DEF Encode, NotProduced
  <2>4. CallsKnown' /\ NothingKept' /\ FreshInMemory'
    BY <1>0, <2>1, <2>2, <2>3, MoveKeepsInv DEF Ended
  <2>5. CASE UNCHANGED buffer
    BY <1>0, <2>1, <2>2, <2>3, <2>4, <2>5, QuietStep
  <2>6. CASE Produce(r)
    <3>1. buffer' = [buffer EXCEPT ![e] = Append(@, Record(r))] BY <2>6 DEF Produce
    <3>2. Record(r).version >= Record(r).floor
      BY <2>1 DEF Record, IInv, FreshInMemory, Fresh
    <3>3. buffer[e] \in Seq(RecordType) BY <1>1 DEF IInv, TypeOK
    <3>4. Record(r) \in RecordType
      <4>1. call[r].version \in 1..MaxVersion
        BY <1>1, <2>1 DEF IInv, FreshInMemory, Fresh, CallType
      <4>2. atStart[e] \in 1..MaxVersion BY <1>1 DEF IInv, TypeOK
      <4>. QED BY <4>1, <4>2 DEF Record, RecordType
    <3>5. FreshRecords(buffer'[e])
      BY <1>1, <3>1, <3>2, <3>3, <3>4 DEF IInv, TypeOK, FreshOnTheWay, FreshRecords
    <3>6. FreshOnTheWay' BY <2>1, <3>1, <3>5 DEF IInv, TypeOK, FreshOnTheWay, FreshRecords
    <3>7. /\ call'[r].endpoint = e
          /\ \A q \in Requests : q # r => call'[q] = call[q]
      BY <1>0, <2>3, HandledCall
    <3>8. NotPastUpdate' BY <2>1, <2>2, <3>1, <3>7 DEF IInv, TypeOK, NotPastUpdate
    <3>. QED BY <2>4, <3>6, <3>8
  <2>. QED BY <1>10, <2>5, <2>6 DEF Encode
<1>11. CASE Answer(r)
  <2>1. Step(r, "accepted") BY <1>11 DEF Answer
  <2>2. UNCHANGED <<process, schemaCache, atStart, registry, buffer, topic, listed>>
    BY <1>11 DEF Answer, processVars, recordVars, outsideVars
  <2>3. listed => e # "delete" BY <1>6, <1>11 DEF Answer, Producing
  <2>. QED BY <1>0, <2>1, <2>2, <2>3, MoveKeepsInv, QuietStep DEF Ended
<1>. QED BY <1>2, <1>3, <1>4, <1>5, <1>7, <1>8, <1>9, <1>10, <1>11 DEF Handle

\* A record that leaves the buffer goes to its topic or is lost, and the
\* registry only moves on.
LEMMA OutsideInv ==
    ASSUME IInv,
           \/ \E e \in Endpoints : Flush(e) \/ ProduceFails(e) \/ EvolveSchema(e)
           \/ EditRoutes \/ OtherDelete
    PROVE  Rest'
<1>. USE DEF Rest
<1>1. ASSUME NEW e \in Endpoints, Flush(e) \/ ProduceFails(e) PROVE Rest'
  <2>1. /\ buffer[e] # <<>> /\ buffer' = [buffer EXCEPT ![e] = Tail(@)]
        /\ \/ topic' = [topic EXCEPT ![e] = Append(@, Head(buffer[e]))]
           \/ topic' = topic
        /\ UNCHANGED <<process, schemaCache, atStart, call, registry, listed>>
    BY <1>1 DEF Flush, ProduceFails, processVars, outsideVars
  <2>2. buffer[e] \in Seq(RecordType) /\ topic[e] \in Seq(RecordType)
    BY DEF IInv, TypeOK
  <2>3. FreshRecords(buffer[e]) /\ FreshRecords(topic[e])
    BY DEF IInv, FreshOnTheWay
  <2>4. FreshRecords(Tail(buffer[e])) /\ FreshRecords(Append(topic[e], Head(buffer[e])))
    <3>1. /\ Len(Tail(buffer[e])) = Len(buffer[e]) - 1
          /\ \A i \in 1..Len(Tail(buffer[e])) : Tail(buffer[e])[i] = buffer[e][i + 1]
          /\ Len(buffer[e]) \in Nat \ {0} /\ Head(buffer[e]) = buffer[e][1]
      BY <2>1, <2>2
    <3>2. FreshRecords(Tail(buffer[e])) BY <2>3, <3>1 DEF FreshRecords
    <3>3. Head(buffer[e]).version >= Head(buffer[e]).floor
      BY <2>3, <3>1 DEF FreshRecords
    <3>4. FreshRecords(Append(topic[e], Head(buffer[e])))
      BY <2>2, <2>3, <3>3 DEF FreshRecords
    <3>. QED BY <3>2, <3>4
  <2>5. \A x \in Endpoints :
            /\ buffer'[x] = IF x = e THEN Tail(buffer[e]) ELSE buffer[x]
            /\ topic'[x] \in {topic[x], IF x = e THEN Append(topic[e], Head(buffer[e]))
                                              ELSE topic[x]}
    BY <2>1 DEF IInv, TypeOK
  <2>6. FreshOnTheWay' BY <2>3, <2>4, <2>5 DEF IInv, FreshOnTheWay, FreshRecords
  <2>7. listed => e # "delete" BY <2>1 DEF IInv, NotPastUpdate
  <2>8. NotPastUpdate'
    <3>1. /\ buffer' = [buffer EXCEPT ![e] = Tail(@)]
          /\ listed /\ "delete" \in Endpoints =>
                /\ buffer'["delete"] = buffer["delete"]
                /\ topic'["delete"] = topic["delete"]
      BY <2>1, <2>5, <2>7
    <3>. QED BY <2>1, <3>1 DEF IInv, NotPastUpdate
  <2>9. CallsKnown' /\ NothingKept'
    BY <2>1 DEF IInv, CallsKnown, NothingKept, InFlight, EmptyCache
  <2>10. FreshInMemory' BY <2>1 DEF IInv, FreshInMemory, Fresh
  <2>. QED BY <2>6, <2>8, <2>9, <2>10
<1>2. ASSUME NEW e \in Endpoints, EvolveSchema(e) PROVE Rest'
  <2>1. /\ registry' = [registry EXCEPT ![e] = @ + 1]
        /\ UNCHANGED <<process, schemaCache, atStart, call, buffer, topic, listed>>
    BY <1>2 DEF EvolveSchema, processVars, recordVars
  <2>2. \A x \in Endpoints : atStart[x] <= registry'[x]
    BY <2>1 DEF IInv, TypeOK, FreshInMemory
  <2>3. FreshInMemory' BY <2>1, <2>2 DEF IInv, FreshInMemory, Fresh
  <2>4. CallsKnown' /\ NothingKept'
    BY <2>1 DEF IInv, CallsKnown, NothingKept, InFlight, EmptyCache
  <2>5. FreshOnTheWay' /\ NotPastUpdate'
    BY <2>1 DEF IInv, FreshOnTheWay, FreshRecords, NotPastUpdate
  <2>. QED BY <2>3, <2>4, <2>5
<1>3. CASE EditRoutes \/ OtherDelete
  <2>1. /\ UNCHANGED <<process, schemaCache, atStart, call, registry, buffer, topic>>
        /\ listed' => listed
    BY <1>3 DEF EditRoutes, OtherDelete, processVars, recordVars
  <2>2. CallsKnown' /\ NothingKept'
    BY <2>1 DEF IInv, CallsKnown, NothingKept, InFlight, EmptyCache
  <2>3. FreshInMemory' BY <2>1 DEF IInv, FreshInMemory, Fresh
  <2>4. FreshOnTheWay' /\ NotPastUpdate'
    BY <2>1 DEF IInv, FreshOnTheWay, FreshRecords, NotPastUpdate
  <2>. QED BY <2>2, <2>3, <2>4
<1>. QED BY <1>1, <1>2, <1>3

\* Every step keeps the invariant.
LEMMA NextInv == IInv /\ [Next]_vars => IInv'
<1>. SUFFICES ASSUME IInv, [Next]_vars PROVE IInv' OBVIOUS
<1>. USE DEF IInv, Rest
<1>1. CASE Start \/ Listen \/ Reload \/ Crash \/ Interrupt \/ Exit
  <2>1. TypeOK' BY <1>1, ProcessTypes
  <2>2. Rest' BY <1>1, ProcessInv
  <2>. QED BY <2>1, <2>2
<1>2. ASSUME NEW r \in Requests, Receive(r) PROVE IInv'
  <2>1. TypeOK' BY <1>2, ReceiveTypes
  <2>2. Rest' BY <1>2, ReceiveInv
  <2>. QED BY <2>1, <2>2
<1>3. ASSUME NEW r \in Requests, Handle(r) PROVE IInv'
  <2>1. TypeOK' BY <1>3, HandleTypes
  <2>2. Rest' BY <1>3, HandleInv
  <2>. QED BY <2>1, <2>2
<1>4. CASE \/ \E e \in Endpoints : Flush(e) \/ ProduceFails(e) \/ EvolveSchema(e)
           \/ EditRoutes \/ OtherDelete
  <2>1. TypeOK' BY <1>4, OutsideTypes
  <2>2. Rest' BY <1>4, OutsideInv
  <2>. QED BY <2>1, <2>2
<1>5. CASE UNCHANGED vars
  <2>. USE <1>5 DEF vars, gatewayVars, processVars, recordVars, outsideVars, faultVars
  <2>1. TypeOK' BY DEF TypeOK
  <2>2. CallsKnown' BY DEF CallsKnown
  <2>3. NothingKept' BY DEF NothingKept, InFlight, EmptyCache
  <2>4. FreshInMemory' BY DEF FreshInMemory, Fresh
  <2>5. FreshOnTheWay' BY DEF FreshOnTheWay, FreshRecords
  <2>6. NotPastUpdate' BY DEF NotPastUpdate
  <2>. QED BY <2>1, <2>2, <2>3, <2>4, <2>5, <2>6
<1>. QED BY <1>1, <1>2, <1>3, <1>4, <1>5 DEF Next

-----------------------------------------------------------------------------
(***************************************************************************)
(* Theorems                                                                *)
(***************************************************************************)

\* The inductive invariant holds in every reachable state, whatever fails.
THEOREM GatewayInvariance == Spec => []IInv
BY InitInv, NextInv, PTL DEF Spec

\* Every variable of the gateway keeps its type.
THEOREM GatewayTypeCorrect == Spec => []TypeOK
<1>1. IInv => TypeOK BY DEF IInv
<1>. QED BY <1>1, GatewayInvariance, PTL

\* A record in a topic is encoded with the schema that was the latest when its
\* process started, or a later one, although the cache is never invalidated
\* and racing fetches store in any order.
THEOREM FreshnessSafety == Spec => []FreshSinceStart
<1>1. IInv => FreshSinceStart
  BY DEF IInv, FreshOnTheWay, FreshRecords, FreshSinceStart
<1>. QED BY <1>1, GatewayInvariance, PTL

\* However deletes race, "success" and a delete event imply an inactive row.
THEOREM DeleteSafety == Spec => []DeletedBeforeTold
<1>1. IInv => DeletedBeforeTold BY DEF IInv, NotPastUpdate, DeletedBeforeTold
<1>. QED BY <1>1, GatewayInvariance, PTL

-----------------------------------------------------------------------------
(***************************************************************************)
(* Accepted requests and their records                                     *)
(***************************************************************************)

\* The record of a request at a place of a buffer or of a topic.
Sides == {"buffer", "topic"}
Log(e, side) == IF side = "buffer" THEN buffer[e] ELSE topic[e]
Holds(r, e, side, i) == i \in 1..Len(Log(e, side)) /\ Log(e, side)[i].request = r

Somewhere(r) == \E e \in Endpoints, side \in Sides, i \in Nat : Holds(r, e, side, i)
InOnePlace(r) ==
    \A e, f \in Endpoints, s, t \in Sides, i, j \in Nat :
        Holds(r, e, s, i) /\ Holds(r, f, t, j) => e = f /\ s = t /\ i = j

Losing == {"produce", "gateway_crash", "gateway_interrupt"}

\* Requests whose record may have been handed over, and those whose record was.
MayBeHanded == {"answer", "accepted", "dropped"}
WasHanded == {"answer", "accepted"}

\* Only a request past Produce has a record, and never two; a record is lost only
\* by a failure, and one that is lost is nowhere.
AccountOf(r) ==
    /\ InOnePlace(r)
    /\ Somewhere(r) => call[r].at \in MayBeHanded
    /\ r \in lost => /\ call[r].at \in MayBeHanded /\ ~Somewhere(r)
                     /\ happened \cap Losing # {}
    /\ call[r].at \in WasHanded /\ call[r].endpoint \in RelayEndpoints /\ r \notin lost =>
           Somewhere(r)

Accounts ==
    /\ process = "draining" => "gateway_interrupt" \in happened
    /\ \A r \in Requests : AccountOf(r)

\* Failures are remembered.
LEMMA HappenedGrows == Next => happened \subseteq happened'
BY DEF Next, Start, FetchJWKS, Listen, WireMedia, Reload, Crash, Interrupt, Exit,
       Receive, Handle, CheckCredit, GetFileMetadata, SoftDelete, SoftDeleteFails,
       ResolveSchema, ResolveSchemaFails, StoreSchema, Encode, Answer, Flush, ProduceFails,
       EvolveSchema, EditRoutes, OtherDelete, Fault, faultVars

\* A step that touches no record, and answers only for a record that was handed
\* over or where none is due, keeps the accounts.
LEMMA QuietAccounts ==
    ASSUME Accounts, UNCHANGED recordVars, happened \subseteq happened',
           process' = "draining" =>
               process = "draining" \/ "gateway_interrupt" \in happened',
           \A q \in Requests :
               /\ call[q].at \in MayBeHanded => call'[q].at \in MayBeHanded
               /\ call'[q].at \in WasHanded =>
                      \/ call[q].at \in WasHanded /\ call'[q].endpoint = call[q].endpoint
                      \/ call'[q].endpoint \notin RelayEndpoints
    PROVE  Accounts'
<1>1. process' = "draining" => "gateway_interrupt" \in happened' BY DEF Accounts
<1>2. ASSUME NEW q \in Requests PROVE AccountOf(q)'
  <2>1. AccountOf(q) BY DEF Accounts
  <2>2. \A e, s, i : Holds(q, e, s, i)' <=> Holds(q, e, s, i)
    BY DEF Holds, Log, recordVars
  <2>3. (Somewhere(q)' <=> Somewhere(q)) /\ (InOnePlace(q)' <=> InOnePlace(q))
    BY <2>2 DEF Somewhere, InOnePlace
  <2>. QED BY <2>1, <2>3 DEF AccountOf, recordVars
<1>. QED BY <1>1, <1>2 DEF Accounts

\* The process ends: what its client buffers is lost, and was nowhere else.
LEMMA EndAccounts ==
    ASSUME IInv, Accounts, ProcessEnds, happened \subseteq happened',
           happened' \cap Losing # {}
    PROVE  Accounts'
<1>1. /\ process' = "down" /\ lost' = lost \cup Buffered
      /\ buffer' = [e \in Endpoints |-> <<>>] /\ topic' = topic
  BY DEF ProcessEnds, LoseBuffered
<1>2. ASSUME NEW q \in Requests PROVE AccountOf(q)'
  <2>1. AccountOf(q) BY DEF Accounts
  <2>2. /\ call[q].at \in MayBeHanded => call'[q].at \in MayBeHanded
        /\ call'[q].at \in WasHanded => call[q].at \in WasHanded
        /\ call'[q].endpoint = call[q].endpoint
    BY DEF ProcessEnds, IInv, TypeOK, CallType, InFlight, Ended, MayBeHanded, WasHanded
  <2>3. \A e \in Endpoints, s \in Sides, i \in Nat :
            Holds(q, e, s, i)' <=> s = "topic" /\ Holds(q, e, s, i)
    BY <1>1 DEF Holds, Log, Sides
  <2>4. InOnePlace(q)' /\ (Somewhere(q)' => Somewhere(q))
    BY <2>1, <2>3 DEF AccountOf, InOnePlace, Somewhere
  <2>5. q \in Buffered <=> \E e \in Endpoints, i \in Nat : Holds(q, e, "buffer", i)
    <3>1. \A e \in Endpoints : buffer[e] \in Seq(RecordType) BY DEF IInv, TypeOK
    <3>. QED BY <3>1 DEF Buffered, Holds, Log
  <2>6. q \in Buffered => Somewhere(q) /\ ~Somewhere(q)'
    BY <2>1, <2>3, <2>5 DEF AccountOf, InOnePlace, Somewhere, Sides
  <2>7. Somewhere(q) /\ q \notin Buffered => Somewhere(q)'
    BY <2>3, <2>5 DEF Somewhere, Sides
  <2>. QED BY <1>1, <2>1, <2>2, <2>4, <2>6, <2>7 DEF AccountOf
<1>. QED BY <1>1, <1>2 DEF Accounts

\* A record is handed to the client, and its request about to be answered.
LEMMA ProduceAccounts ==
    ASSUME IInv, Accounts, NEW r \in Requests, call[r].at = "encode", Produce(r),
           Step(r, "answer"), UNCHANGED <<process, topic, lost, happened>>
    PROVE  Accounts'
<1>. DEFINE e == call[r].endpoint
<1>1. /\ e \in Endpoints /\ call'[r].at = "answer" /\ call'[r].endpoint = e
      /\ \A q \in Requests : q # r => call'[q] = call[q]
  BY HandledCall
<1>2. /\ buffer[e] \in Seq(RecordType)
      /\ buffer' = [buffer EXCEPT ![e] = Append(@, Record(r))] /\ Record(r).request = r
  BY <1>1 DEF Produce, Record, IInv, TypeOK
<1>3. ASSUME NEW q, NEW f \in Endpoints, NEW s \in Sides, NEW i \in Nat
      PROVE  Holds(q, f, s, i)' <=>
                 \/ Holds(q, f, s, i)
                 \/ q = r /\ f = e /\ s = "buffer" /\ i = Len(buffer[e]) + 1
  <2>1. CASE f = e /\ s = "buffer" BY <1>1, <1>2, <2>1 DEF Holds, Log, IInv, TypeOK
  <2>2. CASE ~(f = e /\ s = "buffer")
    BY <1>1, <1>2, <2>2 DEF Holds, Log, Sides, IInv, TypeOK
  <2>. QED BY <2>1, <2>2
<1>4. AccountOf(r)'
  <2>1. ~Somewhere(r) /\ r \notin lost BY DEF Accounts, AccountOf, MayBeHanded
  <2>2. \A f \in Endpoints, s \in Sides, i \in Nat :
            Holds(r, f, s, i)' <=> f = e /\ s = "buffer" /\ i = Len(buffer[e]) + 1
    BY <1>3, <2>1 DEF Somewhere
  <2>3. Len(buffer[e]) + 1 \in Nat /\ "buffer" \in Sides BY <1>2 DEF Sides
  <2>4. InOnePlace(r)' BY <2>2 DEF InOnePlace
  <2>5. Somewhere(r)' BY <1>1, <2>2, <2>3 DEF Somewhere
  <2>. QED BY <1>1, <2>1, <2>4, <2>5 DEF AccountOf, MayBeHanded
<1>5. ASSUME NEW q \in Requests, q # r PROVE AccountOf(q)'
  <2>1. AccountOf(q) BY DEF Accounts
  <2>2. \A f \in Endpoints, s \in Sides, i \in Nat : Holds(q, f, s, i)' <=> Holds(q, f, s, i)
    BY <1>3, <1>5
  <2>3. (Somewhere(q)' <=> Somewhere(q)) /\ (InOnePlace(q)' <=> InOnePlace(q))
    BY <2>2 DEF Somewhere, InOnePlace
  <2>. QED BY <1>1, <1>5, <2>1, <2>3 DEF AccountOf
<1>. QED BY <1>4, <1>5 DEF Accounts

\* What stands where when the first record has left the buffer of a topic.
LEMMA AfterHead ==
    ASSUME IInv, NEW e \in Endpoints, buffer[e] # <<>>,
           buffer' = [buffer EXCEPT ![e] = Tail(@)],
           NEW q, NEW f \in Endpoints, NEW i \in Nat
    PROVE  /\ f = e => (Holds(q, f, "buffer", i)' <=> i > 0 /\ Holds(q, f, "buffer", i + 1))
           /\ f # e => (Holds(q, f, "buffer", i)' <=> Holds(q, f, "buffer", i))
<1>1. buffer[e] \in Seq(RecordType) BY DEF IInv, TypeOK
<1>2. /\ Len(Tail(buffer[e])) = Len(buffer[e]) - 1 /\ Len(buffer[e]) \in Nat \ {0}
      /\ \A j \in 1..Len(Tail(buffer[e])) : Tail(buffer[e])[j] = buffer[e][j + 1]
  BY <1>1
<1>3. buffer'[e] = Tail(buffer[e]) /\ (f # e => buffer'[f] = buffer[f])
  BY DEF IInv, TypeOK
<1>4. i + 1 \in 1..Len(buffer[e]) /\ i > 0 <=> i \in 1..Len(Tail(buffer[e])) BY <1>2
<1>. QED BY <1>2, <1>3, <1>4 DEF Holds, Log

\* A record that is sent moves from one place to another.
LEMMA FlushAccounts ==
    ASSUME IInv, Accounts, NEW e \in Endpoints, Flush(e)
    PROVE  Accounts'
<1>1. /\ buffer[e] # <<>> /\ buffer' = [buffer EXCEPT ![e] = Tail(@)]
      /\ topic' = [topic EXCEPT ![e] = Append(@, Head(buffer[e]))]
      /\ UNCHANGED <<process, call, lost, happened>>
  BY DEF Flush, processVars, faultVars
<1>2. /\ buffer[e] \in Seq(RecordType) /\ topic[e] \in Seq(RecordType)
      /\ Len(buffer[e]) \in Nat \ {0} /\ Head(buffer[e]) = buffer[e][1]
      /\ Len(topic[e]) \in Nat
  BY <1>1 DEF IInv, TypeOK
<1>3. ASSUME NEW q, NEW f \in Endpoints, NEW i \in Nat
      PROVE  /\ f = e => (Holds(q, f, "buffer", i)' <=> i > 0 /\ Holds(q, f, "buffer", i + 1))
             /\ f # e => (Holds(q, f, "buffer", i)' <=> Holds(q, f, "buffer", i))
             /\ Holds(q, f, "topic", i)' <=>
                    \/ Holds(q, f, "topic", i)
                    \/ f = e /\ i = Len(topic[e]) + 1 /\ Holds(q, e, "buffer", 1)
  <2>1. topic'[e] = Append(topic[e], buffer[e][1]) /\ (f # e => topic'[f] = topic[f])
    BY <1>1, <1>2 DEF IInv, TypeOK
  <2>. DEFINE Sent == f = e /\ i = Len(topic[e]) + 1 /\ Holds(q, e, "buffer", 1)
  <2>2. ASSUME f = e
        PROVE  Holds(q, f, "topic", i)' <=> Holds(q, f, "topic", i) \/ Sent
    <3>1. i \in 1..Len(topic'[f]) <=> i \in 1..Len(topic[f]) \/ i = Len(topic[f]) + 1
      BY <1>2, <2>1, <2>2
    <3>2. i \in 1..Len(topic[f]) => topic'[f][i] = topic[f][i]
      BY <1>2, <2>1, <2>2
    <3>3. i = Len(topic[f]) + 1 => topic'[f][i] = buffer[e][1]
      BY <1>2, <2>1, <2>2
    <3>4. Holds(q, e, "buffer", 1) <=> buffer[e][1].request = q BY <1>2 DEF Holds, Log
    <3>. QED BY <1>2, <2>2, <3>1, <3>2, <3>3, <3>4 DEF Holds, Log
  <2>3. ASSUME f # e
        PROVE  Holds(q, f, "topic", i)' <=> Holds(q, f, "topic", i) \/ Sent
    BY <2>1, <2>3 DEF Holds, Log
  <2>. QED BY <1>1, <2>2, <2>3, AfterHead
<1>4. ASSUME NEW q \in Requests PROVE AccountOf(q)'
  <2>1. AccountOf(q) BY DEF Accounts
  <2>2. \A f \in Endpoints, i \in Nat : Holds(q, f, "topic", i) => i <= Len(topic[f])
    BY DEF Holds, Log
  <2>3. ASSUME NEW f \in Endpoints, NEW g \in Endpoints, NEW s \in Sides, NEW t \in Sides,
               NEW i \in Nat, NEW j \in Nat, Holds(q, f, s, i)', Holds(q, g, t, j)'
        PROVE  f = g /\ s = t /\ i = j
    <3>1. /\ s = "topic" => \/ Holds(q, f, "topic", i)
                            \/ f = e /\ i = Len(topic[e]) + 1 /\ Holds(q, e, "buffer", 1)
          /\ t = "topic" => \/ Holds(q, g, "topic", j)
                            \/ g = e /\ j = Len(topic[e]) + 1 /\ Holds(q, e, "buffer", 1)
      BY <1>3, <2>3
    <3>2. /\ s = "buffer" => IF f = e THEN i > 0 /\ Holds(q, f, "buffer", i + 1)
                                     ELSE Holds(q, f, "buffer", i)
          /\ t = "buffer" => IF g = e THEN j > 0 /\ Holds(q, g, "buffer", j + 1)
                                     ELSE Holds(q, g, "buffer", j)
      BY <1>3, <2>3
    <3>3. i + 1 \in Nat /\ j + 1 \in Nat /\ 1 \in Nat OBVIOUS
    <3>4. \A a, b \in Endpoints, u, v \in Sides, m, n \in Nat :
              Holds(q, a, u, m) /\ Holds(q, b, v, n) => a = b /\ u = v /\ m = n
      BY <2>1 DEF AccountOf, InOnePlace
    <3>5. CASE s = "buffer" /\ t = "buffer" BY <3>2, <3>3, <3>4, <3>5 DEF Sides
    <3>6. CASE s = "topic" /\ t = "topic" BY <2>2, <3>1, <3>3, <3>4, <3>6 DEF Sides
    <3>7. CASE s # t BY <3>1, <3>2, <3>3, <3>4, <3>7 DEF Sides
    <3>. QED BY <3>5, <3>6, <3>7 DEF Sides
  <2>4. InOnePlace(q)' BY <2>3 DEF InOnePlace
  <2>5. Somewhere(q) => Somewhere(q)'
    <3>1. SUFFICES ASSUME NEW f \in Endpoints, NEW s \in Sides, NEW i \in Nat,
                          Holds(q, f, s, i)
                   PROVE  \E t \in Sides, j \in Nat : Holds(q, f, t, j)'
      BY DEF Somewhere
    <3>2. i > 0 BY <3>1 DEF Holds
    <3>3. CASE s = "topic" BY <1>3, <3>1, <3>3
    <3>4. CASE s = "buffer" /\ f # e BY <1>3, <3>1, <3>4
    <3>5. CASE s = "buffer" /\ f = e /\ i = 1
      <4>1. PICK n \in Nat : n = Len(topic[e]) + 1 BY <1>2
      <4>2. Holds(q, e, "topic", n)' BY <1>3, <3>1, <3>5, <4>1
      <4>. QED BY <3>5, <4>2 DEF Sides
    <3>6. CASE s = "buffer" /\ f = e /\ i # 1
      <4>1. i - 1 \in Nat /\ i - 1 > 0 /\ (i - 1) + 1 = i BY <3>2, <3>6
      <4>2. Holds(q, e, "buffer", i - 1)' BY <1>3, <3>1, <3>6, <4>1
      <4>. QED BY <3>6, <4>1, <4>2 DEF Sides
    <3>. QED BY <3>3, <3>4, <3>5, <3>6 DEF Sides
  <2>6. Somewhere(q)' => Somewhere(q)
    <3>1. SUFFICES ASSUME NEW f \in Endpoints, NEW s \in Sides, NEW i \in Nat,
                          Holds(q, f, s, i)'
                   PROVE  \E t \in Sides, j \in Nat : Holds(q, f, t, j)
      BY DEF Somewhere
    <3>2. i + 1 \in Nat /\ 1 \in Nat /\ "buffer" \in Sides /\ "topic" \in Sides
      BY DEF Sides
    <3>3. CASE s = "buffer" BY <1>3, <3>1, <3>2, <3>3
    <3>4. CASE s = "topic" BY <1>3, <3>1, <3>2, <3>4
    <3>. QED BY <3>3, <3>4 DEF Sides
  <2>. QED BY <1>1, <2>1, <2>4, <2>5, <2>6 DEF AccountOf
<1>. QED BY <1>1, <1>4 DEF Accounts

\* A record that is given up was in the buffer only.
LEMMA GiveUpAccounts ==
    ASSUME IInv, Accounts, NEW e \in Endpoints, ProduceFails(e)
    PROVE  Accounts'
<1>1. /\ buffer[e] # <<>> /\ buffer' = [buffer EXCEPT ![e] = Tail(@)]
      /\ lost' = lost \cup {Head(buffer[e]).request}
      /\ happened' = happened \cup {"produce"}
      /\ UNCHANGED <<process, call, topic>>
  BY DEF ProduceFails, GiveUp, Fault, processVars
<1>2. Holds(Head(buffer[e]).request, e, "buffer", 1)
  <2>1. buffer[e] \in Seq(RecordType) BY DEF IInv, TypeOK
  <2>. QED BY <1>1, <2>1 DEF Holds, Log
<1>3. ASSUME NEW q, NEW f \in Endpoints, NEW i \in Nat
      PROVE  /\ f = e => (Holds(q, f, "buffer", i)' <=> i > 0 /\ Holds(q, f, "buffer", i + 1))
             /\ f # e => (Holds(q, f, "buffer", i)' <=> Holds(q, f, "buffer", i))
             /\ Holds(q, f, "topic", i)' <=> Holds(q, f, "topic", i)
  <2>1. Holds(q, f, "topic", i)' <=> Holds(q, f, "topic", i) BY <1>1 DEF Holds, Log
  <2>. QED BY <1>1, <2>1, AfterHead
<1>4. ASSUME NEW q \in Requests PROVE AccountOf(q)'
  <2>1. AccountOf(q) BY DEF Accounts
  <2>2. \A a, b \in Endpoints, u, v \in Sides, m, n \in Nat :
            Holds(q, a, u, m) /\ Holds(q, b, v, n) => a = b /\ u = v /\ m = n
    BY <2>1 DEF AccountOf, InOnePlace
  <2>3. ASSUME NEW f \in Endpoints, NEW i \in Nat, NEW s \in Sides, Holds(q, f, s, i)'
        PROVE  \/ f = e /\ s = "buffer" /\ i > 0 /\ Holds(q, f, s, i + 1)
               \/ (f # e \/ s = "topic") /\ Holds(q, f, s, i)
    <3>1. CASE s = "topic" BY <1>3, <2>3, <3>1
    <3>2. CASE s = "buffer" BY <1>3, <2>3, <3>2
    <3>. QED BY <3>1, <3>2 DEF Sides
  <2>4. InOnePlace(q)'
    <3>1. SUFFICES ASSUME NEW f \in Endpoints, NEW g \in Endpoints, NEW s \in Sides,
                          NEW t \in Sides, NEW i \in Nat, NEW j \in Nat,
                          Holds(q, f, s, i)', Holds(q, g, t, j)'
                   PROVE  f = g /\ s = t /\ i = j
      BY DEF InOnePlace
    <3>2. i + 1 \in Nat /\ j + 1 \in Nat OBVIOUS
    <3>. QED BY <2>2, <2>3, <3>1, <3>2 DEF Sides
  <2>5. Somewhere(q)' => Somewhere(q)
    <3>1. \A i \in Nat : i + 1 \in Nat OBVIOUS
    <3>. QED BY <2>3, <3>1 DEF Somewhere
  <2>6. CASE q = Head(buffer[e]).request
    <3>1. Somewhere(q) BY <1>2, <2>6 DEF Somewhere, Sides
    <3>2. ~Somewhere(q)'
      <4>1. SUFFICES ASSUME NEW f \in Endpoints, NEW s \in Sides, NEW i \in Nat,
                            Holds(q, f, s, i)'
                     PROVE  FALSE
        BY DEF Somewhere
      <4>2. i + 1 \in Nat /\ (i > 0 => i + 1 # 1) /\ 1 \in Nat /\ "buffer" \in Sides
        BY DEF Sides
      <4>. QED BY <1>2, <2>2, <2>3, <2>6, <4>1, <4>2 DEF Sides
    <3>. QED BY <1>1, <2>1, <2>4, <2>6, <3>1, <3>2 DEF AccountOf, Losing
  <2>7. CASE q # Head(buffer[e]).request
    <3>1. Somewhere(q) => Somewhere(q)'
      <4>1. SUFFICES ASSUME NEW f \in Endpoints, NEW s \in Sides, NEW i \in Nat,
                            Holds(q, f, s, i)
                     PROVE  \E t \in Sides, j \in Nat : Holds(q, f, t, j)'
        BY DEF Somewhere
      <4>2. CASE s = "topic" \/ f # e BY <1>3, <4>1, <4>2 DEF Sides
      <4>3. CASE s = "buffer" /\ f = e
        <5>1. buffer[e] \in Seq(RecordType) BY DEF IInv, TypeOK
        <5>2. i # 1 /\ i > 0 BY <1>1, <2>7, <4>1, <4>3, <5>1 DEF Holds, Log
        <5>3. i - 1 \in Nat /\ i - 1 > 0 /\ (i - 1) + 1 = i BY <5>2
        <5>4. Holds(q, e, "buffer", i - 1)' BY <1>3, <4>1, <4>3, <5>3
        <5>. QED BY <4>3, <5>3, <5>4 DEF Sides
      <4>. QED BY <4>2, <4>3 DEF Sides
    <3>. QED BY <1>1, <2>1, <2>4, <2>5, <2>7, <3>1 DEF AccountOf
  <2>. QED BY <2>6, <2>7
<1>. QED BY <1>1, <1>4 DEF Accounts

\* A goroutine's step.
LEMMA HandleAccounts ==
    ASSUME IInv, Accounts, NEW r \in Requests, Handle(r), happened \subseteq happened'
    PROVE  Accounts'
<1>0. InFlight(r) /\ call[r].at # "none" /\ process # "down"
  BY DEF Handle, CheckCredit, GetFileMetadata, SoftDelete, SoftDeleteFails,
         ResolveSchema, ResolveSchemaFails, StoreSchema, Encode, Answer, InFlight, Ended,
         IInv, NothingKept
<1>. DEFINE e == call[r].endpoint
<1>1. e \in Endpoints /\ call[r].at \in Stages(e) /\ call[r].at \notin Ended
  BY <1>0, HandledCall DEF InFlight
<1>2. ASSUME UNCHANGED <<process, recordVars>>, call[r].at # "answer",
             NEW at, Step(r, at), at \in WasHanded => e \notin RelayEndpoints
      PROVE  Accounts'
  <2>1. /\ call'[r].at = at /\ call'[r].endpoint = e
        /\ \A q \in Requests : q # r => call'[q] = call[q]
    BY <1>0, <1>2, HandledCall
  <2>. QED BY <1>1, <1>2, <2>1, QuietAccounts DEF MayBeHanded, WasHanded, Ended
<1>3. CASE CheckCredit(r)
  <2>1. e = "upload_url" BY <1>1, <1>3, EndpointNames DEF CheckCredit, Stages, Producing
  <2>. QED BY <1>2, <1>3, <2>1 DEF CheckCredit, processVars, RelayEndpoints
<1>4. CASE GetFileMetadata(r)
  BY <1>2, <1>4 DEF GetFileMetadata, AfterLookup, WasHanded, processVars
<1>5. CASE SoftDelete(r) \/ SoftDeleteFails(r)
  BY <1>2, <1>5 DEF SoftDelete, SoftDeleteFails, WasHanded, processVars
<1>6. CASE StoreSchema(r) BY <1>2, <1>6 DEF StoreSchema, WasHanded
<1>7. CASE ResolveSchema(r)
  <2>1. /\ call[r].at \notin MayBeHanded /\ call'[r].at \notin WasHanded
        /\ \A q \in Requests : q # r => call'[q] = call[q]
        /\ UNCHANGED <<process, recordVars>>
    BY <1>7 DEF ResolveSchema, IInv, TypeOK, processVars, MayBeHanded, WasHanded
  <2>. QED BY <1>1, <2>1, QuietAccounts
<1>8. CASE ResolveSchemaFails(r)
  <2>1. PICK at : Step(r, at) /\ (at \in WasHanded => e \notin RelayEndpoints)
    BY <1>8 DEF ResolveSchemaFails, NotProduced, WasHanded
  <2>. QED BY <1>2, <1>8, <2>1 DEF ResolveSchemaFails, processVars
<1>9. CASE Encode(r)
  <2>1. /\ call[r].at = "encode" /\ UNCHANGED <<process, topic, lost, happened>>
        /\ \/ NotProduced(r) /\ UNCHANGED buffer
           \/ Produce(r) /\ Step(r, "answer")
    BY <1>9 DEF Encode, processVars, faultVars
  <2>2. CASE NotProduced(r) /\ UNCHANGED buffer
    <3>1. PICK at : Step(r, at) /\ (at \in WasHanded => e \notin RelayEndpoints)
      BY <2>2 DEF NotProduced, WasHanded
    <3>. QED BY <1>2, <2>1, <2>2, <3>1 DEF recordVars
  <2>3. CASE Produce(r) /\ Step(r, "answer") BY <2>1, <2>3, ProduceAccounts
  <2>. QED BY <2>1, <2>2, <2>3
<1>10. CASE Answer(r)
  <2>1. call[r].at = "answer" /\ Step(r, "accepted") /\ UNCHANGED <<process, recordVars>>
    BY <1>10 DEF Answer, processVars
  <2>2. /\ call'[r].at = "accepted" /\ call'[r].endpoint = e
        /\ \A q \in Requests : q # r => call'[q] = call[q]
    BY <1>0, <2>1, HandledCall
  <2>. QED BY <2>1, <2>2, QuietAccounts DEF MayBeHanded, WasHanded
<1>. QED BY <1>3, <1>4, <1>5, <1>6, <1>7, <1>8, <1>9, <1>10 DEF Handle

\* Every step keeps the accounts.
LEMMA NextAccounts == IInv /\ Accounts /\ [Next]_vars => Accounts'
<1>. SUFFICES ASSUME IInv, Accounts, [Next]_vars PROVE Accounts' OBVIOUS
<1>0. happened \subseteq happened'
  BY HappenedGrows DEF vars, faultVars
<1>1. CASE Start \/ Listen \/ Reload
  BY <1>0, <1>1, QuietAccounts DEF Start, Listen, Reload
<1>2. CASE Interrupt BY <1>0, <1>2, QuietAccounts DEF Interrupt, Fault
<1>3. CASE Crash
  BY <1>0, <1>3, EndAccounts DEF Crash, Fault, Losing
<1>4. CASE Exit
  BY <1>0, <1>4, EndAccounts DEF Exit, Accounts, Losing, faultVars
<1>5. ASSUME NEW r \in Requests, Receive(r) PROVE Accounts'
  <2>1. /\ call[r].at = "none" /\ UNCHANGED <<process, recordVars>>
    BY <1>5 DEF Receive, processVars
  <2>2. \E e \in Endpoints :
            \/ call' = [call EXCEPT ![r] =
                           [at |-> FirstStep(e), endpoint |-> e, version |-> 0]]
            \/ call' = [call EXCEPT ![r] =
                           [at |-> "refused", endpoint |-> e, version |-> 0]]
    BY <1>5, ReceiveTypes DEF IInv
  <2>3. \A e : FirstStep(e) \notin WasHanded BY DEF FirstStep, WasHanded
  <2>4. /\ call'[r].at \notin WasHanded
        /\ \A q \in Requests : q # r => call'[q] = call[q]
    BY <2>2, <2>3 DEF IInv, TypeOK, WasHanded
  <2>. QED BY <1>0, <2>1, <2>4, QuietAccounts DEF MayBeHanded
<1>6. ASSUME NEW r \in Requests, Handle(r) PROVE Accounts'
  BY <1>0, <1>6, HandleAccounts
<1>7. ASSUME NEW e \in Endpoints, Flush(e) \/ ProduceFails(e) PROVE Accounts'
  BY <1>7, FlushAccounts, GiveUpAccounts
<1>8. CASE EditRoutes \/ OtherDelete \/ \E e \in Endpoints : EvolveSchema(e)
  BY <1>0, <1>8, QuietAccounts DEF EditRoutes, OtherDelete, EvolveSchema, processVars
<1>9. CASE UNCHANGED vars
  BY <1>0, <1>9, QuietAccounts DEF vars, gatewayVars, processVars
<1>. QED BY <1>1, <1>2, <1>3, <1>4, <1>5, <1>6, <1>7, <1>8, <1>9 DEF Next

\* The places of a request's records, as AcceptedIsAccountedFor counts them.
Slots(r) == UNION {PositionsOf(buffer[e], r) \X {<<e, "buffer">>}
                      \cup PositionsOf(topic[e], r) \X {<<e, "topic">>} : e \in Endpoints}

LEMMA CountedPlaces ==
    ASSUME IInv, NEW r \in Requests, InOnePlace(r)
    PROVE  /\ ~Somewhere(r) => Copies(r) = 0
           /\ Somewhere(r) => Copies(r) = 1
<1>0. Copies(r) = Cardinality(Slots(r)) BY DEF Copies, Slots
<1>1. ASSUME NEW x PROVE x \in Slots(r) <=> \E e \in Endpoints, side \in Sides, i \in Nat :
                                            Holds(r, e, side, i) /\ x = <<i, <<e, side>>>>
  <2>1. \A e \in Endpoints : /\ PositionsOf(buffer[e], r) = {i \in Nat : Holds(r, e, "buffer", i)}
                            /\ PositionsOf(topic[e], r) = {i \in Nat : Holds(r, e, "topic", i)}
    <3>1. \A e \in Endpoints : Len(buffer[e]) \in Nat /\ Len(topic[e]) \in Nat
      BY DEF IInv, TypeOK
    <3>. QED BY <3>1 DEF PositionsOf, Holds, Log
  <2>. QED BY <2>1 DEF Slots, Sides
<1>2. ~Somewhere(r) => Slots(r) = {} BY <1>1 DEF Somewhere
<1>3. ASSUME Somewhere(r) PROVE \E x : Slots(r) = {x}
  <2>1. PICK e \in Endpoints, side \in Sides, i \in Nat : Holds(r, e, side, i)
    BY <1>3 DEF Somewhere
  <2>2. \A y : y \in Slots(r) <=> y = <<i, <<e, side>>>>
    BY <1>1, <2>1 DEF InOnePlace
  <2>3. Slots(r) = {<<i, <<e, side>>>>} BY <2>2
  <2>. QED BY <2>3
<1>. QED BY <1>0, <1>2, <1>3, FS_EmptySet, FS_Singleton

\* There is nothing to account for at first.
LEMMA InitAccounts == Init => Accounts
<1>1. SUFFICES ASSUME Init PROVE Accounts OBVIOUS
<1>2. process = "down" /\ lost = {} /\ \A r \in Requests : call[r].at = "none"
  BY <1>1 DEF Init, NoCall
<1>3. \A r, e, s, i : e \in Endpoints => ~Holds(r, e, s, i)
  BY <1>1 DEF Init, Holds, Log
<1>4. \A r : ~Somewhere(r) /\ InOnePlace(r) BY <1>3 DEF Somewhere, InOnePlace
<1>. QED BY <1>2, <1>4 DEF Accounts, AccountOf, WasHanded

\* The invariant and the accounts hold in every reachable state.
THEOREM AccountInvariance == Spec => [](IInv /\ Accounts)
BY InitAccounts, NextAccounts, GatewayInvariance, PTL DEF Spec

\* An accepted request stands behind exactly one record, sent or on its way, or
\* a failure of the client, a crash or a shutdown lost it; a refused one stands
\* behind none, and one left without an answer behind one at most, unless it is lost.
THEOREM AcceptanceSafety == Spec => []AcceptedIsAccountedFor
<1>1. IInv /\ Accounts => AcceptedIsAccountedFor
  <2>1. SUFFICES ASSUME IInv, Accounts, NEW r \in Requests
                 PROVE
        /\ call[r].at = "accepted" /\ call[r].endpoint \in RelayEndpoints =>
              IF r \in lost
              THEN /\ Copies(r) = 0
                   /\ happened \cap {"produce", "gateway_crash", "gateway_interrupt"} # {}
              ELSE Copies(r) = 1
        /\ call[r].at = "refused" => Copies(r) = 0 /\ r \notin lost
        /\ call[r].at = "dropped" => Copies(r) <= IF r \in lost THEN 0 ELSE 1
    BY DEF AcceptedIsAccountedFor
  <2>2. AccountOf(r) BY <2>1 DEF Accounts
  <2>3. InOnePlace(r) BY <2>2 DEF AccountOf
  <2>4. Copies(r) = IF Somewhere(r) THEN 1 ELSE 0 BY <2>1, <2>3, CountedPlaces
  <2>5. r \in lost => ~Somewhere(r) BY <2>2 DEF AccountOf
  <2>6. call[r].at = "dropped" => Copies(r) <= IF r \in lost THEN 0 ELSE 1
    BY <2>4, <2>5
  <2>. QED BY <2>2, <2>4, <2>6 DEF AccountOf, Losing, MayBeHanded, WasHanded
<1>. QED BY <1>1, AccountInvariance, PTL

-----------------------------------------------------------------------------
(***************************************************************************)
(* The routing table and its file                                          *)
(***************************************************************************)

\* The process has the table of the file, or a change of it to read.
TableIsFile == routesFile.readable => routes = routesFile.routes \/ notified

RoutesInv ==
    "early_edit" \notin happened /\ process # "down" => TableIsFile

\* A file mounted as a volume is watched from Listen on; before that a change
\* is an early edit.
LEMMA RoutesStep ==
    ASSUME TypeOK, RoutesInv, Mount = "volume", Next
    PROVE  RoutesInv'
<1>0. happened \subseteq happened' BY HappenedGrows
<1>1. CASE Start
  <2>1. routes' = Reloaded /\ routesFile' = routesFile
    BY <1>1 DEF Start, outsideVars
  <2>. QED BY <2>1 DEF Reloaded, RoutesInv, TableIsFile
<1>2. CASE Reload
  <2>1. routes' = Reloaded /\ routesFile' = routesFile
    BY <1>2 DEF Reload, outsideVars
  <2>. QED BY <2>1 DEF Reloaded, RoutesInv, TableIsFile
<1>3. CASE Crash \/ Exit
  <2>1. process' = "down" BY <1>3 DEF Crash, Exit, ProcessEnds
  <2>. QED BY <2>1 DEF RoutesInv
<1>4. CASE EditRoutes
  <2>1. CASE process = "starting"
    <3>1. "early_edit" \in happened' BY <1>4, <2>1 DEF EditRoutes, Fault
    <3>. QED BY <3>1 DEF RoutesInv
  <2>2. CASE process = "down" BY <1>4, <2>2 DEF EditRoutes, RoutesInv
  <2>3. CASE process \in {"serving", "draining"}
    <3>1. notified' = TRUE BY <1>4, <2>3 DEF EditRoutes, Watched
    <3>. QED BY <3>1 DEF RoutesInv, TableIsFile
  <2>. QED BY <2>1, <2>2, <2>3 DEF TypeOK
<1>5. CASE Listen \/ Interrupt
  <2>1. process # "down" /\ UNCHANGED <<routes, routesFile, notified>>
    BY <1>5 DEF Listen, Interrupt, outsideVars
  <2>. QED BY <1>0, <2>1 DEF RoutesInv, TableIsFile
<1>6. ASSUME UNCHANGED <<process, routes, routesFile, notified>> PROVE RoutesInv'
  BY <1>0, <1>6 DEF RoutesInv, TableIsFile
<1>7. ASSUME NEW r \in Requests, Receive(r) \/ Handle(r) PROVE RoutesInv'
  BY <1>6, <1>7 DEF Receive, Handle, CheckCredit, GetFileMetadata, SoftDelete,
     SoftDeleteFails, UpdateRow, ResolveSchema, ResolveSchemaFails, StoreSchema, Encode,
     Answer, processVars, outsideVars
<1>8. ASSUME NEW e \in Endpoints, Flush(e) \/ ProduceFails(e) \/ EvolveSchema(e)
      PROVE  RoutesInv'
  BY <1>6, <1>8 DEF Flush, ProduceFails, EvolveSchema, processVars, outsideVars
<1>9. CASE OtherDelete BY <1>6, <1>9 DEF OtherDelete, processVars
<1>. QED BY <1>1, <1>2, <1>3, <1>4, <1>5, <1>7, <1>8, <1>9 DEF Next

\* The safe part of RoutesFollowFile: with a watched file, a process that
\* routes by another table than the file's has been told of the change, unless
\* that came between ReadInConfig and WatchConfig.  With a subPath mount it may
\* never be told: run gateway_subpath.
THEOREM RoutesAreWatched ==
    Mount = "volume" /\ Spec =>
        [](process = "serving" /\ routesFile.readable /\ "early_edit" \notin happened
               => routes = routesFile.routes \/ notified)
<1>. SUFFICES ASSUME Mount = "volume"
              PROVE  Spec => [](process = "serving" /\ routesFile.readable
                                   /\ "early_edit" \notin happened
                                => routes = routesFile.routes \/ notified)
  OBVIOUS
<1>1. Init => RoutesInv BY DEF Init, RoutesInv
<1>2. TypeOK /\ RoutesInv /\ [Next]_vars => RoutesInv'
  <2>. SUFFICES ASSUME TypeOK, RoutesInv, [Next]_vars PROVE RoutesInv' OBVIOUS
  <2>1. CASE UNCHANGED vars
    BY <2>1 DEF vars, gatewayVars, processVars, outsideVars, faultVars, RoutesInv, TableIsFile
  <2>. QED BY <2>1, RoutesStep
<1>3. RoutesInv => (process = "serving" /\ routesFile.readable
                       /\ "early_edit" \notin happened
                    => routes = routesFile.routes \/ notified)
  BY DEF RoutesInv, TableIsFile
<1>. QED BY <1>1, <1>2, <1>3, GatewayTypeCorrect, PTL DEF Spec
=============================================================================
