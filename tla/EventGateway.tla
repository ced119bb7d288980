---------------------------- MODULE EventGateway ----------------------------
(***************************************************************************)
(* The API gateway: HTTP requests become Avro records of Kafka topics.     *)
(*                                                                         *)
(* Each request runs in a goroutine of its own, so the steps of two        *)
(* requests interleave: authentication and routing, the rows the legacy    *)
(* media handlers read and change, the schema (cached per subject for the  *)
(* life of the process), the handing of the record to the Kafka client,    *)
(* which sends it in its own time, and the answer.  The route table is     *)
(* reloaded while requests are served; the keys are loaded once, at the    *)
(* start.                                                                  *)
(*                                                                         *)
(* Each endpoint has one topic, and each topic one partition: a log.  The  *)
(* three intent endpoints share their handler and are one endpoint here.   *)
(***************************************************************************)
EXTENDS Integers, Sequences, FiniteSets

CONSTANTS
    Requests,     \* HTTP requests
    Endpoints,    \* the endpoints that are called
    Configured,   \* which secrets the environment gives the process
    Mount,        \* how routes.yaml is mounted: "volume" or "subPath"
    Evolving,     \* endpoints whose topic gets new schema versions
    MaxVersion,   \* bound: schema versions of a subject
    MaxFaults,    \* bound: failures and outside changes in one behaviour
    FaultKinds    \* the kinds that may happen

RelayEndpoints == {"webhook", "external", "intent"}     \* answer for the record
RoutedEndpoints == {"webhook", "external"} \cap Endpoints \* those of routes.yaml
MediaEndpoints == {"upload_url", "download_url", "delete"} \* legacy handlers

GatewayFaultKinds ==
    {"jwks", "ping",             \* a dependency is down when the process starts
     "db", "db_committed",       \* a query fails; an UPDATE fails after its commit
     "schema",                   \* the schema registry does not answer
     "produce",                  \* the client gives a record up
     "gateway_crash", "gateway_interrupt", \* the process is killed; gets SIGINT
     "edit", "early_edit",       \* routes.yaml changes; while the process starts
     "other_delete"}             \* the media-service deletes the same file

ASSUME EventGatewayAssumption ==
    /\ Endpoints \subseteq RelayEndpoints \cup MediaEndpoints
    /\ Configured \subseteq {"hmac_secret", "jwks", "webhook_secret"}
    /\ Mount \in {"volume", "subPath"}
    /\ Evolving \subseteq Endpoints
    /\ MaxVersion \in Nat \ {0} /\ MaxFaults \in Nat

VARIABLES
    \* the process
    process,      \* "down", "starting", "serving" or "draining"
    keys,         \* the signatures it can verify
    routes,       \* appConfig: the routed endpoints in the allowlist
    notified,     \* an fsnotify event waits
    mediaWired,   \* the legacy media handlers are registered
    schemaCache,  \* endpoint -> cached version, 0 when there is none
    call,         \* request -> its goroutine
    buffer,       \* endpoint -> records the Kafka client has yet to send
    \* outside
    routesFile,   \* routes.yaml
    registry,     \* endpoint -> latest version in the schema registry
    topic,        \* endpoint -> the log of its topic
    listed,       \* media_files has the file as active
    \* history
    atStart,      \* endpoint -> latest version when the process started
    lost,         \* requests whose record was given up or died with the client
    faults,
    happened

processVars == <<process, keys, routes, notified, mediaWired, schemaCache, atStart>>
recordVars  == <<buffer, topic, lost>>
outsideVars == <<routesFile, registry, listed>>
faultVars   == <<faults, happened>>

gatewayVars == <<processVars, call, recordVars, outsideVars>>
vars == <<gatewayVars, faultVars>>

Fault(kind) ==
    /\ kind \in FaultKinds
    /\ faults < MaxFaults
    /\ faults' = faults + 1
    /\ happened' = happened \cup {kind}

Ended == {"accepted", "refused", "dropped"}
InFlight(r) == call[r].at \notin Ended \cup {"none"}

NoCall == [at |-> "none", endpoint |-> "none", version |-> 0]

Init ==
    /\ process = "down" /\ keys = {} /\ routes = {} /\ notified = FALSE
    /\ mediaWired = FALSE
    /\ schemaCache = [e \in Endpoints |-> 0]
    /\ call = [r \in Requests |-> NoCall]
    /\ buffer = [e \in Endpoints |-> <<>>]
    /\ topic = [e \in Endpoints |-> <<>>]
    /\ routesFile = [readable |-> TRUE, routes |-> RoutedEndpoints]
    /\ registry = [e \in Endpoints |-> 1]
    /\ listed = TRUE
    /\ atStart = registry
    /\ lost = {} /\ faults = 0 /\ happened = {}

-----------------------------------------------------------------------------
(***************************************************************************)
(* Plausible mistakes, variants of the definitions below.                  *)
(***************************************************************************)
AnswerOnly(r) == UNCHANGED buffer
KeepCache == schemaCache
KeepRoutes == routes
DeleteNothing(r) == UNCHANGED listed
EncodeAtOnce(e) == "encode"

-----------------------------------------------------------------------------
(***************************************************************************)
(* The life of the process                                                 *)
(***************************************************************************)

\* ReadInConfig and updateConfig: an undecodable file leaves the table alone.
Reloaded == IF routesFile.readable THEN routesFile.routes ELSE routes

\* The JWKS endpoint is asked once; a failure is only logged.
FetchJWKS(symmetric) ==
    \/ /\ "jwks" \in Configured
       /\ keys' = symmetric \cup {"es256"}
       /\ UNCHANGED faultVars
    \/ /\ keys' = symmetric
       /\ IF "jwks" \in Configured THEN Fault("jwks") ELSE UNCHANGED faultVars

\* The environment's keys, the JWKS and the first read of routes.yaml.
Start ==
    /\ process = "down"
    /\ process' = "starting"
    /\ FetchJWKS(IF "hmac_secret" \in Configured THEN {"hs256"} ELSE {})
    /\ routes' = Reloaded
    /\ atStart' = registry
    /\ UNCHANGED <<notified, mediaWired, schemaCache, call, recordVars, outsideVars>>

\* initMediaHandlers: without the database's ping there are no handlers.
WireMedia ==
    \/ mediaWired' = TRUE /\ UNCHANGED faultVars
    \/ mediaWired' = FALSE /\ Fault("ping")

\* WatchConfig, the mux and the listener.
Listen ==
    /\ process = "starting"
    /\ process' = "serving"
    /\ WireMedia
    /\ UNCHANGED <<keys, routes, notified, schemaCache, atStart, call, recordVars,
                   outsideVars>>

\* OnConfigChange.
Reload ==
    /\ notified /\ process \in {"serving", "draining"}
    /\ notified' = FALSE
    /\ routes' = Reloaded
    /\ UNCHANGED <<process, keys, mediaWired, schemaCache, atStart, call, recordVars,
                   outsideVars, faultVars>>

\* What is left when the process is gone: the client is closed without a
\* Flush, so the records it buffers are not sent.
EmptyCache == [e \in Endpoints |-> 0]
Buffered == UNION {{buffer[e][i].request : i \in 1..Len(buffer[e])} : e \in Endpoints}
LoseBuffered == lost' = lost \cup Buffered

ProcessEnds ==
    /\ process' = "down"
    /\ keys' = {} /\ routes' = {} /\ notified' = FALSE /\ mediaWired' = FALSE
    /\ schemaCache' = EmptyCache
    /\ call' = [r \in Requests |->
                   IF InFlight(r) THEN [call[r] EXCEPT !.at = "dropped"] ELSE call[r]]
    /\ LoseBuffered
    /\ buffer' = [e \in Endpoints |-> <<>>]
    /\ UNCHANGED <<topic, outsideVars, atStart>>

\* SIGKILL, SIGTERM (only os.Interrupt is handled) or a panic.
Crash ==
    /\ process # "down"
    /\ Fault("gateway_crash")
    /\ ProcessEnds

\* server.Shutdown: no new request is accepted.
Interrupt ==
    /\ process = "serving"
    /\ process' = "draining"
    /\ Fault("gateway_interrupt")
    /\ UNCHANGED <<keys, routes, notified, mediaWired, schemaCache, atStart, call,
                   recordVars, outsideVars>>

\* Shutdown returned, or its five seconds have passed.
Exit ==
    /\ process = "draining"
    /\ ProcessEnds
    /\ UNCHANGED faultVars

-----------------------------------------------------------------------------
(***************************************************************************)
(* A request                                                               *)
(***************************************************************************)
Step(r, at) == call' = [call EXCEPT ![r].at = at]

\* The signing method of a bearer token must have its key.
Verified(credential) == credential \in keys

\* Topic keys outside the allowlist are forbidden; the secret is checked only
\* when there is one.
WebhookAdmits(credential) ==
    /\ "webhook_secret" \in Configured => credential = "secret"
    /\ "webhook" \in routes

\* Without any key the signature is not checked.
ExternalAdmits(credential) ==
    /\ keys # {} => Verified(credential)
    /\ "external" \in routes

\* Here it always is.
AuthenticateRequest(credential) == Verified(credential)

\* Handlers that are not registered answer 404.
MediaAdmits(credential) == mediaWired /\ AuthenticateRequest(credential)

Admits(e, credential) ==
    CASE e = "webhook"  -> WebhookAdmits(credential)
      [] e = "external" -> ExternalAdmits(credential)
      [] e = "intent"   -> AuthenticateRequest(credential)
      [] e \in MediaEndpoints -> MediaAdmits(credential)

FirstStep(e) ==
    CASE e = "upload_url" -> "credit"
      [] e \in {"download_url", "delete"} -> "lookup"
      [] OTHER -> "resolve"

\* Authentication, the allowlist and the validation of the body.
Receive(r) ==
    /\ process = "serving"
    /\ call[r].at = "none"
    /\ \E e \in Endpoints, credential \in {"secret", "hs256", "es256", "other"},
          valid \in BOOLEAN :
           LET admitted == Admits(e, credential) /\ valid
           IN  call' = [call EXCEPT ![r] =
                           [at |-> IF admitted THEN FirstStep(e) ELSE "refused",
                            endpoint |-> e, version |-> 0]]
    /\ UNCHANGED <<processVars, recordVars, outsideVars, faultVars>>

\* UploadHandler: the balance decides and nothing is changed; see UploadCredit
\* for the ledger.
CheckCredit(r) ==
    /\ call[r].at = "credit"
    /\ \/ \E answer \in {"accepted", "refused"} : Step(r, answer) /\ UNCHANGED faultVars
       \/ Step(r, "refused") /\ Fault("db")
    /\ UNCHANGED <<processVars, recordVars, outsideVars>>

\* A download is signed, which changes nothing, and its event produced.
AfterLookup(e) == IF e = "delete" THEN "soft_delete" ELSE "resolve"

\* GetFileMetadata: the active row, or 404.
GetFileMetadata(r) ==
    /\ call[r].at = "lookup"
    /\ \/ Step(r, IF listed THEN AfterLookup(call[r].endpoint) ELSE "refused")
          /\ UNCHANGED faultVars
       \/ Step(r, "refused") /\ Fault("db")
    /\ UNCHANGED <<processVars, recordVars, outsideVars>>

\* UPDATE ... AND status = 'active'.
UpdateRow(r) == listed' = FALSE

\* The number of updated rows is ignored: of two requests that found the row,
\* both go on.
SoftDelete(r) ==
    /\ call[r].at = "soft_delete"
    /\ UpdateRow(r)
    /\ Step(r, "resolve")
    /\ UNCHANGED <<processVars, recordVars, routesFile, registry, faultVars>>

SoftDeleteFails(r) ==
    /\ call[r].at = "soft_delete"
    /\ \/ Fault("db") /\ UNCHANGED listed
       \/ Fault("db_committed") /\ UpdateRow(r)
    /\ Step(r, "refused")
    /\ UNCHANGED <<processVars, recordVars, routesFile, registry>>

\* No record is produced.  The legacy handlers ignore the error.
NotProduced(r) ==
    Step(r, IF call[r].endpoint \in RelayEndpoints THEN "refused" ELSE "answer")

\* schemaCache.Load, and SchemaByVersion(-1) on a miss.
ResolveSchema(r) ==
    /\ call[r].at = "resolve"
    /\ LET e == call[r].endpoint
           cached == schemaCache[e]
       IN  call' = [call EXCEPT
                       ![r].at = IF cached # 0 THEN "encode" ELSE "store",
                       ![r].version = IF cached # 0 THEN cached ELSE registry[e]]
    /\ UNCHANGED <<processVars, recordVars, outsideVars, faultVars>>

ResolveSchemaFails(r) ==
    /\ call[r].at = "resolve"
    /\ schemaCache[call[r].endpoint] = 0
    /\ Fault("schema")
    /\ NotProduced(r)
    /\ UNCHANGED <<processVars, recordVars, outsideVars>>

\* schemaCache.Store: of two racing fetches the one that stores last stays.
StoreSchema(r) ==
    /\ call[r].at = "store"
    /\ schemaCache' = [schemaCache EXCEPT ![call[r].endpoint] = call[r].version]
    /\ Step(r, "encode")
    /\ UNCHANGED <<process, keys, routes, notified, mediaWired, atStart, recordVars,
                   outsideVars, faultVars>>

\* kafkaClient.Produce with a callback that only counts and logs.
Record(r) == [request |-> r, version |-> call[r].version,
              floor |-> atStart[call[r].endpoint]]
Produce(r) ==
    buffer' = [buffer EXCEPT ![call[r].endpoint] = Append(@, Record(r))]

\* A body that does not fit the schema is not produced.
Encode(r) ==
    /\ call[r].at = "encode"
    /\ \/ NotProduced(r) /\ UNCHANGED buffer
       \/ Produce(r) /\ Step(r, "answer")
    /\ UNCHANGED <<processVars, topic, lost, outsideVars, faultVars>>

\* 202 or 204, with the record sent, lost or still in the client.
Answer(r) ==
    /\ call[r].at = "answer"
    /\ Step(r, "accepted")
    /\ UNCHANGED <<processVars, recordVars, outsideVars, faultVars>>

-----------------------------------------------------------------------------
(***************************************************************************)
(* The Kafka client, and what changes outside                              *)
(***************************************************************************)

\* The idempotent producer sends in order and without repeats.
Flush(e) ==
    /\ buffer[e] # <<>>
    /\ topic' = [topic EXCEPT ![e] = Append(@, Head(buffer[e]))]
    /\ buffer' = [buffer EXCEPT ![e] = Tail(@)]
    /\ UNCHANGED <<processVars, call, lost, outsideVars, faultVars>>

GiveUp(e) == lost' = lost \cup {Head(buffer[e]).request}

ProduceFails(e) ==
    /\ buffer[e] # <<>>
    /\ Fault("produce")
    /\ GiveUp(e)
    /\ buffer' = [buffer EXCEPT ![e] = Tail(@)]
    /\ UNCHANGED <<processVars, call, topic, outsideVars>>

\* A file mounted with subPath is never updated in a running container.
Watched == Mount = "volume" /\ process \in {"serving", "draining"}

EditRoutes ==
    /\ Fault(IF process = "starting" THEN "early_edit" ELSE "edit")
    /\ \E table \in SUBSET RoutedEndpoints, readable \in BOOLEAN :
           routesFile' = [readable |-> readable, routes |-> table]
    /\ notified' = (notified \/ Watched)
    /\ UNCHANGED <<process, keys, routes, mediaWired, schemaCache, atStart, call,
                   recordVars, registry, listed>>

EvolveSchema(e) ==
    /\ e \in Evolving
    /\ registry[e] < MaxVersion
    /\ registry' = [registry EXCEPT ![e] = @ + 1]
    /\ UNCHANGED <<processVars, call, recordVars, routesFile, listed, faultVars>>

OtherDelete ==
    /\ listed
    /\ Fault("other_delete")
    /\ listed' = FALSE
    /\ UNCHANGED <<processVars, call, recordVars, routesFile, registry>>

-----------------------------------------------------------------------------
Handle(r) ==
    \/ CheckCredit(r) \/ GetFileMetadata(r) \/ SoftDelete(r) \/ SoftDeleteFails(r)
    \/ ResolveSchema(r) \/ ResolveSchemaFails(r) \/ StoreSchema(r) \/ Encode(r)
    \/ Answer(r)

Next ==
    \/ Start \/ Listen \/ Reload \/ Crash \/ Interrupt \/ Exit
    \/ \E r \in Requests : Receive(r) \/ Handle(r)
    \/ \E e \in Endpoints : Flush(e) \/ ProduceFails(e) \/ EvolveSchema(e)
    \/ EditRoutes \/ OtherDelete

Spec == Init /\ [][Next]_vars

\* The process is restarted by Kubernetes and runs to its listener; a
\* goroutine is scheduled, a watched change is delivered and the client sends.
GatewayFairness ==
    /\ WF_vars(Start) /\ WF_vars(Listen) /\ WF_vars(Reload) /\ WF_vars(Exit)
    /\ \A r \in Requests : WF_vars(Handle(r))
    /\ \A e \in Endpoints : WF_vars(Flush(e))

FairSpec == Spec /\ GatewayFairness

-----------------------------------------------------------------------------
(***************************************************************************)
(* Properties                                                              *)
(***************************************************************************)
RecordType == [request : Requests, version : 1..MaxVersion, floor : 1..MaxVersion]

CallType ==
    [at : {"none", "credit", "lookup", "soft_delete", "resolve", "store", "encode",
           "answer"} \cup Ended,
     endpoint : Endpoints \cup {"none"},
     version : 0..MaxVersion]

\* Every variable has its type.
TypeOK ==
    /\ process \in {"down", "starting", "serving", "draining"}
    /\ keys \subseteq {"hs256", "es256"}
    /\ routes \subseteq RoutedEndpoints
    /\ notified \in BOOLEAN /\ mediaWired \in BOOLEAN /\ listed \in BOOLEAN
    /\ schemaCache \in [Endpoints -> 0..MaxVersion]
    /\ registry \in [Endpoints -> 1..MaxVersion]
    /\ atStart \in [Endpoints -> 1..MaxVersion]
    /\ call \in [Requests -> CallType]
    /\ buffer \in [Endpoints -> Seq(RecordType)]
    /\ topic \in [Endpoints -> Seq(RecordType)]
    /\ routesFile \in [readable : BOOLEAN, routes : SUBSET RoutedEndpoints]
    /\ lost \subseteq Requests
    /\ faults \in 0..MaxFaults /\ happened \subseteq FaultKinds

PositionsOf(log, r) == {i \in 1..Len(log) : log[i].request = r}
Copies(r) == Cardinality(UNION {PositionsOf(buffer[e], r) \X {<<e, "buffer">>}
                                   \cup PositionsOf(topic[e], r) \X {<<e, "topic">>}
                                : e \in Endpoints})

\* A request that was answered 202 or 204 stands behind exactly one record,
\* on its way or in its topic, or its record was lost, for which the client,
\* a crash or a shutdown is to blame (the asynchronous Produce of
\* processAndProduceEvent).  One that was refused stands behind none.  One that
\* the process left without an answer may stand behind one all the same, when it
\* ended between Produce and the answer: sent or lost, never both and never two.
AcceptedIsAccountedFor ==
    \A r \in Requests :
        /\ call[r].at = "accepted" /\ call[r].endpoint \in RelayEndpoints =>
              IF r \in lost
              THEN /\ Copies(r) = 0
                   /\ happened \cap {"produce", "gateway_crash", "gateway_interrupt"} # {}
              ELSE Copies(r) = 1
        /\ call[r].at = "refused" => Copies(r) = 0 /\ r \notin lost
        /\ call[r].at = "dropped" => Copies(r) <= IF r \in lost THEN 0 ELSE 1

\* The schema cache is never invalidated and two racing fetches may leave the
\* older answer in it, but it dies with the process: a record is never older
\* than the version that was the latest when its process started.
FreshSinceStart ==
    \A e \in Endpoints : \A i \in 1..Len(topic[e]) :
        topic[e][i].version >= topic[e][i].floor

\* However many legacy deletes race with each other and with the media-service,
\* a caller is told "success" and public.media.delete.events has a record only
\* when the row is no longer active.
DeletedBeforeTold ==
    listed =>
        /\ "delete" \in Endpoints => topic["delete"] = <<>> /\ buffer["delete"] = <<>>
        /\ \A r \in Requests :
               ~(call[r].endpoint = "delete" /\ call[r].at = "accepted")

\* Once the changes stop, a serving process routes by the file, unless the file
\* cannot be decoded or was changed between ReadInConfig and WatchConfig.
RoutesFollowFile ==
    <>[](process = "serving" /\ routesFile.readable /\ "early_edit" \notin happened
            => routes = routesFile.routes)
=============================================================================
