-------------------------- MODULE MessageDelivery --------------------------
(***************************************************************************)
(* A user's message from the gateway to user_notifications: EventGateway   *)
(* fills the topic that MessageConsumer reads.  They share the topic and   *)
(* the schema registry, and fail independently of each other.              *)
(***************************************************************************)
EXTENDS MessageConsumer

CONSTANTS Requests, Configured, Mount, MaxVersion

VARIABLES process, keys, routes, notified, mediaWired, schemaCache, call, buffer,
          routesFile, registry, topic, listed, atStart, lost

Endpoints == {"external"}

Gateway == INSTANCE EventGateway WITH Evolving <- Endpoints

ASSUME MessageDeliveryAssumption ==
    /\ Gateway!RecordType \subseteq Records
    /\ Configured \subseteq {"hmac_secret", "jwks", "webhook_secret"}
    /\ Mount \in {"volume", "subPath"}
    /\ MaxVersion \in Nat \ {0} /\ MaxFaults \in Nat

gatewayVars == <<process, keys, routes, notified, mediaWired, schemaCache, call,
                 buffer, routesFile, registry, topic, listed, atStart, lost>>

deliveryVars == <<vars, gatewayVars>>

DeliveryInit == Gateway!Init /\ ConsumerInit /\ log = topic["external"]

\* A record the gateway's client has sent is a record of the consumer's log.
GatewayStep ==
    /\ Gateway!Next
    /\ log' = topic'["external"]
    /\ UNCHANGED consumerVars

DeliveryStep ==
    /\ ConsumerNext
    /\ UNCHANGED gatewayVars

DeliverySpec == DeliveryInit /\ [][GatewayStep \/ DeliveryStep]_deliveryVars

\* Of the gateway only that its client sends: what was accepted needs nothing else.
ClientSends ==
    /\ Gateway!Flush("external")
    /\ log' = topic'["external"]
    /\ UNCHANGED consumerVars

FairDeliverySpec == DeliverySpec /\ WF_deliveryVars(ClientSends) /\ ConsumerFairness

-----------------------------------------------------------------------------
\* A direct message is never stored as a broadcast, although the gateway's
\* schema cache may be stale and a missing visibility decodes as broadcast:
\* that takes a gateway process older than the schema that has the fields.
DirectStaysDirect ==
    \A i \in broadcast :
        log[i].request \in Direct => log[i].floor < FieldsSince

\* The record at position i or one before it stops every replica that inserts
\* it, even one that was passed over before it was read again.
Blocked(i) == \E j \in 1..i : log[j].request \in Refused

\* A message that was answered 204 gets its row, through crashes of the gateway
\* and of replicas, rebalances and failed inserts.  What may come in between: the
\* gateway lost the record, a record was passed over, a refused record is in
\* the way, or an interrupted replica keeps the partition.
AcceptedIsDelivered ==
    \A r \in Requests :
        call[r].at = "accepted" ~>
            \/ r \in lost
            \/ "consumer_interrupt" \in happened
            \/ \E i \in 1..Len(log) :
                   /\ log[i].request = r
                   /\ i \in inserted \/ i \in skipped \/ Blocked(i)
=============================================================================
