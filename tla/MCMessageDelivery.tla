------------------------- MODULE MCMessageDelivery -------------------------
(***************************************************************************)
(* MessageDelivery for TLC: what the gateway writes into the topic.        *)
(***************************************************************************)
EXTENDS MessageDelivery

MCRecords == [request : Requests, version : 1..MaxVersion, floor : 1..MaxVersion]
=============================================================================
