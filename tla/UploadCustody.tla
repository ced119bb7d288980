--------------------------- MODULE UploadCustody ---------------------------
(***************************************************************************)
(* What the move saga promises about an uploaded object and what the user  *)
(* is told, with no webhook, topic, timer or retry in it: the bytes are    *)
(* copied before the source is let go, and an outcome is announced only    *)
(* while the object is in permanent storage.                               *)
(***************************************************************************)
CONSTANT Paths

VARIABLES
    held,     \* the prefixes under which each object exists
    told,     \* the outcomes announced for it
    expired   \* paths the TTL saga gave up

Prefixes == {"uploads", "files"}
Outcomes == {"confirmed", "dead_letter"}

Init ==
    /\ held = [p \in Paths |-> {}]
    /\ told = [p \in Paths |-> {}]
    /\ expired = {}

Put(p) ==
    /\ held[p] = {}
    /\ held' = [held EXCEPT ![p] = {"uploads"}]
    /\ UNCHANGED <<told, expired>>

Copy(p) ==
    /\ "uploads" \in held[p]
    /\ held' = [held EXCEPT ![p] = @ \cup {"files"}]
    /\ UNCHANGED <<told, expired>>

Release(p) ==
    /\ "files" \in held[p]
    /\ held' = [held EXCEPT ![p] = @ \ {"uploads"}]
    /\ UNCHANGED <<told, expired>>

Expire(p) ==
    /\ expired' = expired \cup {p}
    /\ held' = [held EXCEPT ![p] = @ \ {"uploads"}]
    /\ UNCHANGED told

Tell(p) ==
    /\ "files" \in held[p]
    /\ \E outcome \in Outcomes : told' = [told EXCEPT ![p] = @ \cup {outcome}]
    /\ UNCHANGED <<held, expired>>

Next == \E p \in Paths : Put(p) \/ Copy(p) \/ Release(p) \/ Expire(p) \/ Tell(p)

Spec == Init /\ [][Next]_<<held, told, expired>>
=============================================================================
