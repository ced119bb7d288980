--------------------------- MODULE MessageStream ---------------------------
(***************************************************************************)
(* What the message consumer promises, with no group, offset or crash in   *)
(* it: every record of the topic is settled - stored as a row or passed    *)
(* over - and none is before all the earlier ones are.                     *)
(***************************************************************************)
EXTENDS Naturals

VARIABLES
    produced,  \* how many records the topic has
    stored,    \* the positions that have a row
    skipped    \* the positions that were passed over

Init == produced = 0 /\ stored = {} /\ skipped = {}

Grow ==
    /\ produced' = produced + 1
    /\ UNCHANGED <<stored, skipped>>

\* Everything before position i is settled.
IsTurn(i) == 1..(i - 1) \subseteq stored \cup skipped

Store(i) ==
    /\ IsTurn(i)
    /\ stored' = stored \cup {i}
    /\ UNCHANGED <<produced, skipped>>

Skip(i, j) ==
    /\ IsTurn(i)
    /\ skipped' = skipped \cup i..j
    /\ UNCHANGED <<produced, stored>>

Next ==
    \/ Grow
    \/ \E i \in 1..produced : Store(i)
    \/ \E i, j \in 1..produced : Skip(i, j)

Spec == Init /\ [][Next]_<<produced, stored, skipped>>
=============================================================================
