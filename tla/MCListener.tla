----------------------------- MODULE MCListener ------------------------------
(* Instances of Listener for TLC. *)
EXTENDS Listener, TLC

CONSTANTS sa, sb

NewLink == [type |-> "link", long |-> TRUE]
ShortLink == [type |-> "link", long |-> FALSE]
NewRoute == [type |-> "route", long |-> TRUE]
Other == [type |-> "other", long |-> TRUE]

AllHeaders == {NewLink, ShortLink, NewRoute, Other}
LinkHeaders == {NewLink, ShortLink}
OneHeader == {NewLink}

OneSlot == {sa}
TwoSlots == {sa, sb}
LinkTopic == [s \in Slots |-> "link"]
\* sa runs in place, sb is spawned.
MixedPolicy == [s \in Slots |-> IF s = sa THEN "Sync" ELSE "Async"]
SyncPolicy == [s \in Slots |-> "Sync"]
=============================================================================
