---------------------------- MODULE FeedContract ----------------------------
(***************************************************************************)
(* What the device oracle promises whoever reads a feed                    *)
(* (plugins/oracle-publish/README.md, onchain/programs/zeroclaw-oracle):   *)
(* one registration, after which the feed changes only to a reading the    *)
(* device signed, each above the one before.                               *)
(***************************************************************************)
EXTENDS Integers

CONSTANTS Readings   \* records with a sequence; Unread is the one of no reading
CONSTANT Unread

VARIABLES
    registered,
    shown,    \* the reading the feed shows
    signed    \* readings the device has signed

vars == <<registered, shown, signed>>

Init == registered = FALSE /\ shown = Unread /\ signed = {}

Sign == \E r \in Readings \ signed :
    /\ signed' = signed \cup {r}
    /\ UNCHANGED <<registered, shown>>

Register ==
    /\ ~registered
    /\ registered' = TRUE
    /\ UNCHANGED <<shown, signed>>

Publish == \E r \in signed :
    /\ registered
    /\ r.sequence > shown.sequence
    /\ shown' = r
    /\ UNCHANGED <<registered, signed>>

Next == Sign \/ Register \/ Publish

Spec == Init /\ [][Next]_vars
=============================================================================
