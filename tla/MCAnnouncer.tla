----------------------------- MODULE MCAnnouncer -----------------------------
(***************************************************************************)
(* Announcer on a small instance: three transactions on the account,       *)
(* two of them settlements, and the window holds all of them.  Only the    *)
(* outgoing one may be answered without metadata: a settlement that is so  *)
(* answered is cached as none for good (README, section 4).                *)
(***************************************************************************)
EXTENDS Announcer

CONSTANTS s1, s2, outgoing

MCSignatures == {s1, s2, outgoing}
MCSettlements == {s1, s2}
OnlyOutgoing == {outgoing}

=============================================================================
