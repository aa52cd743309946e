---------------------------- MODULE ProofBundle ----------------------------
(***************************************************************************)
(* The evidence a reader checks without a network.                         *)
(*                                                                         *)
(* A public node forgets a transaction after some days.                    *)
(* scripts/capture-proof-bundle.py copies raw transactions into one JSON   *)
(* file while a node still serves them, rewriting the whole file at the    *)
(* end of a run; scripts/verify_proof_offline.py then checks every         *)
(* captured entry against its digest, its signature and its keys.          *)
(*                                                                         *)
(* An entry is its status, and a CAPTURED one whose bytes are no longer    *)
(* its transaction's is "damaged": the digest, the first signature or the  *)
(* ed25519 check of the verifier tells it from a good one, which is all    *)
(* the byte layout is needed for.                                          *)
(***************************************************************************)
EXTENDS Naturals, FiniteSets

CONSTANTS
    Txs,            \* transactions the project's claims rest on
    Captures,       \* runs of capture-proof-bundle.py
    Requests,       \* sets of signatures one is given on its command line
    Torn,           \* a file cut short inside write_text
    MaxPruned,      \* bound: transactions the nodes forget
    MaxDamage       \* bound: entries or files spoilt by hands and merges

ASSUME BundleAssumption == Requests \subseteq SUBSET Txs

VARIABLES
    retained,       \* transactions a node still serves
    file,           \* the bundle: a status for each transaction, or Torn
    capture,        \* each run: what it read, what it holds, what is left to ask
    sibling,        \* does every other bundle in docs/proof-bundle verify?
    damage          \* bound counter
bundleVars == <<retained, file, capture, sibling, damage>>

IsCaptured(entry) == entry \in {"captured", "damaged"}

Idle == [at |-> "idle", left |-> {}, asked |-> {}, force |-> FALSE,
         held |-> {}, txs |-> [t \in Txs |-> "absent"],
         failed |-> FALSE]

BundleInit ==
    /\ retained = Txs
    /\ file = [t \in Txs |-> "absent"]
    /\ capture = [c \in Captures |-> Idle]
    /\ sibling \in BOOLEAN
    /\ damage = 0

(***************************************************************************)
(* One capture run.                                                        *)
(***************************************************************************)

\* The file is read whole, and the targets are the signatures asked for and,
\* with --refresh, every recorded one that is not CAPTURED.  A torn file does
\* not parse and the run ends there.
StartCapture(c, asked, refresh, force) ==
    LET recorded == {t \in Txs : file[t] = "missing"}
        targets == asked \cup IF refresh THEN recorded ELSE {}
    IN  /\ capture[c].at = "idle" /\ file # Torn
        /\ targets # {}
        /\ capture' = [capture EXCEPT ![c] =
                          [Idle EXCEPT !.at = "asking", !.left = targets, !.asked = targets,
                                       !.force = force, !.held = {t \in Txs : file[t] = "captured"}, !.txs = file]]
        /\ UNCHANGED <<retained, file, sibling, damage>>

\* An entry that is captured already is not asked for, unless forced.
Skip(run, t) == IsCaptured(run.txs[t]) /\ ~run.force

\* What fetch may return: the transaction while a node serves it, and a failure
\* at any time.
fetch(t) == {"missing"} \cup IF t \in retained THEN {"captured"} ELSE {}

\* A forced fetch that fails replaces what it was to renew.
TakeForced(run, t, status) ==
    IF IsCaptured(run.txs[t]) /\ ~run.force THEN run
    ELSE [run EXCEPT !.txs[t] = status, !.failed = @ \/ status = "missing"]

\* A good entry is never clobbered by a failed fetch, forced or not.
Take(run, t, status) ==
    IF status = "captured" THEN [run EXCEPT !.txs[t] = status]
    ELSE IF IsCaptured(run.txs[t]) THEN run
    ELSE [run EXCEPT !.txs[t] = status, !.failed = TRUE]

Ask(c, t) ==
    LET run == capture[c] IN
    /\ run.at = "asking" /\ t \in run.left
    /\ \/ Skip(run, t) /\ capture' = [capture EXCEPT ![c].left = @ \ {t}]
       \/ /\ ~Skip(run, t)
          /\ \E status \in fetch(t) :
                capture' = [capture EXCEPT ![c] = [Take(run, t, status) EXCEPT !.left = @ \ {t}]]
    /\ UNCHANGED <<retained, file, sibling, damage>>

\* write_text truncates the file and then fills it.
BeginWrite(c) ==
    /\ capture[c].at = "asking" /\ capture[c].left = {}
    /\ capture' = [capture EXCEPT ![c].at = "writing"]
    /\ file' = Torn
    /\ UNCHANGED <<retained, sibling, damage>>

ExitsZero(c) == ~capture[c].failed
EndWrite(c) ==
    /\ capture[c].at = "writing"
    /\ file' = capture[c].txs
    /\ capture' = [capture EXCEPT ![c] = Idle]
    /\ UNCHANGED <<retained, sibling, damage>>

KillCapture(c) ==
    /\ capture[c].at # "idle" /\ damage < MaxDamage
    /\ capture' = [capture EXCEPT ![c] = Idle]
    /\ damage' = damage + 1
    /\ UNCHANGED <<retained, file, sibling>>

(***************************************************************************)
(* The node forgets; a merge or a hand spoils an entry or another bundle.  *)
(***************************************************************************)
Prune(t) ==
    /\ Cardinality(Txs \ retained) < MaxPruned
    /\ t \in retained /\ retained' = retained \ {t}
    /\ UNCHANGED <<file, capture, sibling, damage>>

Spoil(t) ==
    /\ file # Torn /\ file[t] = "captured" /\ damage < MaxDamage
    /\ file' = [file EXCEPT ![t] = "damaged"]
    /\ damage' = damage + 1
    /\ UNCHANGED <<retained, capture, sibling>>

SpoilSibling ==
    /\ sibling /\ damage < MaxDamage
    /\ sibling' = FALSE /\ damage' = damage + 1
    /\ UNCHANGED <<retained, file, capture>>

(***************************************************************************)
(* verify_proof_offline.py.  A bundle without captured entries is          *)
(* unusable; the default invocation reports the worst of all bundles, and  *)
(* fewer than two are a failure.                                           *)
(***************************************************************************)
verify_one ==
    IF file = Torn THEN 1
    ELSE IF \A t \in Txs : ~IsCaptured(file[t]) THEN 2
    ELSE IF \E t \in Txs : file[t] = "damaged" THEN 1
    ELSE 0

VerifiesOffline == verify_one = 0 /\ sibling

BundleNext ==
    \/ \E c \in Captures :
          \/ \E asked \in Requests, refresh, force \in BOOLEAN :
                StartCapture(c, asked, refresh, force)
          \/ \E t \in Txs : Ask(c, t)
          \/ BeginWrite(c) \/ EndWrite(c) \/ KillCapture(c)
    \/ \E t \in Txs : Prune(t) \/ Spoil(t)
    \/ SpoilSibling
=============================================================================
