------------------------------ MODULE Deployment ------------------------------
(***************************************************************************)
(* The box and the checkout it is deployed from.  An operator edits and     *)
(* commits the tree, blesses plugin binaries, generates the manifest        *)
(* (deploy/make_invariants.py) and copies the mapped files onto the box     *)
(* (deploy/sync_workspace.py); a timer recomputes the published verdict     *)
(* (deploy/box_selfcheck.py).  The tools read the tree and the box in       *)
(* several steps, and the tree, the box and the other tool move between     *)
(* them.  A hash stands for the content it is taken from.                   *)
(***************************************************************************)
EXTENDS Naturals, Sequences, FiniteSets

CONSTANTS
    Entries,       \* deploy-targets.json: the files an entry of the map matches when tracked
    MIN_FILES,     \* the floor under what the whole map matches
    UnitFiles,     \* systemd unit files under deploy/
    Source,        \* the tracked source of one plugin
    Prose,         \* mapped markdown files
    Scripts,       \* mapped Python files
    PinSource,     \* pay_link.py, where the two pins are declared
    Contents,      \* what a file can hold
    OtherNetwork,  \* contents with a sentence that names another network
    Foreign,       \* contents with an address that is not the shop's
    Pinned,        \* contents that carry the merchant and the mint
    Timers,        \* units the manifest lists: timers,
    Oneshots,      \* ... one-shot services,
    Daemons,       \* ... and daemons
    None,
    MaxEdits, MaxCommits, MaxTools, MaxDrift   \* bounds

Mapped == UNION Entries
Paths == Mapped \cup UnitFiles \cup {Source}
Units == Timers \cup Oneshots \cup Daemons

ASSUME DeploymentAssumption ==
    /\ PinSource \in Scripts /\ Scripts \subseteq Mapped /\ Prose \subseteq Mapped
    /\ Source \notin Mapped \cup UnitFiles /\ Mapped \cap UnitFiles = {}
    /\ OtherNetwork \cup Foreign \cup Pinned \subseteq Contents
    /\ None \notin Contents
    /\ MIN_FILES \in Nat
    /\ \A n \in {MaxEdits, MaxCommits, MaxTools, MaxDrift} : n \in Nat

VARIABLES
    tree,      \* the checkout: [files, blessed]; a deleted file is None
    history,   \* the commits, each a tree; HEAD is the last
    wasm,      \* the built plugin artifact: the source it was compiled from
    manifest,  \* deploy/SHOP-INVARIANTS.json, git-ignored
    op,        \* the operator's running tool
    box,       \* files under ZEROCLAW_HOME and the unit directory
    boxWasm,   \* the plugin binary the daemon loads
    boxInv,    \* SHOP-INVARIANTS.json on the box
    marker,    \* DEPLOYED_SHA on the box
    live,      \* what the box runs: unit states, the start gate, agent memory
    chk,       \* the running selfcheck
    verdict,   \* the published verdict
    spent      \* budget used: edits, tools, drift
repo  == <<tree, history, wasm, manifest>>
boxed == <<box, boxWasm, boxInv, marker>>
vars  == <<repo, op, boxed, live, chk, verdict, spent>>

Idle    == [tool |-> "none"]
Asleep  == [pc |-> "idle"]
HEAD    == Len(history)
Dirty   == tree # history[HEAD]

\* git ls-files, of what a commit holds.
Tracked(files) == {p \in files : history[HEAD].files[p] # None}

\* The map resolves: every entry matches some tracked file, and all of them enough.
MapResolves ==
    /\ \A entry \in Entries : Tracked(entry) # {}
    /\ Cardinality(Tracked(Mapped)) >= MIN_FILES
----------------------------------------------------------------------------
(* The operator's checkout.  A running tool notes that its input moved.      *)

Moved(o) == IF o.tool = "none" THEN o ELSE [o EXCEPT !.moved = TRUE]

Edit(p, c) ==
    /\ spent.edits < MaxEdits
    /\ tree.files[p] # c
    /\ tree' = [tree EXCEPT !.files[p] = c]
    /\ spent' = [spent EXCEPT !.edits = @ + 1]
    /\ op' = Moved(op)
    /\ UNCHANGED <<history, wasm, manifest, boxed, live, chk, verdict>>

Commit ==
    /\ Dirty
    /\ HEAD < MaxCommits
    /\ history' = Append(history, tree)
    /\ op' = Moved(op)
    /\ UNCHANGED <<tree, wasm, manifest, boxed, live, chk, verdict, spent>>

Build ==
    /\ tree.files[Source] \notin {None, wasm}
    /\ wasm' = tree.files[Source]
    /\ UNCHANGED <<tree, history, manifest, op, boxed, live, chk, verdict, spent>>

\* --bless records the artifact as it is and the source as it is now.
Bless ==
    /\ tree.files[Source] # None
    /\ tree.blessed # [wasm |-> wasm, source |-> tree.files[Source]]
    /\ tree' = [tree EXCEPT !.blessed = [wasm |-> wasm, source |-> tree.files[Source]]]
    /\ op' = Moved(op)
    /\ UNCHANGED <<history, wasm, manifest, boxed, live, chk, verdict, spent>>
----------------------------------------------------------------------------
(* make_invariants.py: hash the files, dry-run the scans over the repo's    *)
(* own bytes, pin the binaries, then read HEAD and write.                   *)

UseTool(next) ==
    /\ op.tool = "none"
    /\ spent.tools < MaxTools
    /\ spent' = [spent EXCEPT !.tools = @ + 1]
    /\ op' = next

\* A broken walk or an underivable pin ends the run with nothing written.
GenHash ==
    /\ MapResolves
    /\ \A p \in Tracked(Mapped) : tree.files[p] # None
    /\ tree.files[PinSource] \in Pinned
    /\ \E s \in Tracked(Scripts) : tree.files[s] \in Pinned
    /\ UseTool([tool |-> "gen", pc |-> "hashed", moved |-> FALSE,
                files |-> [p \in Tracked(Mapped) |-> tree.files[p]],
                pinned |-> {s \in Tracked(Scripts) : tree.files[s] \in Pinned},
                prose |-> {}, mint |-> {}, blessed |-> None])
    /\ UNCHANGED <<repo, boxed, live, chk, verdict>>

\* A target the gate is red on over correct bytes is dropped from the scan.
AllTargets(targets, bad) == targets
CleanTargets(targets, bad) == {p \in targets : tree.files[p] \notin bad \cup {None}}

GenValidate ==
    /\ op.tool = "gen" /\ op.pc = "hashed"
    /\ \A p \in DOMAIN op.files : tree.files[p] # None
    /\ LET prose == CleanTargets(Prose \cap DOMAIN op.files, OtherNetwork) IN
       op' = IF prose = {} THEN Idle
             ELSE [op EXCEPT !.pc = "validated", !.prose = prose,
                             !.mint = CleanTargets(DOMAIN op.files, Foreign)]
    /\ UNCHANGED <<repo, boxed, live, chk, verdict, spent>>

\* copyfile raises on a file that vanished: nothing was validated, nothing is emitted.
GenFails ==
    /\ op.tool = "gen" /\ op.pc = "hashed"
    /\ \E p \in DOMAIN op.files : tree.files[p] = None
    /\ op' = Idle
    /\ UNCHANGED <<repo, boxed, live, chk, verdict, spent>>

StalePin == tree.blessed # None /\ tree.blessed.source # tree.files[Source]

GenPinBinary(allowStale) ==
    /\ op.tool = "gen" /\ op.pc = "validated"
    /\ op' = IF StalePin /\ ~allowStale THEN Idle
             ELSE [op EXCEPT !.pc = "pinned", !.blessed = tree.blessed]
    /\ UNCHANGED <<repo, boxed, live, chk, verdict, spent>>

\* HEAD and the dirty flag are read last, after every hash was taken.
GenWrite ==
    /\ op.tool = "gen" /\ op.pc = "pinned"
    /\ manifest' = [commit |-> HEAD, dirty |-> Dirty, files |-> op.files,
                    blessed |-> op.blessed, prose |-> op.prose, mint |-> op.mint,
                    pinned |-> op.pinned, moved |-> op.moved]
    /\ op' = Idle
    /\ UNCHANGED <<tree, history, wasm, boxed, live, chk, verdict, spent>>
----------------------------------------------------------------------------
(* sync_workspace.py --apply: refuse, plan, copy one file at a time, read   *)
(* the whole tree back, and only then write DEPLOYED_SHA.                   *)

ManifestRefused == manifest = None \/ manifest.commit # HEAD

SyncStart(allowDirty) ==
    /\ MapResolves
    /\ Dirty => allowDirty
    /\ ~ManifestRefused
    /\ UseTool([tool |-> "sync", pc |-> "plan", moved |-> FALSE, pairs |-> Tracked(Mapped),
                label |-> [commit |-> HEAD, dirty |-> Dirty], todo |-> {}])
    /\ UNCHANGED <<repo, boxed, live, chk, verdict>>

\* classify: a tracked file missing from the tree is skipped.  The map was resolved
\* at the start; a file it no longer matches is left on the box as it is.
Differing == {p \in op.pairs \cup Tracked(UnitFiles) : tree.files[p] \notin {None, box[p]}}
\* Only what each copy says of the file it wrote.
WrittenMatches == op.pc = "copy" \/ (Differing = {} /\ boxInv = manifest)
BoxMatches == Differing = {} /\ boxInv = manifest

SyncPlan ==
    /\ op.tool = "sync" /\ op.pc = "plan"
    /\ op' = IF BoxMatches /\ marker = op.label THEN Idle
             ELSE [op EXCEPT !.pc = "copy",
                             !.todo = Differing \cup
                                 (IF boxInv = manifest THEN {} ELSE {"manifest"})]
    /\ UNCHANGED <<repo, boxed, live, chk, verdict, spent>>

\* The manifest follows the mapped files and the units follow the manifest.
CopyNext(t) ==
    \/ t \in Mapped
    \/ t = "manifest" /\ op.todo \cap Mapped = {}
    \/ t \in UnitFiles /\ op.todo \subseteq UnitFiles

\* A check that reads the files while they are written sees neither the old nor the new.
Disturbed(c) == IF c.pc = "idle" THEN c ELSE [c EXCEPT !.calm = FALSE]

SyncCopy(t) ==
    /\ op.tool = "sync" /\ op.pc = "copy"
    /\ t \in op.todo /\ CopyNext(t)
    /\ op' = IF t # "manifest" /\ tree.files[t] = None THEN Idle
             ELSE [op EXCEPT !.todo = @ \ {t}]
    /\ box' = IF t = "manifest" \/ tree.files[t] = None THEN box
              ELSE [box EXCEPT ![t] = tree.files[t]]
    /\ boxInv' = IF t = "manifest" THEN manifest ELSE boxInv
    /\ chk' = Disturbed(chk)
    /\ UNCHANGED <<repo, boxWasm, marker, live, verdict, spent>>

SyncVerify ==
    /\ op.tool = "sync" /\ op.pc = "copy" /\ op.todo = {}
    /\ op' = IF BoxMatches THEN [op EXCEPT !.pc = "mark"] ELSE Idle
    /\ UNCHANGED <<repo, boxed, live, chk, verdict, spent>>

SyncMark ==
    /\ op.tool = "sync" /\ op.pc = "mark"
    /\ marker' = op.label
    /\ op' = Idle
    /\ chk' = Disturbed(chk)
    /\ UNCHANGED <<repo, box, boxWasm, boxInv, live, verdict, spent>>

\* The run ends between two copies, or between the last copy and the marker.
ToolDies ==
    /\ op.tool # "none"
    /\ op' = Idle
    /\ UNCHANGED <<repo, boxed, live, chk, verdict, spent>>
----------------------------------------------------------------------------
(* What changes on the box by itself or by hand.                            *)

Drifts ==
    /\ spent.drift < MaxDrift
    /\ spent' = [spent EXCEPT !.drift = @ + 1]

\* A file is edited or deleted in place, by hand or by the agent, perhaps after a
\* deploy has read it back.
FileDrifts(p, c) ==
    /\ box[p] # c
    /\ Drifts
    /\ box' = [box EXCEPT ![p] = c]
    /\ op' = IF op.tool = "sync" /\ op.pc = "mark" THEN Moved(op) ELSE op
    /\ chk' = Disturbed(chk)
    /\ UNCHANGED <<repo, boxWasm, boxInv, marker, live, verdict>>

\* A built binary is copied to the box; no tool of the repository does it.
PlaceBinary ==
    /\ boxWasm # wasm
    /\ boxWasm' = wasm
    /\ UNCHANGED <<repo, op, box, boxInv, marker, live, chk, verdict, spent>>

UnitState == {[active |-> "active", result |-> "success"],
              [active |-> "inactive", result |-> "success"],
              [active |-> "failed", result |-> "exit-code"],
              [active |-> "activating", result |-> "exit-code"]}   \* between two restarts

UnitChanges(u, s) ==
    /\ live.units[u] # s
    /\ Drifts
    /\ live' = [live EXCEPT !.units[u] = s]
    /\ UNCHANGED <<repo, op, boxed, chk, verdict>>

\* The drop-in that carries the start gate goes, the session bus goes, or the
\* agent remembers a retired mint; or what went comes back.
HostChanges(field) ==
    /\ Drifts
    /\ live' = [live EXCEPT ![field] = ~@]
    /\ UNCHANGED <<repo, op, boxed, chk, verdict>>
----------------------------------------------------------------------------
(* box_selfcheck.py, hourly.  One step per group of reads.                  *)

IsCommitSha(c) == c \in Nat \ {0}

\* DEPLOYED_SHA agrees by its first twelve characters: a "-dirty" suffix agrees too.
VintageUnflagged(inv, label) == IsCommitSha(inv.commit) /\ (label = None \/ label.commit = inv.commit)
VintageAgrees(inv, label) ==
    /\ IsCommitSha(inv.commit)
    /\ ~inv.dirty
    /\ label = None \/ label.commit = inv.commit

CheckLoad ==
    /\ chk.pc = "idle"
    /\ chk' = [pc |-> IF boxInv = None THEN "publish" ELSE "files",
               inv |-> boxInv, calm |-> TRUE,
               ok |-> boxInv # None /\ VintageAgrees(boxInv, marker)]
    /\ UNCHANGED <<repo, op, boxed, live, verdict, spent>>

Finds(pc, next, ok) ==
    /\ chk.pc = pc
    /\ chk' = [chk EXCEPT !.pc = next, !.ok = @ /\ ok]
    /\ UNCHANGED <<repo, op, boxed, live, verdict, spent>>

FilesMatch(inv) ==
    /\ DOMAIN inv.files # {}
    /\ \A p \in DOMAIN inv.files : box[p] = inv.files[p]
    /\ inv.blessed # None => boxWasm = inv.blessed.wasm

CheckManifest == Finds("files", "scans", FilesMatch(chk.inv))

\* Deployed files against an allowlist; agent memory against the retired mints.
NothingForeign(inv) ==
    /\ \A p \in inv.mint : box[p] \notin Foreign \cup {None}
    /\ ~live.remembersRetired
ProseIsRight(inv) == \A p \in inv.prose : box[p] \notin OtherNetwork \cup {None}
PinsPresent(inv)  == inv.pinned # {} /\ \A s \in inv.pinned : box[s] \in Pinned

CheckScans ==
    Finds("scans", "units",
          NothingForeign(chk.inv) /\ ProseIsRight(chk.inv) /\ PinsPresent(chk.inv))

\* A timer must be scheduled, a one-shot finished well, a daemon running or on its
\* way up, which is also what a daemon that keeps crashing looks like.
LastResult(u) == live.units[u].result = "success"
UnitVerdict(u) ==
    \/ live.units[u].active = "active"
    \/ u \notin Timers /\ live.units[u].active = "activating"
    \/ u \in Oneshots /\ live.units[u] = [active |-> "inactive", result |-> "success"]

\* Without the session bus no unit can be read, and nothing unread passes.
CheckUnits ==
    Finds("units", "publish",
          live.bus /\ live.guarded /\ \A u \in Units : UnitVerdict(u))

\* build_verdict reads the manifest and the label a second time.
Publish ==
    /\ chk.pc = "publish"
    /\ verdict' = [ok |-> chk.ok,
                   sha |-> IF boxInv # None /\ IsCommitSha(boxInv.commit) THEN boxInv.commit
                           ELSE IF marker = None THEN 0 ELSE marker.commit]
    /\ chk' = Asleep
    /\ UNCHANGED <<repo, op, boxed, live, spent>>

\* The verdict file cannot be written: the previous verdict stays published.
PublishFails ==
    /\ chk.pc = "publish"
    /\ Drifts
    /\ chk' = Asleep
    /\ UNCHANGED <<repo, op, boxed, live, verdict>>
----------------------------------------------------------------------------
Healthy(u) == [active |-> IF u \in Oneshots THEN "inactive" ELSE "active",
               result |-> "success"]

Normal == [units |-> [u \in Units |-> Healthy(u)], guarded |-> TRUE, bus |-> TRUE,
           remembersRetired |-> FALSE]

\* The manifest of the first commit, generated from a clean tree.
FirstManifest ==
    [commit |-> 1, dirty |-> FALSE, files |-> [p \in Mapped |-> tree.files[p]],
     blessed |-> None, prose |-> Prose, mint |-> Mapped, pinned |-> Scripts, moved |-> FALSE]

\* One commit, and a box nothing was deployed to or one that holds this commit.
DeployInit ==
    /\ tree \in {t \in [files : [Paths -> Contents], blessed : {None}] :
                    \A p \in Paths : t.files[p] = CHOOSE c \in Pinned \ (OtherNetwork \cup Foreign) : TRUE}
    /\ history = <<tree>>
    /\ wasm = tree.files[Source] /\ boxWasm = wasm
    /\ manifest = FirstManifest
    /\ \/ box = [p \in Mapped \cup UnitFiles |-> None] /\ boxInv = None /\ marker = None
       \/ /\ box = [p \in Mapped \cup UnitFiles |-> tree.files[p]]
          /\ boxInv = manifest /\ marker = [commit |-> 1, dirty |-> FALSE]
    /\ op = Idle /\ chk = Asleep
    /\ live = Normal
    /\ verdict = None
    /\ spent = [edits |-> 0, tools |-> 0, drift |-> 0]

RepoNext ==
    \/ \E p \in Paths, c \in Contents \cup {None} : Edit(p, c)
    \/ Commit \/ Build \/ Bless
ToolNext ==
    \/ GenHash \/ GenValidate \/ GenFails \/ GenWrite
    \/ \E flag \in BOOLEAN : GenPinBinary(flag) \/ SyncStart(flag)
    \/ SyncPlan \/ SyncVerify \/ SyncMark \/ ToolDies
    \/ \E t \in Mapped \cup UnitFiles \cup {"manifest"} : SyncCopy(t)
BoxNext ==
    \/ \E p \in Mapped \cup UnitFiles, c \in Contents \cup {None} : FileDrifts(p, c)
    \/ PlaceBinary
    \/ \E u \in Units, s \in UnitState : UnitChanges(u, s)
    \/ \E field \in {"guarded", "bus", "remembersRetired"} : HostChanges(field)
Selfcheck == CheckLoad \/ CheckManifest \/ CheckScans \/ CheckUnits \/ Publish

DeployNext == RepoNext \/ ToolNext \/ BoxNext \/ Selfcheck \/ PublishFails

\* The timer is persistent and the check has a deadline of its own.
DeployFairness == WF_vars(Selfcheck)
DeploySpec == DeployInit /\ [][DeployNext]_vars /\ DeployFairness
----------------------------------------------------------------------------
(* A green verdict, of a check during which no file of the box was written  *)
(* by a deploy or by hand, means the box holds every mapped file of the     *)
(* commit the verdict names, as it is there: through dirty trees, deploys   *)
(* that died half-way, earlier hand edits and manifests of other commits.   *)
(* (A mapped file the commit no longer has is on nobody's list and may      *)
(* still be on the box; and a tree that moves while the manifest is         *)
(* generated from it is excluded: HEAD is read after the hashes.)           *)
GreenMeansDeployed ==
    [][chk.pc = "publish" /\ verdict' # verdict /\ verdict'.ok /\ chk.calm /\ ~chk.inv.moved =>
          \A p \in Mapped : history[verdict'.sha].files[p] \in {None, box[p]}]_vars

(* When DEPLOYED_SHA is set to a commit, the box holds every mapped and unit *)
(* file of that commit and a manifest of it, whatever an earlier run that    *)
(* died, a hand on the box or a dirty tree left there.  (A tree that moves   *)
(* while it is copied, and a hand between the readback and the marker, are   *)
(* excluded: HEAD is read first and the marker is written last.)             *)
MarkerNamesTheBox ==
    [][marker' # marker /\ ~marker'.dirty /\ ~op.moved =>
          /\ boxInv # None /\ boxInv.commit = marker'.commit
          /\ \A p \in Mapped \cup UnitFiles :
                history[marker'.commit].files[p] \in {None, box[p]}]_vars

Correct ==
    /\ boxInv # None /\ ~boxInv.dirty /\ ~boxInv.moved /\ IsCommitSha(boxInv.commit)
    /\ \A p \in Mapped : history[boxInv.commit].files[p] \in {None, box[p]}
    /\ boxInv.blessed # None => boxWasm = boxInv.blessed.wasm
    /\ marker = None \/ marker.commit = boxInv.commit
    /\ live = Normal
(* A box that is and stays what the commit of its manifest says ends up     *)
(* green, whatever that commit holds: no manifest the generator emits pins  *)
(* the verdict to red.                                                      *)
CorrectBoxTurnsGreen == <>[]Correct => <>[](verdict # None /\ verdict.ok)

Wrong ==
    \/ boxInv = None \/ ~live.guarded \/ ~live.bus \/ live.remembersRetired
    \/ \E p \in DOMAIN boxInv.files : box[p] # boxInv.files[p]
    \/ \E u \in Timers : live.units[u].active # "active"
    \/ \E u \in Daemons : live.units[u].active \notin {"active", "activating"}
    \/ \E u \in Oneshots : live.units[u].active = "failed"
(* A box that drifts and is not repaired ends up red, whatever was          *)
(* published before.  (Not a daemon that crashes and is restarted for ever: *)
(* systemd calls it activating, and the check takes that for healthy.)      *)
DriftTurnsRed == <>[]Wrong => <>[](verdict # None => ~verdict.ok)
=============================================================================
