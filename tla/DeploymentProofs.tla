--------------------------- MODULE DeploymentProofs ---------------------------
(***************************************************************************)
(* Theorems about Deployment, for any map, any tree and any number of      *)
(* commits, deploys and hand edits: what a green verdict says of the box,  *)
(* and what DEPLOYED_SHA does.                                             *)
(***************************************************************************)
EXTENDS Deployment, TLAPS

(***************************************************************************)
(* Shapes.  EXCEPT keeps a record's other fields only if they are known to *)
(* be there.                                                               *)
(***************************************************************************)
Held      == Contents \cup {None}
Blessings == {None} \cup [wasm : Held, source : Held]
Trees     == [files : [Paths -> Held], blessed : Blessings]
GenRuns   == [tool : {"gen"}, pc : {"hashed", "validated", "pinned"}, moved : BOOLEAN,
              files : UNION {[F -> Held] : F \in SUBSET Mapped}, pinned : SUBSET Scripts,
              prose : SUBSET Prose, mint : SUBSET Mapped, blessed : Blessings]
SyncRuns  == [tool : {"sync"}, pc : {"plan", "copy", "mark"}, moved : BOOLEAN,
              pairs : SUBSET Mapped,
              label : [commit : Nat, dirty : BOOLEAN],
              todo : SUBSET (Mapped \cup UnitFiles \cup {"manifest"})]

RepoShape ==
    /\ tree \in Trees
    /\ history \in Seq(Trees) /\ Len(history) > 0
    /\ wasm \in Held

ToolShape == op \in {Idle} \cup GenRuns \cup SyncRuns

Shape == RepoShape /\ ToolShape

LEMMA ShapeInit == DeployInit => Shape
<1> SUFFICES ASSUME DeployInit PROVE Shape
    OBVIOUS
<1>1. tree \in Trees
    BY DEF DeployInit, Trees, Held, Blessings
<1>2. history \in Seq(Trees) /\ Len(history) > 0
    BY <1>1 DEF DeployInit
<1>3. wasm \in Held
    BY <1>1 DEF DeployInit, Trees, Paths
<1>4. op = Idle
    BY DEF DeployInit
<1> QED
    BY <1>1, <1>2, <1>3, <1>4 DEF Shape, RepoShape, ToolShape

\* The checkout's own steps.
LEMMA RepoKeepsShape == RepoShape /\ RepoNext => RepoShape'
<1> SUFFICES ASSUME RepoShape, RepoNext PROVE RepoShape'
    OBVIOUS
<1>0. Source \in Paths
    BY DEF Paths
<1>1. ASSUME NEW p \in Paths, NEW c \in Contents \cup {None}, Edit(p, c) PROVE RepoShape'
    <2>1. tree' \in Trees
        BY <1>1 DEF Edit, RepoShape, Trees, Held
    <2> QED
        BY <1>1, <2>1 DEF Edit, RepoShape
<1>2. CASE Commit
    <2>1. history' \in Seq(Trees) /\ Len(history') = Len(history) + 1 /\ Len(history) \in Nat
        BY <1>2 DEF Commit, RepoShape
    <2> QED
        BY <1>2, <2>1 DEF Commit, RepoShape
<1>3. CASE Build
    BY <1>0, <1>3 DEF Build, RepoShape, Trees
<1>4. CASE Bless
    <2>1. [wasm |-> wasm, source |-> tree.files[Source]] \in Blessings
        BY <1>0 DEF RepoShape, Trees, Blessings
    <2>2. tree' \in Trees
        BY <1>4, <2>1 DEF Bless, RepoShape, Trees
    <2> QED
        BY <1>4, <2>2 DEF Bless, RepoShape
<1> QED
    BY <1>1, <1>2, <1>3, <1>4 DEF RepoNext

LEMMA MovedShape ==
    ASSUME ToolShape
    PROVE  /\ Moved(op) \in {Idle} \cup GenRuns \cup SyncRuns
           /\ Moved(op).tool = op.tool
           /\ op.tool # "none" => Moved(op).moved
           /\ op.tool = "none" => Moved(op) = op
<1>1. CASE op = Idle
    BY <1>1 DEF Moved, Idle
<1>2. CASE op \in GenRuns
    <2>1. op.tool = "gen"
        BY <1>2 DEF GenRuns
    <2>2. Moved(op) = [op EXCEPT !.moved = TRUE]
        BY <2>1 DEF Moved
    <2>3. [op EXCEPT !.moved = TRUE] \in GenRuns
        BY <1>2 DEF GenRuns
    <2>4. [op EXCEPT !.moved = TRUE].tool = "gen" /\ [op EXCEPT !.moved = TRUE].moved = TRUE
        BY <1>2 DEF GenRuns
    <2> QED
        BY <2>1, <2>2, <2>3, <2>4
<1>3. CASE op \in SyncRuns
    <2>1. op.tool = "sync"
        BY <1>3 DEF SyncRuns
    <2>2. Moved(op) = [op EXCEPT !.moved = TRUE]
        BY <2>1 DEF Moved
    <2>3. [op EXCEPT !.moved = TRUE] \in SyncRuns
        BY <1>3 DEF SyncRuns
    <2>4. [op EXCEPT !.moved = TRUE].tool = "sync" /\ [op EXCEPT !.moved = TRUE].moved = TRUE
        BY <1>3 DEF SyncRuns
    <2> QED
        BY <2>1, <2>2, <2>3, <2>4
<1> QED
    BY <1>1, <1>2, <1>3 DEF ToolShape

LEMMA RepoKeepsToolShape == Shape /\ RepoNext => ToolShape'
<1> SUFFICES ASSUME Shape, RepoNext PROVE ToolShape'
    OBVIOUS
<1>1. op' = Moved(op) \/ op' = op
    BY DEF RepoNext, Edit, Commit, Build, Bless
<1> QED
    BY <1>1, MovedShape DEF Shape, ToolShape

\* The generator's steps.
LEMMA GenKeepsShape ==
    ASSUME Shape,
           GenHash \/ GenValidate \/ GenFails \/ GenWrite \/ \E flag \in BOOLEAN : GenPinBinary(flag)
    PROVE  ToolShape' /\ UNCHANGED <<tree, history, wasm, boxed, live, chk, verdict>>
<1>1. CASE GenHash
    <2>0. Tracked(Mapped) \in SUBSET Mapped /\ Tracked(Scripts) \in SUBSET Scripts
        BY DEF Tracked
    <2>1. /\ [p \in Tracked(Mapped) |-> tree.files[p]] \in [Tracked(Mapped) -> Held]
          /\ {s \in Tracked(Scripts) : tree.files[s] \in Pinned} \in SUBSET Scripts
        BY <2>0 DEF Shape, RepoShape, Trees, Paths
    <2>2. [p \in Tracked(Mapped) |-> tree.files[p]] \in UNION {[F -> Held] : F \in SUBSET Mapped}
        BY <2>0, <2>1
    <2>3. op' = [tool |-> "gen", pc |-> "hashed", moved |-> FALSE,
                 files |-> [p \in Tracked(Mapped) |-> tree.files[p]],
                 pinned |-> {s \in Tracked(Scripts) : tree.files[s] \in Pinned},
                 prose |-> {}, mint |-> {}, blessed |-> None]
        BY <1>1 DEF GenHash, UseTool
    <2>4. op' \in GenRuns
        BY <2>1, <2>2, <2>3 DEF GenRuns, Blessings
    <2> QED
        BY <1>1, <2>4 DEF GenHash, repo, ToolShape
<1>2. CASE GenValidate
    <2>1. op \in GenRuns
        BY <1>2 DEF Shape, ToolShape, GenValidate, Idle, SyncRuns
    <2>0. DOMAIN op.files \in SUBSET Mapped
        BY <2>1 DEF GenRuns
    <2>2. /\ CleanTargets(Prose \cap DOMAIN op.files, OtherNetwork) \in SUBSET Prose
          /\ CleanTargets(DOMAIN op.files, Foreign) \in SUBSET Mapped
        BY <2>0 DEF CleanTargets
    <2>3. op' \in {Idle} \cup GenRuns
        BY <1>2, <2>1, <2>2 DEF GenValidate, GenRuns
    <2> QED
        BY <1>2, <2>3 DEF GenValidate, repo, ToolShape
<1>3. CASE GenFails
    BY <1>3 DEF GenFails, repo, ToolShape
<1>4. CASE GenWrite
    BY <1>4 DEF GenWrite, ToolShape
<1>5. ASSUME NEW flag \in BOOLEAN, GenPinBinary(flag)
      PROVE ToolShape' /\ UNCHANGED <<tree, history, wasm, boxed, live, chk, verdict>>
    <2>1. op \in GenRuns
        BY <1>5 DEF Shape, ToolShape, GenPinBinary, Idle, SyncRuns
    <2>2. tree.blessed \in Blessings
        BY DEF Shape, RepoShape, Trees
    <2>3. op' \in {Idle} \cup GenRuns
        BY <1>5, <2>1, <2>2 DEF GenPinBinary, GenRuns
    <2> QED
        BY <1>5, <2>3 DEF GenPinBinary, repo, ToolShape
<1> QED
    BY <1>1, <1>2, <1>3, <1>4, <1>5

\* The deployer's steps.
LEMMA SyncKeepsShape ==
    ASSUME Shape,
           \/ SyncPlan \/ SyncVerify \/ SyncMark \/ ToolDies
           \/ \E flag \in BOOLEAN : SyncStart(flag)
           \/ \E t \in Mapped \cup UnitFiles \cup {"manifest"} : SyncCopy(t)
    PROVE  ToolShape' /\ UNCHANGED repo
<1>1. ASSUME NEW flag \in BOOLEAN, SyncStart(flag) PROVE ToolShape' /\ UNCHANGED repo
    <2>1. [commit |-> HEAD, dirty |-> Dirty] \in [commit : Nat, dirty : BOOLEAN]
        BY DEF Shape, RepoShape, HEAD, Dirty
    <2>2. op' \in SyncRuns
        BY <1>1, <2>1 DEF SyncStart, UseTool, SyncRuns, Tracked
    <2> QED
        BY <1>1, <2>2 DEF SyncStart, ToolShape
<1>2. CASE SyncPlan
    <2>1. op \in SyncRuns
        BY <1>2 DEF Shape, ToolShape, SyncPlan, Idle, GenRuns
    <2>2. Differing \cup (IF boxInv = manifest THEN {} ELSE {"manifest"})
              \in SUBSET (Mapped \cup UnitFiles \cup {"manifest"})
        BY <2>1 DEF Differing, Tracked, SyncRuns
    <2>3. op' \in {Idle} \cup SyncRuns
        BY <1>2, <2>1, <2>2 DEF SyncPlan, SyncRuns
    <2> QED
        BY <1>2, <2>3 DEF SyncPlan, ToolShape
<1>3. ASSUME NEW t \in Mapped \cup UnitFiles \cup {"manifest"}, SyncCopy(t)
      PROVE  ToolShape' /\ UNCHANGED repo
    <2>1. op \in SyncRuns
        BY <1>3 DEF Shape, ToolShape, SyncCopy, Idle, GenRuns
    <2>2. op' \in {Idle} \cup SyncRuns
        BY <1>3, <2>1 DEF SyncCopy, SyncRuns
    <2> QED
        BY <1>3, <2>2 DEF SyncCopy, ToolShape
<1>4. CASE SyncVerify
    <2>1. op \in SyncRuns
        BY <1>4 DEF Shape, ToolShape, SyncVerify, Idle, GenRuns
    <2>2. op' \in {Idle} \cup SyncRuns
        BY <1>4, <2>1 DEF SyncVerify, SyncRuns
    <2> QED
        BY <1>4, <2>2 DEF SyncVerify, ToolShape
<1>5. CASE SyncMark
    BY <1>5 DEF SyncMark, ToolShape
<1>6. CASE ToolDies
    BY <1>6 DEF ToolDies, ToolShape
<1> QED
    BY <1>1, <1>2, <1>3, <1>4, <1>5, <1>6

\* Everything else leaves the checkout alone, and the tools but for one note.
BoxSide == BoxNext \/ Selfcheck \/ PublishFails

LEMMA BoxLeavesRepo ==
    BoxSide => /\ UNCHANGED repo
               /\ op' = op \/ (op.tool = "sync" /\ op.pc = "mark" /\ op' = Moved(op))
BY DEF BoxSide, BoxNext, Selfcheck, PublishFails, FileDrifts, PlaceBinary, UnitChanges, HostChanges,
       CheckLoad, CheckManifest, CheckScans, CheckUnits, Finds, Publish

LEMMA ShapeNext == Shape /\ [DeployNext]_vars => Shape'
<1> SUFFICES ASSUME Shape, [DeployNext]_vars PROVE Shape'
    OBVIOUS
<1>1. CASE RepoNext
    BY <1>1, RepoKeepsShape, RepoKeepsToolShape DEF Shape
<1>2. CASE ToolNext
    BY <1>2, GenKeepsShape, SyncKeepsShape DEF ToolNext, Shape, RepoShape, repo
<1>3. CASE BoxSide
    BY <1>3, BoxLeavesRepo, MovedShape DEF Shape, RepoShape, ToolShape, repo
<1>4. CASE UNCHANGED vars
    BY <1>4 DEF vars, Shape, RepoShape, ToolShape, repo
<1> QED
    BY <1>1, <1>2, <1>3, <1>4 DEF DeployNext, BoxSide

-----------------------------------------------------------------------------
(***************************************************************************)
(* The manifest.  It names the commit whose files it pins, unless the tree *)
(* was dirty or moved while it was generated.                              *)
(***************************************************************************)

\* The manifest lists every mapped file of the commit h holds at its number.
ManifestOf(m, h) ==
    m # None =>
        /\ m.commit \in 1..Len(h)
        /\ ~m.dirty /\ ~m.moved =>
              \A p \in Mapped : h[m.commit].files[p] # None =>
                  p \in DOMAIN m.files /\ m.files[p] = h[m.commit].files[p]

\* A generator nothing disturbed still holds the tree's files.
GenInv ==
    op.tool = "gen" /\ ~op.moved => op.files = [p \in Tracked(Mapped) |-> tree.files[p]]

ManifestInv == GenInv /\ ManifestOf(manifest, history) /\ ManifestOf(boxInv, history)

\* Commits are only added, so a manifest keeps being its commit's.
LEMMA HistoryGrows ==
    ASSUME Shape, [DeployNext]_vars
    PROVE  /\ Len(history) \in Nat /\ Len(history') \in Nat /\ Len(history) <= Len(history')
           /\ \A i \in 1..Len(history) : history'[i] = history[i]
<1>1. history \in Seq(Trees) /\ tree \in Trees
    BY DEF Shape, RepoShape
<1>2. history' = history \/ history' = Append(history, tree)
    <2>1. CASE RepoNext
        BY <2>1 DEF RepoNext, Edit, Commit, Build, Bless
    <2>2. CASE ToolNext
        BY <2>2, GenKeepsShape, SyncKeepsShape DEF ToolNext, repo
    <2>3. CASE BoxSide
        BY <2>3, BoxLeavesRepo DEF repo
    <2>4. CASE UNCHANGED vars
        BY <2>4 DEF vars, repo
    <2> QED
        BY <2>1, <2>2, <2>3, <2>4 DEF DeployNext, BoxSide
<1> QED
    BY <1>1, <1>2

LEMMA ManifestKept ==
    ASSUME Shape, [DeployNext]_vars, NEW m, ManifestOf(m, history)
    PROVE  ManifestOf(m, history')
BY HistoryGrows DEF ManifestOf

LEMMA GenNext ==
    ASSUME Shape, GenInv, [DeployNext]_vars
    PROVE  GenInv'
<1>1. CASE RepoNext
    <2>1. CASE op' = Moved(op)
        BY <2>1, MovedShape DEF Shape, GenInv
    <2>2. CASE op' = op /\ tree' = tree /\ history' = history
        BY <2>2 DEF GenInv, Tracked, HEAD
    <2> QED
        BY <1>1, <2>1, <2>2 DEF RepoNext, Edit, Commit, Build, Bless
<1>2. CASE GenHash
    <2>1. /\ op'.files = [p \in Tracked(Mapped) |-> tree.files[p]]
          /\ tree' = tree /\ history' = history
        BY <1>2 DEF GenHash, UseTool, repo
    <2> QED
        BY <2>1 DEF GenInv, Tracked, HEAD
<1>3. ASSUME \/ GenValidate \/ GenFails \/ GenWrite \/ SyncPlan \/ SyncVerify \/ SyncMark \/ ToolDies
             \/ \E flag \in BOOLEAN : GenPinBinary(flag) \/ SyncStart(flag)
             \/ \E t \in Mapped \cup UnitFiles \cup {"manifest"} : SyncCopy(t)
      PROVE GenInv'
    <2>1. tree' = tree /\ history' = history
        BY <1>3, GenKeepsShape, SyncKeepsShape DEF repo
    <2>2. op'.tool = "gen" => op.tool = "gen" /\ op'.files = op.files /\ op'.moved = op.moved
        <3>1. CASE op \in GenRuns
            <4>1. op.tool = "gen"
                BY <3>1 DEF GenRuns
            <4>2. CASE GenValidate
                BY <3>1, <4>2 DEF GenRuns, Idle, GenValidate
            <4>3. CASE \E flag \in BOOLEAN : GenPinBinary(flag)
                BY <3>1, <4>3 DEF GenRuns, Idle, GenPinBinary
            <4>4. CASE GenFails \/ GenWrite \/ ToolDies
                BY <4>4 DEF Idle, GenFails, GenWrite, ToolDies
            <4> QED
                BY <1>3, <4>1, <4>2, <4>3, <4>4 DEF SyncPlan, SyncVerify, SyncMark, SyncStart, SyncCopy, UseTool
        <3>2. CASE op \in SyncRuns
            <4>1. op.tool = "sync"
                BY <3>2 DEF SyncRuns
            <4>2. CASE SyncPlan
                BY <3>2, <4>2 DEF SyncRuns, Idle, SyncPlan
            <4>3. CASE SyncVerify
                BY <3>2, <4>3 DEF SyncRuns, Idle, SyncVerify
            <4>4. CASE \E t \in Mapped \cup UnitFiles \cup {"manifest"} : SyncCopy(t)
                BY <3>2, <4>4 DEF SyncRuns, Idle, SyncCopy
            <4>5. CASE SyncMark \/ ToolDies
                BY <4>5 DEF Idle, SyncMark, ToolDies
            <4> QED
                BY <1>3, <4>1, <4>2, <4>3, <4>4, <4>5 DEF GenValidate, GenFails, GenWrite, GenPinBinary,
                    SyncStart, UseTool
        <3>3. CASE op = Idle
            BY <1>3, <3>3 DEF Idle, GenValidate, GenFails, GenWrite, GenPinBinary, SyncPlan,
                SyncVerify, SyncMark, ToolDies, SyncStart, SyncCopy, UseTool
        <3> QED
            BY <3>1, <3>2, <3>3 DEF Shape, ToolShape
    <2> QED
        BY <2>1, <2>2 DEF GenInv, Tracked, HEAD
<1>4. CASE BoxSide
    BY <1>4, BoxLeavesRepo, MovedShape DEF Shape, GenInv, Tracked, HEAD, repo
<1>5. CASE UNCHANGED vars
    BY <1>5 DEF vars, repo, GenInv, Tracked, HEAD
<1> QED
    BY <1>1, <1>2, <1>3, <1>4, <1>5 DEF DeployNext, ToolNext, BoxSide

\* Only GenWrite writes a manifest, and only SyncCopy brings one to the box.
LEMMA ManifestWriters ==
    ASSUME Shape, [DeployNext]_vars
    PROVE  /\ manifest' = manifest \/ GenWrite
           /\ boxInv' = boxInv \/ boxInv' = manifest
<1>1. CASE RepoNext
    BY <1>1 DEF RepoNext, Edit, Commit, Build, Bless, boxed
<1>2. CASE GenWrite
    BY <1>2 DEF GenWrite, boxed
<1>3. CASE \/ GenHash \/ GenValidate \/ GenFails \/ SyncPlan \/ SyncVerify \/ SyncMark \/ ToolDies
           \/ \E flag \in BOOLEAN : GenPinBinary(flag) \/ SyncStart(flag)
    BY <1>3 DEF GenHash, GenValidate, GenFails, GenPinBinary, SyncPlan, SyncVerify, SyncMark, ToolDies,
        SyncStart, repo, boxed
<1>4. CASE \E t \in Mapped \cup UnitFiles \cup {"manifest"} : SyncCopy(t)
    BY <1>4 DEF SyncCopy, repo
<1>5. CASE BoxSide
    BY <1>5 DEF BoxSide, BoxNext, Selfcheck, PublishFails, FileDrifts, PlaceBinary, UnitChanges, HostChanges,
       CheckLoad, CheckManifest, CheckScans, CheckUnits, Finds, Publish, repo, boxed
<1>6. CASE UNCHANGED vars
    BY <1>6 DEF vars, repo, boxed
<1> QED
    BY <1>1, <1>2, <1>3, <1>4, <1>5, <1>6 DEF DeployNext, ToolNext, BoxSide

LEMMA WrittenManifest ==
    ASSUME Shape, GenInv, GenWrite
    PROVE  ManifestOf(manifest', history')
<1>1. op.tool = "gen" /\ history' = history
    BY DEF GenWrite
<1>2. /\ manifest'.commit = HEAD /\ manifest'.files = op.files
      /\ (~manifest'.dirty => tree = history[HEAD])
      /\ (~manifest'.moved => ~op.moved)
    BY DEF GenWrite, Dirty
<1>3. HEAD \in 1..Len(history)
    BY DEF Shape, RepoShape, HEAD
<1>4. ASSUME ~manifest'.dirty, ~manifest'.moved,
             NEW p \in Mapped, history[HEAD].files[p] # None
      PROVE  p \in DOMAIN op.files /\ op.files[p] = history[HEAD].files[p]
    BY <1>1, <1>2, <1>4 DEF GenInv, Tracked
<1> QED
    BY <1>1, <1>2, <1>3, <1>4 DEF ManifestOf

LEMMA ManifestNext ==
    ASSUME Shape, ManifestInv, [DeployNext]_vars
    PROVE  ManifestInv'
<1>1. GenInv'
    BY GenNext DEF ManifestInv
<1>2. ManifestOf(manifest, history') /\ ManifestOf(boxInv, history')
    BY ManifestKept DEF ManifestInv
<1>3. ManifestOf(manifest', history')
    BY <1>2, ManifestWriters, WrittenManifest DEF ManifestInv
<1>4. ManifestOf(boxInv', history')
    BY <1>2, ManifestWriters
<1> QED
    BY <1>1, <1>3, <1>4 DEF ManifestInv

LEMMA ManifestInit == DeployInit => ManifestInv
<1> SUFFICES ASSUME DeployInit PROVE ManifestInv
    OBVIOUS
<1>1. history = <<tree>> /\ manifest = FirstManifest /\ boxInv \in {None, manifest} /\ op = Idle
    BY DEF DeployInit
<1>2. ManifestOf(FirstManifest, history)
    BY <1>1 DEF FirstManifest, ManifestOf
<1>3. ManifestOf(None, history)
    BY DEF ManifestOf
<1> QED
    BY <1>1, <1>2, <1>3 DEF ManifestInv, GenInv, Idle

-----------------------------------------------------------------------------
(***************************************************************************)
(* The verdict.  A check nothing disturbed has compared the box, as it     *)
(* still is, with the manifest the box still holds.                        *)
(***************************************************************************)
ChkInv ==
    chk.pc # "idle" =>
        /\ DOMAIN chk = {"pc", "inv", "calm", "ok"}
        /\ ManifestOf(chk.inv, history)
        /\ chk.calm /\ chk.ok =>
            /\ chk.inv = boxInv /\ boxInv # None /\ ~chk.inv.dirty
            /\ chk.pc # "files" => \A p \in DOMAIN chk.inv.files : box[p] = chk.inv.files[p]

\* Whoever writes the box disturbs the check.
LEMMA WritersDisturb ==
    ASSUME Shape, RepoNext \/ ToolNext \/ (\E p \in Mapped \cup UnitFiles, c \in Held : FileDrifts(p, c))
    PROVE  \/ UNCHANGED <<box, boxInv, chk>>
           \/ chk' = Disturbed(chk)
<1>1. CASE RepoNext
    BY <1>1 DEF RepoNext, Edit, Commit, Build, Bless, boxed
<1>2. CASE \/ GenHash \/ GenValidate \/ GenFails \/ GenWrite \/ SyncPlan \/ SyncVerify \/ ToolDies
           \/ \E flag \in BOOLEAN : GenPinBinary(flag) \/ SyncStart(flag)
    BY <1>2 DEF GenHash, GenValidate, GenFails, GenWrite, GenPinBinary, SyncPlan, SyncVerify, ToolDies,
        SyncStart, boxed
<1>3. CASE SyncMark \/ \E t \in Mapped \cup UnitFiles \cup {"manifest"} : SyncCopy(t)
    BY <1>3 DEF SyncMark, SyncCopy
<1>4. CASE \E p \in Mapped \cup UnitFiles, c \in Held : FileDrifts(p, c)
    BY <1>4 DEF FileDrifts
<1> QED
    BY <1>1, <1>2, <1>3, <1>4 DEF ToolNext

LEMMA ChkNext ==
    ASSUME Shape, ManifestInv, ChkInv, [DeployNext]_vars
    PROVE  ChkInv'
<1>0. ManifestOf(boxInv, history') /\ (chk.pc # "idle" => ManifestOf(chk.inv, history'))
    BY ManifestKept DEF ManifestInv, ChkInv
<1>1. CASE UNCHANGED <<box, boxInv, chk>>
    BY <1>0, <1>1 DEF ChkInv
<1>2. CASE chk' = Disturbed(chk)
    <2>1. CASE chk.pc = "idle"
        BY <1>2, <2>1 DEF Disturbed, ChkInv
    <2>2. CASE chk.pc # "idle"
        <3>1. chk' = [chk EXCEPT !.calm = FALSE] /\ DOMAIN chk = {"pc", "inv", "calm", "ok"}
            BY <1>2, <2>2 DEF Disturbed, ChkInv
        <3>2. /\ DOMAIN chk' = DOMAIN chk
              /\ chk'.inv = chk.inv /\ chk'.calm = FALSE
            BY <3>1
        <3> QED
            BY <1>0, <2>2, <3>1, <3>2 DEF ChkInv
    <2> QED
        BY <2>1, <2>2
<1>3. CASE CheckLoad
    <2>1. /\ DOMAIN chk' = {"pc", "inv", "calm", "ok"} /\ chk'.inv = boxInv
          /\ UNCHANGED <<box, boxInv>>
        BY <1>3 DEF CheckLoad, boxed
    <2>2. chk'.ok => boxInv # None /\ ~boxInv.dirty
        BY <1>3 DEF CheckLoad, VintageAgrees
    <2>3. boxInv # None => chk'.pc = "files"
        BY <1>3 DEF CheckLoad
    <2> QED
        BY <1>0, <2>1, <2>2, <2>3 DEF ChkInv
<1>4. ASSUME NEW pc, NEW next, NEW ok, Finds(pc, next, ok), pc # "idle", next # "files",
             pc = "files" => (ok <=> FilesMatch(chk.inv))
      PROVE  ChkInv'
    <2>1. /\ chk.pc = pc /\ chk.pc # "idle" /\ chk' = [chk EXCEPT !.pc = next, !.ok = @ /\ ok]
          /\ UNCHANGED <<box, boxInv>>
        BY <1>4 DEF Finds, boxed
    <2>2. DOMAIN chk = {"pc", "inv", "calm", "ok"}
        BY <2>1 DEF ChkInv
    <2>3. /\ DOMAIN chk' = DOMAIN chk /\ chk'.inv = chk.inv /\ chk'.calm = chk.calm
          /\ chk'.pc = next /\ chk'.ok = (chk.ok /\ ok)
        BY <2>1, <2>2
    <2>4. ASSUME chk'.calm /\ chk'.ok
          PROVE  /\ chk.inv = boxInv /\ boxInv # None /\ ~chk.inv.dirty
                 /\ \A p \in DOMAIN chk.inv.files : box[p] = chk.inv.files[p]
        <3>1. chk.calm /\ chk.ok /\ ok
            BY <2>3, <2>4
        <3>2. chk.inv = boxInv /\ boxInv # None /\ ~chk.inv.dirty
            BY <2>1, <3>1 DEF ChkInv
        <3>3. CASE pc = "files"
            BY <1>4, <3>1, <3>2, <3>3 DEF FilesMatch
        <3>4. CASE pc # "files"
            BY <2>1, <3>1, <3>2, <3>4 DEF ChkInv
        <3> QED
            BY <3>2, <3>3, <3>4
    <2> QED
        BY <1>0, <2>1, <2>2, <2>3, <2>4 DEF ChkInv
<1>5. CASE CheckManifest
    BY <1>4, <1>5 DEF CheckManifest
<1>6. CASE CheckScans
    BY <1>4, <1>6 DEF CheckScans
<1>7. CASE CheckUnits
    BY <1>4, <1>7 DEF CheckUnits
<1>8. CASE Publish \/ PublishFails
    <2>1. chk'.pc = "idle"
        BY <1>8 DEF Publish, PublishFails, Asleep
    <2> QED
        BY <2>1 DEF ChkInv
<1>9. CASE BoxNext
    <2>1. CASE \E p \in Mapped \cup UnitFiles, c \in Held : FileDrifts(p, c)
        BY <1>1, <1>2, <2>1, WritersDisturb
    <2>2. CASE PlaceBinary \/ (\E u \in Units, s \in UnitState : UnitChanges(u, s))
                 \/ (\E field \in {"guarded", "bus", "remembersRetired"} : HostChanges(field))
        BY <1>1, <2>2 DEF PlaceBinary, UnitChanges, HostChanges, boxed
    <2> QED
        BY <1>9, <2>1, <2>2 DEF BoxNext, Held
<1>10. CASE RepoNext \/ ToolNext
    BY <1>1, <1>2, <1>10, WritersDisturb
<1>11. CASE UNCHANGED vars
    BY <1>1, <1>11 DEF vars, boxed
<1> QED
    BY <1>3, <1>5, <1>6, <1>7, <1>8, <1>9, <1>10, <1>11 DEF DeployNext, Selfcheck

LEMMA ChkInit == DeployInit => ChkInv
BY DEF DeployInit, ChkInv, Asleep

\* A green verdict of a check during which no file of the box was written is of a
\* box that holds every mapped file of the commit the verdict names.
THEOREM GreenBoxIsTheCommit == DeploySpec => GreenMeansDeployed
<1> DEFINE Inv == Shape /\ ManifestInv /\ ChkInv
<1>1. DeployInit => Inv
    BY ShapeInit, ManifestInit, ChkInit
<1>2. Inv /\ [DeployNext]_vars => Inv'
    BY ShapeNext, ManifestNext, ChkNext
<1>3. ASSUME Inv, [DeployNext]_vars, chk.pc = "publish", verdict' # verdict, verdict'.ok,
             chk.calm, ~chk.inv.moved
      PROVE  \A p \in Mapped : history[verdict'.sha].files[p] \in {None, box[p]}
    <2>1. Publish
        <3>1. ~RepoNext
            BY <1>3 DEF RepoNext, Edit, Commit, Build, Bless
        <3>2. ~ToolNext
            BY <1>3, GenKeepsShape DEF ToolNext, SyncStart, SyncPlan, SyncCopy, SyncVerify, SyncMark, ToolDies
        <3>3. ~BoxNext
            BY <1>3 DEF BoxNext, FileDrifts, PlaceBinary, UnitChanges, HostChanges
        <3>4. ~(CheckLoad \/ CheckManifest \/ CheckScans \/ CheckUnits \/ PublishFails)
            BY <1>3 DEF CheckLoad, CheckManifest, CheckScans, CheckUnits, Finds, PublishFails
        <3>5. ~UNCHANGED vars
            BY <1>3 DEF vars
        <3> QED
            BY <1>3, <3>1, <3>2, <3>3, <3>4, <3>5 DEF DeployNext, Selfcheck
    <2>2. chk.ok
        BY <1>3, <2>1 DEF Publish
    <2>3. /\ chk.inv = boxInv /\ boxInv # None /\ ~chk.inv.dirty
          /\ \A p \in DOMAIN chk.inv.files : box[p] = chk.inv.files[p]
        BY <1>3, <2>2 DEF ChkInv
    <2>4. /\ boxInv.commit \in 1..Len(history)
          /\ \A p \in Mapped : history[boxInv.commit].files[p] # None =>
                p \in DOMAIN boxInv.files /\ boxInv.files[p] = history[boxInv.commit].files[p]
        BY <1>3, <2>3 DEF ManifestInv, ManifestOf
    <2>5. IsCommitSha(boxInv.commit)
        BY <1>3, <2>4 DEF IsCommitSha, Shape, RepoShape
    <2>6. verdict'.sha = boxInv.commit
        BY <2>1, <2>3, <2>5 DEF Publish
    <2> QED
        BY <2>3, <2>4, <2>6
<1>4. Inv /\ [DeployNext]_vars =>
        [chk.pc = "publish" /\ verdict' # verdict /\ verdict'.ok /\ chk.calm /\ ~chk.inv.moved =>
            \A p \in Mapped : history[verdict'.sha].files[p] \in {None, box[p]}]_vars
    BY <1>3
<1> QED
    BY <1>1, <1>2, <1>4, PTL DEF DeploySpec, GreenMeansDeployed

-----------------------------------------------------------------------------
(***************************************************************************)
(* The marker.  A deploy from a clean tree that did not move holds the     *)
(* commit it will name, and once read back the box holds it too.           *)
(***************************************************************************)
SyncInv ==
    op.tool = "sync" /\ ~op.moved /\ ~op.label.dirty =>
        /\ op.label.commit = HEAD /\ tree = history[HEAD] /\ op.pairs = Tracked(Mapped)
        /\ manifest # None /\ manifest.commit = HEAD
        /\ op.pc = "mark" => /\ boxInv = manifest
                             /\ \A p \in Mapped \cup UnitFiles : tree.files[p] \in {None, box[p]}

\* What the run holds, whatever became of its record's step and list.
LEMMA SyncKept ==
    ASSUME SyncInv, UNCHANGED repo, op.tool = "sync",
           op'.moved = op.moved, op'.label = op.label, op'.pairs = op.pairs, op'.pc # "mark"
    PROVE  SyncInv'
BY DEF SyncInv, repo, HEAD, Tracked

LEMMA SyncStarted ==
    ASSUME Shape, NEW flag \in BOOLEAN, SyncStart(flag)
    PROVE  SyncInv'
<1>1. /\ op' = [tool |-> "sync", pc |-> "plan", moved |-> FALSE, pairs |-> Tracked(Mapped),
                label |-> [commit |-> HEAD, dirty |-> Dirty], todo |-> {}]
      /\ manifest # None /\ manifest.commit = HEAD /\ UNCHANGED repo
    BY DEF SyncStart, UseTool, ManifestRefused
<1>2. op'.pc # "mark" /\ op'.pairs = Tracked(Mapped)
    BY <1>1
<1>3. op'.label.commit = HEAD /\ (~op'.label.dirty => tree = history[HEAD])
    BY <1>1 DEF Dirty
<1> QED
    BY <1>1, <1>2, <1>3 DEF SyncInv, repo, HEAD, Tracked

LEMMA SyncCopied ==
    ASSUME Shape, SyncInv,
           SyncPlan \/ \E t \in Mapped \cup UnitFiles \cup {"manifest"} : SyncCopy(t)
    PROVE  SyncInv'
<1>1. UNCHANGED repo /\ op.tool = "sync" /\ op.pc \in {"plan", "copy"} /\ op \in SyncRuns
    BY SyncKeepsShape DEF SyncPlan, SyncCopy, Shape, ToolShape, Idle, GenRuns
<1>2. CASE op' = Idle
    BY <1>2 DEF SyncInv, Idle
<1>3. CASE SyncPlan /\ op' # Idle
    <2>1. PICK todo : op' = [op EXCEPT !.pc = "copy", !.todo = todo]
        BY <1>3 DEF SyncPlan
    <2>2. op'.moved = op.moved /\ op'.label = op.label /\ op'.pairs = op.pairs /\ op'.pc # "mark"
        BY <1>1, <2>1 DEF SyncRuns
    <2> QED
        BY <1>1, <2>2, SyncKept
<1>4. CASE (\E t \in Mapped \cup UnitFiles \cup {"manifest"} : SyncCopy(t)) /\ op' # Idle
    <2>1. PICK t \in Mapped \cup UnitFiles \cup {"manifest"} : SyncCopy(t)
        BY <1>4
    <2>2. op' = [op EXCEPT !.todo = @ \ {t}] /\ op.pc = "copy"
        BY <1>4, <2>1 DEF SyncCopy
    <2>3. op'.moved = op.moved /\ op'.label = op.label /\ op'.pairs = op.pairs /\ op'.pc # "mark"
        BY <1>1, <2>2 DEF SyncRuns
    <2> QED
        BY <1>1, <2>3, SyncKept
<1> QED
    BY <1>2, <1>3, <1>4

LEMMA SyncVerified ==
    ASSUME Shape, SyncInv, SyncVerify
    PROVE  SyncInv'
<1>1. /\ UNCHANGED <<tree, history, wasm, manifest, box, boxInv>> /\ op.tool = "sync" /\ op \in SyncRuns
      /\ op' = Idle \/ (BoxMatches /\ op' = [op EXCEPT !.pc = "mark"])
    BY DEF SyncVerify, repo, boxed, Shape, ToolShape, Idle, GenRuns
<1>2. CASE op' = Idle
    BY <1>2 DEF SyncInv, Idle
<1>3. CASE BoxMatches /\ op' = [op EXCEPT !.pc = "mark"]
    <2>1. op'.moved = op.moved /\ op'.label = op.label /\ op'.pairs = op.pairs
        BY <1>1, <1>3 DEF SyncRuns
    <2>2. boxInv = manifest
        BY <1>3 DEF BoxMatches
    <2>3. ASSUME ~op.moved, ~op.label.dirty, NEW p \in Mapped \cup UnitFiles
          PROVE  tree.files[p] \in {None, box[p]}
        <3>1. tree = history[HEAD] /\ op.pairs = Tracked(Mapped)
            BY <1>1, <2>3 DEF SyncInv
        <3>2. CASE tree.files[p] = None
            BY <3>2
        <3>3. CASE tree.files[p] # None
            <4>1. p \in op.pairs \cup Tracked(UnitFiles)
                BY <3>1, <3>3 DEF Tracked
            <4> QED
                BY <1>3, <4>1 DEF BoxMatches, Differing
        <3> QED
            BY <3>2, <3>3
    <2> QED
        BY <1>1, <2>1, <2>2, <2>3 DEF SyncInv, HEAD, Tracked
<1> QED
    BY <1>1, <1>2, <1>3

LEMMA SyncNext ==
    ASSUME Shape, SyncInv, [DeployNext]_vars
    PROVE  SyncInv'
<1>1. CASE op'.tool # "sync"
    BY <1>1 DEF SyncInv
<1>2. CASE RepoNext
    <2>1. CASE op' = Moved(op)
        BY <2>1, MovedShape DEF Shape, SyncInv
    <2>2. CASE Build
        BY <2>2 DEF Build, boxed, SyncInv, HEAD, Tracked
    <2> QED
        BY <1>2, <2>1, <2>2 DEF RepoNext, Edit, Commit, Bless
<1>3. CASE \/ GenHash \/ GenValidate \/ GenFails \/ GenWrite \/ SyncMark \/ ToolDies
           \/ \E flag \in BOOLEAN : GenPinBinary(flag)
    <2>1. CASE GenHash \/ GenFails \/ GenWrite \/ SyncMark \/ ToolDies
        BY <1>1, <2>1 DEF GenHash, GenFails, GenWrite, SyncMark, ToolDies, UseTool, Idle
    <2>2. CASE GenValidate \/ \E flag \in BOOLEAN : GenPinBinary(flag)
        <3>1. op \in GenRuns
            BY <2>2 DEF Shape, ToolShape, GenValidate, GenPinBinary, Idle, SyncRuns
        <3>2. \/ op' = Idle
              \/ \E a, b : op' = [op EXCEPT !.pc = "validated", !.prose = a, !.mint = b]
              \/ \E a : op' = [op EXCEPT !.pc = "pinned", !.blessed = a]
            BY <2>2 DEF GenValidate, GenPinBinary
        <3>3. op'.tool # "sync"
            <4>1. op.tool = "gen"
                BY <3>1 DEF GenRuns
            <4>2. ASSUME NEW a, NEW b PROVE [op EXCEPT !.pc = "validated", !.prose = a, !.mint = b].tool = op.tool
                BY <3>1 DEF GenRuns
            <4>3. ASSUME NEW a PROVE [op EXCEPT !.pc = "pinned", !.blessed = a].tool = op.tool
                BY <3>1 DEF GenRuns
            <4>4. CASE op' = Idle
                BY <4>4 DEF Idle
            <4>5. CASE \E a, b : op' = [op EXCEPT !.pc = "validated", !.prose = a, !.mint = b]
                <5>1. PICK a, b : op' = [op EXCEPT !.pc = "validated", !.prose = a, !.mint = b]
                    BY <4>5
                <5>2. op'.tool = op.tool
                    BY <4>2, <5>1
                <5> QED
                    BY <4>1, <5>2
            <4>6. CASE \E a : op' = [op EXCEPT !.pc = "pinned", !.blessed = a]
                <5>1. PICK a : op' = [op EXCEPT !.pc = "pinned", !.blessed = a]
                    BY <4>6
                <5>2. op'.tool = op.tool
                    BY <4>3, <5>1
                <5> QED
                    BY <4>1, <5>2
            <4> QED
                BY <3>2, <4>4, <4>5, <4>6
        <3> QED
            BY <1>1, <3>3
    <2> QED
        BY <1>3, <2>1, <2>2
<1>4. CASE \E flag \in BOOLEAN : SyncStart(flag)
    BY <1>4, SyncStarted
<1>5. CASE SyncPlan \/ \E t \in Mapped \cup UnitFiles \cup {"manifest"} : SyncCopy(t)
    BY <1>5, SyncCopied
<1>6. CASE SyncVerify
    BY <1>6, SyncVerified
<1>7. CASE \E p \in Mapped \cup UnitFiles, c \in Held : FileDrifts(p, c)
    <2>1. UNCHANGED <<repo, boxInv>>
        BY <1>7 DEF FileDrifts
    <2>2. CASE op' = Moved(op)
        BY <2>2, MovedShape DEF Shape, SyncInv
    <2>3. CASE op' = op /\ ~(op.tool = "sync" /\ op.pc = "mark")
        BY <2>1, <2>3 DEF SyncInv, repo, HEAD, Tracked
    <2> QED
        BY <1>7, <2>2, <2>3 DEF FileDrifts
<1>8. CASE \/ PlaceBinary \/ (\E u \in Units, s \in UnitState : UnitChanges(u, s))
           \/ (\E field \in {"guarded", "bus", "remembersRetired"} : HostChanges(field))
           \/ Selfcheck \/ PublishFails
    <2>1. UNCHANGED <<repo, op, box, boxInv>>
        BY <1>8 DEF PlaceBinary, UnitChanges, HostChanges, Selfcheck, CheckLoad, CheckManifest, CheckScans,
            CheckUnits, Finds, Publish, PublishFails, boxed
    <2> QED
        BY <2>1 DEF SyncInv, repo, HEAD, Tracked
<1>9. CASE UNCHANGED vars
    BY <1>9 DEF vars, repo, boxed, SyncInv, HEAD, Tracked
<1> QED
    BY <1>2, <1>3, <1>4, <1>5, <1>6, <1>7, <1>8, <1>9 DEF DeployNext, ToolNext, BoxNext, Held

LEMMA SyncInit == DeployInit => SyncInv
BY DEF DeployInit, SyncInv, Idle

\* When DEPLOYED_SHA is set to a commit the box holds that commit, through runs that
\* died half-way, dirty trees and hands on the box before the readback.
THEOREM DeployedShaNamesTheBox == DeploySpec => MarkerNamesTheBox
<1> DEFINE Inv == Shape /\ SyncInv
<1>1. DeployInit => Inv
    BY ShapeInit, SyncInit
<1>2. Inv /\ [DeployNext]_vars => Inv'
    BY ShapeNext, SyncNext
<1>3. ASSUME Inv, [DeployNext]_vars, marker' # marker, ~marker'.dirty, ~op.moved
      PROVE  /\ boxInv # None /\ boxInv.commit = marker'.commit
             /\ \A p \in Mapped \cup UnitFiles :
                   history[marker'.commit].files[p] \in {None, box[p]}
    <2>1. SyncMark
        <3>1. ~RepoNext
            BY <1>3 DEF RepoNext, Edit, Commit, Build, Bless, boxed
        <3>2. ~BoxSide
            BY <1>3 DEF BoxSide, BoxNext, Selfcheck, PublishFails, FileDrifts, PlaceBinary, UnitChanges,
                HostChanges, CheckLoad, CheckManifest, CheckScans, CheckUnits, Finds, Publish, boxed
        <3>3. ToolNext => SyncMark
            BY <1>3, GenKeepsShape DEF ToolNext, boxed, SyncStart, SyncPlan, SyncCopy, SyncVerify, ToolDies
        <3>4. ~UNCHANGED vars
            BY <1>3 DEF vars, boxed
        <3> QED
            BY <1>3, <3>1, <3>2, <3>3, <3>4 DEF DeployNext, BoxSide
    <2>2. op.tool = "sync" /\ op.pc = "mark" /\ marker' = op.label
        BY <2>1 DEF SyncMark
    <2> QED
        BY <1>3, <2>2 DEF SyncInv
<1>4. Inv /\ [DeployNext]_vars =>
        [marker' # marker /\ ~marker'.dirty /\ ~op.moved =>
            /\ boxInv # None /\ boxInv.commit = marker'.commit
            /\ \A p \in Mapped \cup UnitFiles :
                  history[marker'.commit].files[p] \in {None, box[p]}]_vars
    BY <1>3
<1> QED
    BY <1>1, <1>2, <1>4, PTL DEF DeploySpec, MarkerNamesTheBox

=============================================================================
