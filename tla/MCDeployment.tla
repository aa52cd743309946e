----------------------------- MODULE MCDeployment -----------------------------
(***************************************************************************)
(* Two entries of the map, of which one matches two files, a unit file and  *)
(* one plugin source; a timer, a one-shot and a daemon.  RepoStepsCommute   *)
(* keeps one order of steps that commute: the checkout moves only between   *)
(* checks, the host only before the units are read, the binary only before  *)
(* the files are, and the box and the check do not move between two steps   *)
(* of the generator, which never reads the box.  Hands on the box touch the *)
(* one file that every check reads, and the second file of its entry is     *)
(* only ever deleted from the tree: the rest is the same with less to check. *)
(***************************************************************************)
EXTENDS Deployment

CONSTANTS skill, sop, paylink, unit, source, good, wrong, timer, job, agent

MCEntries   == {{skill, sop}, {paylink}}
MCUnitFiles == {unit}
MCProse     == {skill}
MCScripts   == {paylink}
MCContents  == {good, wrong}
MCWrong     == {wrong}
MCNone      == {}
MCTimers    == {timer}
MCOneshots  == {job}
MCDaemons   == {agent}

\* Bound on the disturbances of one behaviour, whatever their kind.
MaxDisturbances == 3

RepoStepsCommute ==
    /\ chk.pc # "idle" => UNCHANGED repo /\ (op' # op => boxed' # boxed)
    /\ live' # live => chk.pc = "units"
    /\ boxWasm' # boxWasm => chk.pc = "files"
    /\ (chk.pc = "idle" /\ chk'.pc # "idle") \/ box' # box => op.tool # "gen"
    /\ tree'.files[sop] \in {None, tree.files[sop]}
    /\ spent'.drift # spent.drift => \A p \in DOMAIN box \ {skill} : box'[p] = box[p]
    /\ spent'.edits + spent'.tools + spent'.drift <= MaxDisturbances
=============================================================================
