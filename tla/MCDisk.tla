------------------------------- MODULE MCDisk -------------------------------
(* Calls that leave a record of their work on disk, one job to a           *)
(* directory, and the t-SNE layouts, some of which do: "calls" names the   *)
(* job, and the state of the others, which share nothing with it, rests at *)
(* its first value.                                                        *)
EXTENDS MCGraphSort, MCLayoutSnapshots, MCStreamedPca, MCTsneLayout

VARIABLE calls

diskVars == <<calls, vars, layoutVars, pcaVars, tsneVars>>

FirstUnless(name, jobs) == IF calls = name THEN jobs ELSE {CHOOSE j \in jobs : TRUE}

DiskInit ==
    /\ calls \in {"sort", "layout", "pca", "tsne"}
    /\ route \in FirstUnless("layout", Routes)
    /\ pcaJob \in FirstUnless("pca", PcaJobs)
    /\ tsne \in FirstUnless("tsne", TsneCalls)
    /\ Init /\ LayoutInit /\ PcaInit /\ TsneInit

OnlyIn(name) ==
    /\ calls = name /\ UNCHANGED calls
    /\ IF name = "sort" THEN TRUE ELSE UNCHANGED vars
    /\ IF name = "layout" THEN TRUE ELSE UNCHANGED layoutVars
    /\ IF name = "pca" THEN TRUE ELSE UNCHANGED pcaVars
    /\ IF name = "tsne" THEN TRUE ELSE UNCHANGED tsneVars

Sorts == OnlyIn("sort") /\ Next
LaysOut == OnlyIn("layout") /\ LayoutNext
FindsComponents == OnlyIn("pca") /\ PcaNext
MovesPoints == OnlyIn("tsne") /\ TsneNext

DiskNext == Sorts \/ LaysOut \/ FindsComponents \/ MovesPoints

(* A running call keeps running, and the caller keeps resuming it.         *)
DiskFairness ==
    /\ WF_vars(calls = "sort" /\ Step) /\ SF_vars(calls = "sort" /\ Start("resume"))
    /\ WF_layoutVars(calls = "layout" /\ LayoutStep)
    /\ SF_layoutVars(calls = "layout" /\ StartLayout("resume"))

DiskSpec == DiskInit /\ [][DiskNext]_diskVars /\ DiskFairness

(* A sort and an optimizer that have recorded work end with a result when  *)
(* their calls are repeated, except where an interruption hit one of the   *)
(* few steps that the code does not guard.                                 *)
RecordedCallsFinish == SortFinishes /\ RecordedWorkFinishes
=============================================================================
