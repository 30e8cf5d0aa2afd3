-------------------------- MODULE LayoutSnapshots ---------------------------
(***************************************************************************)
(* The full-graph layout optimizers with epoch snapshots:                  *)
(* R/massive_umap_optimizer.R, R/massive_tsne_optimizer.R and the native   *)
(* loops they call.  A call improves a layout epoch by epoch, reading the  *)
(* graph again in each.  Every SnapshotEvery epochs and at the last one it *)
(* writes the layout to a snapshot file of that epoch; a callback then records    *)
(* the snapshot in a sidecar and removes the snapshot before it.  The call *)
(* may be interrupted between any two file operations, by an R error, by   *)
(* the user or by a kill, all of which leave the same files; a later call  *)
(* with resume = TRUE starts from the recorded snapshot.                   *)
(*                                                                         *)
(* A route fixes the method, the storage and the backend of a job.         *)
(* Storage "memory" keeps the layout in memory (or on a device) and writes *)
(* the output at the end; "mmap" keeps it in the output's own .part file,  *)
(* updated in place and renamed at the end.  A tail is the ordered CPU pass  *)
(* with which the Metal backend ends and that no snapshot records.         *)
(*                                                                         *)
(* A layout is the history of what it was computed from: the version of    *)
(* the initialization, then the version of the graph each epoch read.  So  *)
(* a skipped or repeated epoch, or a mixture of inputs, shows.             *)
(***************************************************************************)
EXTENDS Naturals, Sequences

CONSTANTS NEpochs, SnapshotEvery,
          Routes,           \* the kinds of job: a method, a storage, a tail or not
          NoLayout,          \* an absent file, sidecar or value
          Short,            \* a file that is being written
          TornLayout,             \* a mapped layout in the middle of an epoch
          InputChanges,       \* bound: changes of the graph or initialization
          LayoutStops,         \* bound: interrupted calls
          StopAt            \* control points at which a call may be interrupted

ASSUME EpochAssumption == /\ NEpochs \in Nat \ {0} /\ SnapshotEvery \in Nat \ {0}
ASSUME RouteAssumption ==
    /\ Routes \subseteq [method : {"umap", "tsne"}, storage : {"memory", "mmap"},
                        tail : BOOLEAN]
    /\ \A r \in Routes : r.method = "tsne" => r.storage = "memory" /\ ~r.tail
ASSUME LayoutBounds == InputChanges \in Nat /\ LayoutStops \in Nat

InputVersions == 0..InputChanges
Epochs == 1..NEpochs
Layouts == UNION {[1..n -> InputVersions] : n \in 1..(NEpochs + 2)}
ASSUME ValueAssumption == /\ {NoLayout, Short, TornLayout} \cap Layouts = {}
                          /\ NoLayout # Short /\ NoLayout # TornLayout /\ Short # TornLayout
                          /\ NoLayout \notin InputVersions

Sidecars == [signature : InputVersions, epoch : Epochs, snapshot : Layouts]
LayoutModes == {"plain", "new", "resume"}
LayoutPoints == {"idle", "open", "load", "epoch", "snap", "snap_name", "commit",
           "prune", "tail", "name", "check", "clean", "retire"}

VARIABLES route,     \* the kind of job
          inputs,    \* version of the graph and the initialization
          layoutPart,      \* output.part: NoLayout, Short, TornLayout or a layout
          output,    \* the output file
          snaps,     \* the snapshot of each epoch
          snapParts, \* the epochs whose snapshot .part file exists
          epochSidecar,   \* output.checkpoint.rds
          result,    \* the layout the caller was given a result for
          stoppedAt,     \* the control points at which calls were interrupted
          layoutPc, layoutMode,
          watched,   \* plan$source_identity
          layout,    \* the layout being optimized
          epoch,     \* epochs done
          previous   \* epoch of the last recorded snapshot, 0 if none

files == <<layoutPart, output, snaps, snapParts, epochSidecar>>
layoutProcess == <<layoutPc, layoutMode, watched, layout, epoch, previous>>
layoutVars == <<route, inputs, files, result, stoppedAt, layoutProcess>>

Method == route.method
Storage == route.storage
HasTail == route.tail

(* The initialization, the epochs and the tail. *)
NRounds == NEpochs + 1 + (IF HasTail THEN 1 ELSE 0)

LayoutInit ==
    /\ route \in Routes
    /\ inputs = 0
    /\ layoutPart = NoLayout /\ output = NoLayout
    /\ snaps = [e \in Epochs |-> NoLayout] /\ snapParts = {}
    /\ epochSidecar = NoLayout /\ result = NoLayout /\ stoppedAt = <<>>
    /\ layoutPc = "idle" /\ layoutMode = "plain" /\ watched = NoLayout
    /\ layout = NoLayout /\ epoch = 0 /\ previous = 0

EndLayoutCall ==
    /\ layoutPc' = "idle" /\ layoutMode' = "plain" /\ watched' = NoLayout
    /\ layout' = NoLayout /\ epoch' = 0 /\ previous' = 0

Goto(p) == layoutPc' = p /\ UNCHANGED <<layoutMode, watched, layout, epoch, previous>>

(* What a mapped layout's file shows of a new layout; a resident one has   *)
(* no file until the end.                                                  *)
Mapped(new) == IF Storage = "mmap" THEN new ELSE layoutPart

-----------------------------------------------------------------------------
(* Starting: massive_*_optimize_plan and massive_*_checkpoint_prepare.     *)

(* Files named like a snapshot of this output, whole or partial. *)
Snapshots == {e \in Epochs : snaps[e] # NoLayout} \cup snapParts

(* The recorded snapshot is there unchanged, and it is the only one. *)
SnapshotRecorded ==
    /\ epochSidecar # NoLayout
    /\ snaps[epochSidecar.epoch] = epochSidecar.snapshot
    /\ Snapshots = {epochSidecar.epoch} /\ snapParts = {}

(* massive_*_checkpoint_load: it belongs to these inputs and controls. *)
Loadable == SnapshotRecorded /\ epochSidecar.signature = inputs

(* massive_float_output and its t-SNE counterpart. *)
OutputFree(m) ==
    /\ output = NoLayout
    /\ (m = "resume" /\ Storage = "mmap") <=> layoutPart # NoLayout

StartLayout(m) ==
    /\ layoutPc = "idle"
    /\ OutputFree(m)
    /\ IF m = "resume" THEN Loadable ELSE epochSidecar = NoLayout /\ Snapshots = {}
    /\ watched' = inputs
    /\ layoutMode' = m
    /\ epoch' = IF m = "resume" THEN epochSidecar.epoch ELSE 0
    /\ previous' = IF m = "resume" THEN epochSidecar.epoch ELSE 0
    /\ layoutPc' = IF Storage = "mmap" THEN "open" ELSE "load"
    /\ UNCHANGED <<route, inputs, files, result, stoppedAt, layout>>

(* MappedUmapLayout: a new .part file, or one of the right size that is    *)
(* emptied; any other stops the call.                                      *)
Open ==
    /\ layoutPc = "open"
    /\ IF layoutPart = Short THEN EndLayoutCall /\ UNCHANGED layoutPart
       ELSE layoutPart' = Short /\ Goto("load")
    /\ UNCHANGED <<route, inputs, output, snaps, snapParts, epochSidecar, result, stoppedAt>>

(* Mutated form: a resumed call starts from the initialization again. *)
StartedFromInit == <<inputs>>

(* The initialization, or the snapshot that takes its place on resume. *)
Started == IF layoutMode = "resume" THEN snaps[epoch] ELSE <<inputs>>

Load ==
    /\ layoutPc = "load"
    /\ layout' = Started
    /\ layoutPart' = Mapped(Started)
    /\ layoutPc' = "epoch"
    /\ UNCHANGED <<route, inputs, output, snaps, snapParts, epochSidecar, result, stoppedAt,
                   layoutMode, watched, epoch, previous>>

-----------------------------------------------------------------------------
(* The native loop.                                                        *)

MoreEpochs == epoch < NEpochs

SnapshotDue(e) == e % SnapshotEvery = 0 \/ e = NEpochs

RunEpoch ==
    /\ layoutPc = "epoch" /\ MoreEpochs
    /\ layout' = Append(layout, inputs)
    /\ layoutPart' = Mapped(layout')
    /\ epoch' = epoch + 1
    /\ layoutPc' = IF layoutMode # "plain" /\ SnapshotDue(epoch') THEN "snap" ELSE "epoch"
    /\ UNCHANGED <<route, inputs, output, snaps, snapParts, epochSidecar, result, stoppedAt,
                   layoutMode, watched, previous>>

(* Float32Sink: the snapshot is written under its partial name. *)
WriteSnapshot ==
    /\ layoutPc = "snap"
    /\ IF epoch \in Snapshots THEN EndLayoutCall /\ UNCHANGED snapParts
       ELSE snapParts' = snapParts \cup {epoch} /\ Goto("snap_name")
    /\ UNCHANGED <<route, inputs, layoutPart, output, snaps, epochSidecar, result, stoppedAt>>

NameSnapshot ==
    /\ layoutPc = "snap_name"
    /\ snaps' = [snaps EXCEPT ![epoch] = layout]
    /\ snapParts' = snapParts \ {epoch}
    /\ Goto("commit")
    /\ UNCHANGED <<route, inputs, layoutPart, output, epochSidecar, result, stoppedAt>>

SourceHolds == watched = inputs

(* massive_*_checkpoint_commit. *)
Commit ==
    /\ layoutPc = "commit"
    /\ IF SourceHolds
       THEN /\ epochSidecar' = [signature |-> watched, epoch |-> epoch,
                           snapshot |-> snaps[epoch]]
            /\ Goto("prune")
       ELSE EndLayoutCall /\ UNCHANGED epochSidecar
    /\ UNCHANGED <<route, inputs, layoutPart, output, snaps, snapParts, result, stoppedAt>>

(* Mutated form: the new snapshot is removed instead of the one before. *)
SupersededNew == {epoch}

Superseded == {previous}

PruneSnapshot ==
    /\ layoutPc = "prune"
    /\ snaps' = [e \in Epochs |-> IF e \in Superseded THEN NoLayout ELSE snaps[e]]
    /\ previous' = epoch
    /\ layoutPc' = "epoch"
    /\ UNCHANGED <<route, inputs, layoutPart, output, snapParts, epochSidecar, result, stoppedAt,
                   layoutMode, watched, layout, epoch>>

(* The ordered CPU tail of the Metal backend. *)
RunTail ==
    /\ layoutPc = "epoch" /\ ~MoreEpochs
    /\ HasTail
    /\ layout' = Append(layout, inputs)
    /\ layoutPart' = Mapped(layout')
    /\ layoutPc' = "tail"
    /\ UNCHANGED <<route, inputs, output, snaps, snapParts, epochSidecar, result, stoppedAt,
                   layoutMode, watched, epoch, previous>>

(* The optimized layout goes out: a resident one is written to output.part *)
(* first, a mapped one is there already and only synchronized.             *)
WriteOutput ==
    /\ layoutPc = IF HasTail THEN "tail" ELSE "epoch"
    /\ ~MoreEpochs
    /\ layoutPart' = IF Storage = "mmap" THEN layoutPart ELSE Short
    /\ Goto("name")
    /\ UNCHANGED <<route, inputs, output, snaps, snapParts, epochSidecar, result, stoppedAt>>

NameOutput ==
    /\ layoutPc = "name"
    /\ output' = layout /\ layoutPart' = NoLayout
    /\ Goto("check")
    /\ UNCHANGED <<route, inputs, snaps, snapParts, epochSidecar, result, stoppedAt>>

(* The last look at the inputs, after which the result is built. *)
CheckSource ==
    /\ layoutPc = "check"
    /\ IF SourceHolds
       THEN /\ result' = output
            /\ IF layoutMode = "plain" THEN EndLayoutCall ELSE Goto("clean")
       ELSE EndLayoutCall /\ UNCHANGED result
    /\ UNCHANGED <<route, inputs, files, stoppedAt>>

(* massive_umap_checkpoint_cleanup removes every snapshot, t-SNE the last  *)
(* one; then the sidecar.                                                  *)
CleanSnapshots ==
    /\ layoutPc = "clean"
    /\ snaps' = [e \in Epochs |-> IF Method = "umap" \/ e = previous
                                  THEN NoLayout ELSE snaps[e]]
    /\ Goto("retire")
    /\ UNCHANGED <<route, inputs, layoutPart, output, snapParts, epochSidecar, result, stoppedAt>>

RetireEpochSidecar ==
    /\ layoutPc = "retire"
    /\ epochSidecar' = NoLayout
    /\ EndLayoutCall
    /\ UNCHANGED <<route, inputs, layoutPart, output, snaps, snapParts, result, stoppedAt>>

-----------------------------------------------------------------------------
(* The call is interrupted.  Open streams keep what they have; a mapped    *)
(* layout keeps whatever the unfinished epoch did to it.                   *)
InterruptLayout ==
    /\ layoutPc \in StopAt \ {"idle"}
    /\ Len(stoppedAt) < LayoutStops
    /\ stoppedAt' = Append(stoppedAt, layoutPc)
    /\ IF Storage = "mmap" /\ layoutPc \in {"epoch", "tail"}
       THEN layoutPart' \in {layoutPart, TornLayout} ELSE UNCHANGED layoutPart
    /\ EndLayoutCall
    /\ UNCHANGED <<route, inputs, output, snaps, snapParts, epochSidecar, result>>

ChangeInputs ==
    /\ inputs < InputChanges
    /\ inputs' = inputs + 1
    /\ UNCHANGED <<route, files, result, stoppedAt, layoutProcess>>

LayoutStep ==
    \/ Open \/ Load \/ RunEpoch
    \/ WriteSnapshot \/ NameSnapshot \/ Commit \/ PruneSnapshot
    \/ RunTail \/ WriteOutput \/ NameOutput \/ CheckSource
    \/ CleanSnapshots \/ RetireEpochSidecar

LayoutNext ==
    \/ \E m \in LayoutModes : StartLayout(m)
    \/ LayoutStep \/ InterruptLayout \/ ChangeInputs

LayoutSpec == LayoutInit /\ [][LayoutNext]_layoutVars

(* A running call keeps running, and the caller keeps coming back with     *)
(* resume = TRUE.                                                          *)
FairLayoutSpec == LayoutSpec /\ WF_layoutVars(LayoutStep) /\ SF_layoutVars(StartLayout("resume"))

-----------------------------------------------------------------------------
(* Properties.                                                             *)

(* n epochs, each read once, of one version of the inputs: what a call     *)
(* that is never interrupted computes.                                     *)
Uninterrupted(l) == \A i \in 1..Len(l) : l[i] = l[1]

(* The recorded snapshot is there, whatever was interrupted since, until   *)
(* its output has been published: it is exactly the layout of its epoch,   *)
(* from the inputs the sidecar is signed for, and a later call only        *)
(* replaces it by one that is recorded already (the callback writes the    *)
(* sidecar before it unlinks the snapshot before).                         *)
SnapshotDurable ==
    epochSidecar # NoLayout =>
        /\ output = NoLayout => snaps[epochSidecar.epoch] = epochSidecar.snapshot
        /\ epochSidecar.snapshot = [i \in 1..(epochSidecar.epoch + 1) |-> epochSidecar.signature]

(* A result is handed out only for an output that equals the one of an     *)
(* uninterrupted call on one version of the inputs, over any number of     *)
(* interruptions and resumes; the snapshots and the mapped file never mix  *)
(* two versions or repeat an epoch in it.                                  *)
ResultIsUninterrupted ==
    result # NoLayout =>
        /\ result = output
        /\ Len(result) = NRounds
        /\ Uninterrupted(result)

(* A job with a recorded snapshot ends with a result, however often it is  *)
(* interrupted while it computes or loads, because a matching resume is    *)
(* accepted.  Only an interruption while a file changes its name or a      *)
(* mapped file is filled may end it, or a change of its inputs.            *)
Harmless == {"open", "epoch", "tail"} \cup (IF Storage = "memory" THEN {"load"} ELSE {})

RecordedWorkFinishes ==
    epochSidecar # NoLayout ~>
        \/ result # NoLayout
        \/ \E i \in DOMAIN stoppedAt : stoppedAt[i] \notin Harmless
        \/ epochSidecar # NoLayout /\ epochSidecar.signature # inputs

(* "Mapped storage can also resume from a completed epoch snapshot,        *)
(* rebuilding its .part coordinate file from that snapshot"                *)
(* (docs/experimental-massive-assessment.md): a resumed call that has      *)
(* loaded its snapshot is never stopped by the state of the file it is     *)
(* about to rebuild.                                                       *)
MappedResumeRebuilds == layoutPc = "open" /\ layoutMode = "resume" => layoutPart # Short
=============================================================================
