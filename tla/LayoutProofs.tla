---------------------------- MODULE LayoutProofs ----------------------------
(* Proofs about the optimizers of full layouts: what the snapshots of one  *)
(* are worth, for any number of epochs, any spacing of the snapshots, any  *)
(* kind of job, and any number of interruptions, resumed calls and changes *)
(* of the inputs; and what a call over several GPUs leaves behind, for any *)
(* number of devices and rows, any graph and any number of failures.       *)
EXTENDS LayoutSnapshots, RankedLayout, SequenceTheorems, TLAPS

-----------------------------------------------------------------------------
(* Snapshots of the epochs (LayoutSnapshots).                              *)

(* The layout of n rounds that all read version v of the inputs.           *)
Uniform(n, v) == [i \in 1..n |-> v]

InLoop == {"epoch", "snap", "snap_name", "commit", "prune"}
AtSnapshot == {"snap", "snap_name", "commit", "prune"}
Published == {"check", "clean", "retire"}
Finished == {"tail", "name"} \cup Published

LayoutTypeOK ==
    /\ route \in Routes
    /\ inputs \in InputVersions
    /\ layoutPart \in {NoLayout, Short, TornLayout} \cup Layouts
    /\ output \in {NoLayout} \cup Layouts
    /\ snaps \in [Epochs -> {NoLayout} \cup Layouts]
    /\ snapParts \subseteq Epochs
    /\ epochSidecar \in {NoLayout} \cup Sidecars
    /\ result \in {NoLayout} \cup Layouts
    /\ stoppedAt \in Seq(LayoutPoints)
    /\ layoutPc \in LayoutPoints /\ layoutMode \in LayoutModes
    /\ watched \in {NoLayout} \cup InputVersions
    /\ layout \in {NoLayout} \cup Layouts
    /\ epoch \in 0..NEpochs /\ previous \in 0..NEpochs

(* A call watches a version that is not newer than the inputs; while it is *)
(* the one of the inputs, every round so far has read it.                  *)
RoundsRead ==
    /\ layoutPc # "idle" => watched \in InputVersions /\ watched <= inputs
    /\ layoutPc \in InLoop =>
          /\ layout \in [1..(epoch + 1) -> InputVersions]
          /\ watched = inputs => layout = Uniform(epoch + 1, watched)
    /\ layoutPc \in Finished =>
          /\ layout \in [1..NRounds -> InputVersions]
          /\ watched = inputs => layout = Uniform(NRounds, watched)

(* Where a call that has not loaded anything will start.                   *)
StartKnown ==
    layoutPc \in {"open", "load"} =>
        IF layoutMode = "resume"
        THEN /\ epochSidecar # NoLayout
             /\ epochSidecar.epoch = epoch /\ epochSidecar.signature = watched
        ELSE epoch = 0

(* A call is not behind its sidecar.  A snapshot goes to an epoch that has *)
(* none; it is the layout; and it is in the sidecar before the one before  *)
(* it is removed, which is not it.                                         *)
SnapshotTurn ==
    /\ previous <= epoch
    /\ layoutPc # "idle" /\ epochSidecar # NoLayout => epochSidecar.epoch <= epoch
    /\ layoutPc \in AtSnapshot => previous < epoch
    /\ layoutPc = "snap_name" => snaps[epoch] = NoLayout
    /\ layoutPc = "commit" => snaps[epoch] = layout
    /\ layoutPc = "prune" => epochSidecar.epoch = epoch

(* The output appears once, at the end of a call.                          *)
OutputLast ==
    /\ layoutPc \notin {"idle"} \cup Published => output = NoLayout
    /\ layoutPc \in Published => output = layout

LayoutIInv ==
    /\ LayoutTypeOK /\ RoundsRead /\ StartKnown /\ SnapshotTurn /\ OutputLast
    /\ SnapshotDurable /\ ResultIsUninterrupted

-----------------------------------------------------------------------------
LEMMA UniformGrows ==
    ASSUME NEW n \in Nat, NEW v \in InputVersions
    PROVE  Append(Uniform(n, v), v) = Uniform(n + 1, v)
<1>1. Uniform(n, v) \in Seq(InputVersions) /\ Len(Uniform(n, v)) = n
  BY DEF Uniform
<1>2. Append(Uniform(n, v), v) \in Seq(InputVersions) /\ Len(Append(Uniform(n, v), v)) = n + 1
  BY <1>1
<1>3. \A i \in 1..(n + 1) : Append(Uniform(n, v), v)[i] = v
  BY <1>1 DEF Uniform
<1> QED
  BY <1>2, <1>3 DEF Uniform

LEMMA LayoutGrows ==
    ASSUME NEW n \in Nat, NEW l \in [1..n -> InputVersions], NEW v \in InputVersions
    PROVE  Append(l, v) \in [1..(n + 1) -> InputVersions]
<1>1. l \in Seq(InputVersions) /\ Len(l) = n
  OBVIOUS
<1>2. Append(l, v) \in Seq(InputVersions) /\ Len(Append(l, v)) = n + 1
  BY <1>1
<1> QED
  BY <1>2, LenProperties

LEMMA LayoutsOfLength ==
    ASSUME NEW n \in 1..(NEpochs + 2), NEW l \in [1..n -> InputVersions]
    PROVE  l \in Layouts /\ l # NoLayout
<1>1. l \in Layouts
  BY DEF Layouts
<1> QED
  BY <1>1, ValueAssumption

LEMMA SidecarEpoch ==
    ASSUME LayoutTypeOK, epochSidecar # NoLayout
    PROVE  epochSidecar.epoch \in Epochs /\ epochSidecar.epoch \in Nat
  BY DEF LayoutTypeOK, Sidecars, Epochs

LEMMA LayoutStarts == LayoutInit => LayoutIInv
  BY EpochAssumption, LayoutBounds
  DEF LayoutInit, LayoutIInv, LayoutTypeOK, RoundsRead, StartKnown, SnapshotTurn, OutputLast,
      SnapshotDurable, ResultIsUninterrupted, InLoop, AtSnapshot, Published, Finished,
      LayoutPoints, LayoutModes, InputVersions

(* Leaving a call, however it ends: the files are as they were.            *)
LEMMA CallEnds ==
    ASSUME LayoutIInv, EndLayoutCall, LayoutTypeOK',
           UNCHANGED <<route, inputs, output, snaps, epochSidecar, result>>
    PROVE  LayoutIInv'
  BY EpochAssumption
  DEF LayoutIInv, LayoutTypeOK, RoundsRead, StartKnown, SnapshotTurn, OutputLast, EndLayoutCall,
      SnapshotDurable, ResultIsUninterrupted, InLoop, AtSnapshot, Published, Finished, NRounds,
      HasTail

-----------------------------------------------------------------------------
(* The steps of a call.                                                    *)

LEMMA StartKeeps ==
    ASSUME LayoutIInv, NEW m \in LayoutModes, StartLayout(m)
    PROVE  LayoutIInv'
<1>1. output = NoLayout /\ result = NoLayout /\ layoutPc = "idle"
  BY DEF StartLayout, OutputFree, LayoutIInv, ResultIsUninterrupted
<1>2. /\ watched' = inputs /\ layoutMode' = m /\ layoutPc' \in {"open", "load"}
      /\ UNCHANGED <<route, inputs, layoutPart, output, snaps, snapParts, epochSidecar, result,
                     stoppedAt, layout>>
  BY DEF StartLayout, files
<1>3. CASE m = "resume"
  <2>1. /\ epochSidecar # NoLayout /\ epochSidecar.signature = inputs
        /\ epoch' = epochSidecar.epoch /\ previous' = epochSidecar.epoch
    BY <1>3 DEF StartLayout, Loadable, SnapshotRecorded
  <2>2. epochSidecar.epoch \in Epochs
    BY <2>1 DEF LayoutIInv, LayoutTypeOK, Sidecars
  <2> QED
    BY <1>1, <1>2, <1>3, <2>1, <2>2, EpochAssumption
    DEF Epochs, InputVersions, LayoutIInv, LayoutTypeOK, RoundsRead, StartKnown, SnapshotTurn,
        OutputLast, SnapshotDurable, ResultIsUninterrupted, InLoop, AtSnapshot, Published,
        Finished, LayoutPoints
<1>4. CASE m # "resume"
  <2>1. epoch' = 0 /\ previous' = 0 /\ epochSidecar = NoLayout
    BY <1>4 DEF StartLayout
  <2> QED
    BY <1>1, <1>2, <1>4, <2>1, EpochAssumption
    DEF InputVersions, LayoutIInv, LayoutTypeOK, RoundsRead, StartKnown, SnapshotTurn,
        OutputLast, SnapshotDurable, ResultIsUninterrupted, InLoop, AtSnapshot, Published,
        Finished, LayoutPoints
<1> QED
  BY <1>3, <1>4

LEMMA OpenKeeps == ASSUME LayoutIInv, Open  PROVE LayoutIInv'
<1>1. CASE layoutPart = Short
  <2>1. LayoutTypeOK'
    BY <1>1, EpochAssumption DEF Open, EndLayoutCall, LayoutIInv, LayoutTypeOK, LayoutModes, LayoutPoints
  <2> QED
    BY <1>1, <2>1, CallEnds DEF Open
<1>2. CASE layoutPart # Short
  BY <1>2
  DEF Open, Goto, LayoutIInv, LayoutTypeOK, RoundsRead, StartKnown, SnapshotTurn, OutputLast,
      SnapshotDurable, ResultIsUninterrupted, InLoop, AtSnapshot, Published, Finished,
      LayoutPoints
<1> QED
  BY <1>1, <1>2

LEMMA LoadKeeps == ASSUME LayoutIInv, Load  PROVE LayoutIInv'
<1>1. /\ Started \in [1..(epoch + 1) -> InputVersions]
      /\ watched = inputs => Started = Uniform(epoch + 1, watched)
  <2>1. CASE layoutMode = "resume"
    <3>1. /\ epochSidecar # NoLayout /\ epochSidecar \in Sidecars
          /\ epochSidecar.epoch = epoch /\ epochSidecar.signature = watched
          /\ output = NoLayout
      BY <2>1 DEF Load, LayoutIInv, LayoutTypeOK, StartKnown, OutputLast, Published
    <3>2. Started = Uniform(epoch + 1, watched)
      BY <2>1, <3>1 DEF Started, LayoutIInv, SnapshotDurable, Uniform
    <3>3. watched \in InputVersions
      BY DEF Load, LayoutIInv, RoundsRead
    <3> QED
      BY <3>2, <3>3 DEF Uniform
  <2>2. CASE layoutMode # "resume"
    <3>1. epoch = 0 /\ Started = <<inputs>> /\ inputs \in InputVersions
      BY <2>2 DEF Load, Started, LayoutIInv, LayoutTypeOK, StartKnown
    <3>2. <<inputs>> = [i \in 1..1 |-> inputs]
      OBVIOUS
    <3> QED
      BY <3>1, <3>2 DEF Uniform
  <2> QED
    BY <2>1, <2>2
<1>2. Started \in Layouts
  <2>1. epoch + 1 \in 1..(NEpochs + 2)
    BY EpochAssumption DEF LayoutIInv, LayoutTypeOK
  <2> QED
    BY <1>1, <2>1, LayoutsOfLength
<1>3. LayoutTypeOK'
  BY <1>2 DEF Load, Mapped, LayoutIInv, LayoutTypeOK, LayoutPoints
<1> QED
  BY <1>1, <1>3
  DEF Load, LayoutIInv, LayoutTypeOK, RoundsRead, StartKnown, SnapshotTurn, OutputLast,
      SnapshotDurable, ResultIsUninterrupted, InLoop, AtSnapshot, Published, Finished

(* A round more, of the inputs as they are now.                            *)
LEMMA RoundMore ==
    ASSUME LayoutIInv, layoutPc = "epoch", layout' = Append(layout, inputs)
    PROVE  /\ layout' \in [1..(epoch + 2) -> InputVersions] /\ layout' \in Layouts
           /\ watched = inputs => layout' = Uniform(epoch + 2, watched)
<1>1. /\ layout \in [1..(epoch + 1) -> InputVersions] /\ inputs \in InputVersions
      /\ watched = inputs => layout = Uniform(epoch + 1, watched)
      /\ epoch \in 0..NEpochs /\ epoch + 1 \in Nat /\ (epoch + 1) + 1 = epoch + 2
      /\ epoch + 2 \in 1..(NEpochs + 2)
  BY EpochAssumption DEF LayoutIInv, LayoutTypeOK, RoundsRead, InLoop
<1>2. layout' \in [1..(epoch + 2) -> InputVersions]
  BY <1>1, LayoutGrows
<1>3. watched = inputs => layout' = Uniform(epoch + 2, watched)
  BY <1>1, UniformGrows
<1> QED
  BY <1>1, <1>2, <1>3, LayoutsOfLength

LEMMA RunEpochKeeps == ASSUME LayoutIInv, RunEpoch  PROVE LayoutIInv'
<1>1. /\ epoch' = epoch + 1 /\ epoch' \in 0..NEpochs
      /\ layoutPc' \in {"epoch", "snap"}
  BY EpochAssumption DEF RunEpoch, MoreEpochs, LayoutIInv, LayoutTypeOK
<1>2. /\ layout' \in [1..(epoch' + 1) -> InputVersions] /\ layout' \in Layouts
      /\ watched = inputs => layout' = Uniform(epoch' + 1, watched)
  <2>1. epoch' + 1 = epoch + 2
    BY <1>1 DEF LayoutIInv, LayoutTypeOK
  <2> QED
    BY <2>1, RoundMore DEF RunEpoch
<1>3. LayoutTypeOK'
  BY <1>1, <1>2 DEF RunEpoch, Mapped, LayoutIInv, LayoutTypeOK, LayoutPoints
<1> QED
  BY <1>1, <1>2, <1>3, SidecarEpoch, EpochAssumption
  DEF RunEpoch, LayoutIInv, LayoutTypeOK, RoundsRead, StartKnown, SnapshotTurn, OutputLast,
      SnapshotDurable, ResultIsUninterrupted, InLoop, AtSnapshot, Published, Finished

LEMMA WriteSnapshotKeeps == ASSUME LayoutIInv, WriteSnapshot  PROVE LayoutIInv'
<1>1. CASE epoch \in Snapshots
  <2>1. LayoutTypeOK'
    BY <1>1, EpochAssumption
    DEF WriteSnapshot, EndLayoutCall, LayoutIInv, LayoutTypeOK, LayoutModes, LayoutPoints
  <2> QED
    BY <1>1, <2>1, CallEnds DEF WriteSnapshot
<1>2. CASE epoch \notin Snapshots
  <2>1. epoch \in Epochs /\ snaps[epoch] = NoLayout
    BY <1>2, EpochAssumption
    DEF WriteSnapshot, Snapshots, Epochs, LayoutIInv, LayoutTypeOK, SnapshotTurn, AtSnapshot
  <2> QED
    BY <1>2, <2>1
    DEF WriteSnapshot, Goto, LayoutIInv, LayoutTypeOK, RoundsRead, StartKnown, SnapshotTurn,
        OutputLast, SnapshotDurable, ResultIsUninterrupted, InLoop, AtSnapshot, Published,
        Finished, LayoutPoints
<1> QED
  BY <1>1, <1>2

LEMMA NameSnapshotKeeps == ASSUME LayoutIInv, NameSnapshot  PROVE LayoutIInv'
<1>1. epoch \in Epochs /\ layout \in Layouts /\ layout # NoLayout
  <2>1. epoch + 1 \in 1..(NEpochs + 2) /\ layout \in [1..(epoch + 1) -> InputVersions]
    BY EpochAssumption DEF NameSnapshot, LayoutIInv, LayoutTypeOK, RoundsRead, InLoop
  <2> QED
    BY <2>1, LayoutsOfLength, EpochAssumption
    DEF NameSnapshot, Epochs, LayoutIInv, LayoutTypeOK, SnapshotTurn, AtSnapshot
<1>2. LayoutTypeOK' /\ snaps'[epoch] = layout
  BY <1>1 DEF NameSnapshot, Goto, LayoutIInv, LayoutTypeOK, LayoutPoints
<1>3. SnapshotDurable'
  <2> SUFFICES ASSUME epochSidecar # NoLayout  PROVE SnapshotDurable'
    BY DEF NameSnapshot, SnapshotDurable
  <2>1. epochSidecar \in Sidecars /\ output = NoLayout
    BY DEF NameSnapshot, LayoutIInv, LayoutTypeOK, OutputLast, Published
  <2>2. epochSidecar.epoch # epoch
    <3>1. epochSidecar.snapshot \in Layouts /\ epochSidecar.snapshot # NoLayout
      BY <2>1, ValueAssumption DEF Sidecars
    <3> QED
      BY <2>1, <3>1 DEF NameSnapshot, LayoutIInv, SnapshotDurable, SnapshotTurn
  <2>3. epochSidecar.epoch \in Epochs
    BY <2>1 DEF Sidecars
  <2> QED
    BY <2>1, <2>2, <2>3 DEF NameSnapshot, LayoutIInv, LayoutTypeOK, SnapshotDurable
<1> QED
  BY <1>1, <1>2, <1>3
  DEF NameSnapshot, Goto, LayoutIInv, RoundsRead, StartKnown, SnapshotTurn, OutputLast,
      ResultIsUninterrupted, InLoop, AtSnapshot, Published, Finished

LEMMA CommitKeeps == ASSUME LayoutIInv, Commit  PROVE LayoutIInv'
<1>1. CASE SourceHolds
  <2>1. /\ epoch \in Epochs /\ watched \in InputVersions
        /\ snaps[epoch] = Uniform(epoch + 1, watched)
        /\ snaps[epoch] \in Layouts
    <3>1. epoch + 1 \in 1..(NEpochs + 2) /\ layout \in [1..(epoch + 1) -> InputVersions]
      BY EpochAssumption DEF Commit, LayoutIInv, LayoutTypeOK, RoundsRead, InLoop
    <3> QED
      BY <1>1, <3>1, LayoutsOfLength, EpochAssumption
      DEF Commit, SourceHolds, Epochs, LayoutIInv, LayoutTypeOK, RoundsRead, SnapshotTurn,
          AtSnapshot, InLoop
  <2>2. /\ epochSidecar' = [signature |-> watched, epoch |-> epoch, snapshot |-> snaps[epoch]]
        /\ Goto("prune")
        /\ UNCHANGED <<route, inputs, layoutPart, output, snaps, snapParts, result, stoppedAt>>
        /\ layoutPc = "commit"
    BY <1>1 DEF Commit
  <2>3. /\ epochSidecar' \in Sidecars /\ epochSidecar'.epoch = epoch
        /\ epochSidecar'.snapshot = snaps[epoch] /\ epochSidecar'.signature = watched
    BY <2>1, <2>2 DEF Sidecars
  <2>4. SnapshotDurable'
    BY <2>1, <2>2, <2>3 DEF SnapshotDurable, Uniform, Goto
  <2>5. LayoutTypeOK'
    BY <2>2, <2>3 DEF Goto, LayoutIInv, LayoutTypeOK, LayoutPoints
  <2>6. epoch \in Nat /\ epoch <= epoch
    BY <2>1 DEF Epochs
  <2> QED
    BY <2>2, <2>3, <2>4, <2>5, <2>6
    DEF Goto, LayoutIInv, RoundsRead, StartKnown, SnapshotTurn, OutputLast,
        ResultIsUninterrupted, InLoop, AtSnapshot, Published, Finished
<1>2. CASE ~SourceHolds
  <2>1. LayoutTypeOK'
    BY <1>2, EpochAssumption
    DEF Commit, EndLayoutCall, LayoutIInv, LayoutTypeOK, LayoutModes, LayoutPoints
  <2> QED
    BY <1>2, <2>1, CallEnds DEF Commit
<1> QED
  BY <1>1, <1>2

LEMMA PruneKeeps == ASSUME LayoutIInv, PruneSnapshot  PROVE LayoutIInv'
<1>1. /\ epochSidecar.epoch = epoch /\ previous < epoch /\ epoch \in Epochs
      /\ previous \in 0..NEpochs
  BY EpochAssumption
  DEF PruneSnapshot, Epochs, LayoutIInv, LayoutTypeOK, SnapshotTurn, AtSnapshot
<1>2. snaps' \in [Epochs -> {NoLayout} \cup Layouts] /\ snaps'[epoch] = snaps[epoch]
  BY <1>1 DEF PruneSnapshot, Superseded, Epochs, LayoutIInv, LayoutTypeOK
<1>3. LayoutTypeOK'
  BY <1>1, <1>2 DEF PruneSnapshot, Epochs, LayoutIInv, LayoutTypeOK, LayoutPoints
<1>4. SnapshotDurable'
  BY <1>1, <1>2 DEF PruneSnapshot, LayoutIInv, SnapshotDurable
<1> QED
  BY <1>1, <1>3, <1>4
  DEF PruneSnapshot, Epochs, LayoutIInv, RoundsRead, StartKnown, SnapshotTurn, OutputLast,
      ResultIsUninterrupted, InLoop, AtSnapshot, Published, Finished

LEMMA RunTailKeeps == ASSUME LayoutIInv, RunTail  PROVE LayoutIInv'
<1>1. epoch = NEpochs /\ NRounds = epoch + 2
  BY EpochAssumption DEF RunTail, MoreEpochs, NRounds, LayoutIInv, LayoutTypeOK
<1>2. /\ layout' \in [1..NRounds -> InputVersions] /\ layout' \in Layouts
      /\ watched = inputs => layout' = Uniform(NRounds, watched)
  BY <1>1, RoundMore DEF RunTail
<1>3. LayoutTypeOK' /\ NRounds' = NRounds
  BY <1>2 DEF RunTail, Mapped, LayoutIInv, LayoutTypeOK, LayoutPoints, NRounds, HasTail
<1> QED
  BY <1>2, <1>3
  DEF RunTail, LayoutIInv, RoundsRead, StartKnown, SnapshotTurn, OutputLast,
      SnapshotDurable, ResultIsUninterrupted, InLoop, AtSnapshot, Published, Finished

LEMMA WriteOutputKeeps == ASSUME LayoutIInv, WriteOutput  PROVE LayoutIInv'
<1>1. /\ layout \in [1..NRounds -> InputVersions]
      /\ watched = inputs => layout = Uniform(NRounds, watched)
  <2>1. CASE HasTail
    BY <2>1 DEF WriteOutput, LayoutIInv, RoundsRead, Finished
  <2>2. CASE ~HasTail
    <3>1. epoch = NEpochs /\ NRounds = epoch + 1 /\ layoutPc = "epoch"
      BY <2>2, EpochAssumption DEF WriteOutput, MoreEpochs, NRounds, LayoutIInv, LayoutTypeOK
    <3> QED
      BY <3>1 DEF LayoutIInv, RoundsRead, InLoop
  <2> QED
    BY <2>1, <2>2
<1>2. LayoutTypeOK' /\ NRounds' = NRounds
  BY DEF WriteOutput, Goto, LayoutIInv, LayoutTypeOK, LayoutPoints, NRounds, HasTail
<1>3. layoutPc \in {"tail", "epoch"}
  BY DEF WriteOutput
<1> QED
  BY <1>1, <1>2, <1>3
  DEF WriteOutput, Goto, LayoutIInv, RoundsRead, StartKnown, SnapshotTurn, OutputLast,
      SnapshotDurable, ResultIsUninterrupted, InLoop, AtSnapshot, Published, Finished

(* The rounds of a finished layout are a layout, of the length of a result.*)
LEMMA FinishedLayout ==
    ASSUME LayoutIInv, layoutPc \in Finished
    PROVE  layout \in Layouts /\ layout # NoLayout /\ Len(layout) = NRounds /\ NRounds \in Nat
<1>1. NRounds \in 1..(NEpochs + 2) /\ layout \in [1..NRounds -> InputVersions]
  BY EpochAssumption DEF LayoutIInv, RoundsRead, NRounds
<1> QED
  BY <1>1, LayoutsOfLength

LEMMA NameOutputKeeps == ASSUME LayoutIInv, NameOutput  PROVE LayoutIInv'
<1>1. layout \in Layouts /\ layout # NoLayout
  BY FinishedLayout DEF NameOutput, Finished
<1>2. output = NoLayout /\ result = NoLayout
  BY DEF NameOutput, LayoutIInv, OutputLast, Published, ResultIsUninterrupted
<1>3. LayoutTypeOK' /\ NRounds' = NRounds
  BY <1>1 DEF NameOutput, Goto, LayoutIInv, LayoutTypeOK, LayoutPoints, NRounds, HasTail
<1> QED
  BY <1>1, <1>2, <1>3
  DEF NameOutput, Goto, LayoutIInv, RoundsRead, StartKnown, SnapshotTurn, OutputLast,
      SnapshotDurable, ResultIsUninterrupted, InLoop, AtSnapshot, Published, Finished

LEMMA CheckSourceKeeps == ASSUME LayoutIInv, CheckSource  PROVE LayoutIInv'
<1>1. /\ layout \in Layouts /\ layout # NoLayout /\ Len(layout) = NRounds /\ NRounds \in Nat
      /\ output = layout
  BY FinishedLayout DEF CheckSource, Finished, Published, LayoutIInv, OutputLast
<1>2. UNCHANGED <<route, inputs, layoutPart, output, snaps, snapParts, epochSidecar, stoppedAt>>
      /\ layoutPc = "check" /\ NRounds' = NRounds
  BY DEF CheckSource, files, NRounds, HasTail
<1>3. CASE SourceHolds
  <2>1. result' = layout /\ Uninterrupted(layout)
    <3>1. layout = Uniform(NRounds, watched)
      BY <1>2, <1>3 DEF SourceHolds, LayoutIInv, RoundsRead, Finished, Published
    <3>2. \A i \in 1..NRounds : Uniform(NRounds, watched)[i] = watched
      BY DEF Uniform
    <3>3. 1 \in 1..NRounds
      BY EpochAssumption DEF NRounds
    <3> QED
      BY <1>1, <1>3, <3>1, <3>2, <3>3 DEF CheckSource, Uninterrupted
  <2>2. ResultIsUninterrupted'
    BY <1>1, <1>2, <2>1 DEF ResultIsUninterrupted, Uninterrupted
  <2>3. CASE layoutMode = "plain"
    BY <1>1, <1>2, <1>3, <2>1, <2>2, <2>3, EpochAssumption
    DEF CheckSource, EndLayoutCall, LayoutIInv, LayoutTypeOK, RoundsRead, StartKnown,
        SnapshotTurn, OutputLast, SnapshotDurable, InLoop, AtSnapshot, Published, Finished,
        LayoutPoints, LayoutModes
  <2>4. CASE layoutMode # "plain"
    BY <1>1, <1>2, <1>3, <2>1, <2>2, <2>4
    DEF CheckSource, Goto, LayoutIInv, LayoutTypeOK, RoundsRead, StartKnown,
        SnapshotTurn, OutputLast, SnapshotDurable, InLoop, AtSnapshot, Published, Finished,
        LayoutPoints
  <2> QED
    BY <2>3, <2>4
<1>4. CASE ~SourceHolds
  <2>1. LayoutTypeOK'
    BY <1>2, <1>4, EpochAssumption
    DEF CheckSource, EndLayoutCall, LayoutIInv, LayoutTypeOK, LayoutModes, LayoutPoints
  <2> QED
    BY <1>2, <1>4, <2>1, CallEnds DEF CheckSource
<1> QED
  BY <1>3, <1>4

LEMMA CleanKeeps == ASSUME LayoutIInv, CleanSnapshots  PROVE LayoutIInv'
<1>1. output = layout /\ layout # NoLayout
  BY FinishedLayout DEF CleanSnapshots, Finished, Published, LayoutIInv, OutputLast
<1>2. LayoutTypeOK' /\ NRounds' = NRounds
  BY DEF CleanSnapshots, Goto, LayoutIInv, LayoutTypeOK, LayoutPoints, NRounds, HasTail
<1> QED
  BY <1>1, <1>2
  DEF CleanSnapshots, Goto, LayoutIInv, RoundsRead, StartKnown, SnapshotTurn, OutputLast,
      SnapshotDurable, ResultIsUninterrupted, InLoop, AtSnapshot, Published, Finished

LEMMA RetireKeeps == ASSUME LayoutIInv, RetireEpochSidecar  PROVE LayoutIInv'
<1>1. LayoutTypeOK' /\ NRounds' = NRounds
  BY EpochAssumption
  DEF RetireEpochSidecar, EndLayoutCall, LayoutIInv, LayoutTypeOK, LayoutPoints, LayoutModes,
      NRounds, HasTail
<1> QED
  BY <1>1, EpochAssumption
  DEF RetireEpochSidecar, EndLayoutCall, LayoutIInv, LayoutTypeOK, RoundsRead, StartKnown,
      SnapshotTurn, OutputLast, SnapshotDurable, ResultIsUninterrupted, InLoop, AtSnapshot,
      Published, Finished

LEMMA InterruptKeeps == ASSUME LayoutIInv, InterruptLayout  PROVE LayoutIInv'
<1>1. layoutPart' \in {layoutPart, TornLayout} /\ stoppedAt' \in Seq(LayoutPoints)
  BY DEF InterruptLayout, LayoutIInv, LayoutTypeOK
<1>2. LayoutTypeOK'
  BY <1>1, EpochAssumption
  DEF InterruptLayout, EndLayoutCall, LayoutIInv, LayoutTypeOK, LayoutPoints, LayoutModes
<1> QED
  BY <1>2, CallEnds DEF InterruptLayout

(* A change of the inputs: the running call no longer watches them.        *)
LEMMA ChangeKeeps == ASSUME LayoutIInv, ChangeInputs  PROVE LayoutIInv'
<1>1. inputs' = inputs + 1 /\ inputs' \in InputVersions /\ inputs \in Nat
      /\ UNCHANGED <<route, layoutPart, output, snaps, snapParts, epochSidecar, result, stoppedAt,
                     layoutPc, layoutMode, watched, layout, epoch, previous>>
  BY LayoutBounds
  DEF ChangeInputs, files, layoutProcess, LayoutIInv, LayoutTypeOK, InputVersions
<1>2. NRounds' = NRounds
  BY <1>1 DEF NRounds, HasTail
<1>3. RoundsRead'
  BY <1>1, <1>2, LayoutBounds
  DEF LayoutIInv, RoundsRead, InLoop, Finished, Published, InputVersions
<1> QED
  BY <1>1, <1>2, <1>3
  DEF LayoutIInv, LayoutTypeOK, StartKnown, SnapshotTurn, OutputLast, SnapshotDurable,
      ResultIsUninterrupted, AtSnapshot, Published

-----------------------------------------------------------------------------
LEMMA LayoutNextKeeps == LayoutIInv /\ [LayoutNext]_layoutVars => LayoutIInv'
<1> SUFFICES ASSUME LayoutIInv, [LayoutNext]_layoutVars  PROVE LayoutIInv'
  OBVIOUS
<1>1. CASE UNCHANGED layoutVars
  BY <1>1
  DEF layoutVars, files, layoutProcess, LayoutIInv, LayoutTypeOK, RoundsRead, StartKnown,
      SnapshotTurn, OutputLast, SnapshotDurable, ResultIsUninterrupted, InLoop, AtSnapshot,
      Published, Finished, NRounds, HasTail
<1>2. CASE \E m \in LayoutModes : StartLayout(m)
  BY <1>2, StartKeeps
<1>3. CASE LayoutStep
  BY <1>3, OpenKeeps, LoadKeeps, RunEpochKeeps, WriteSnapshotKeeps, NameSnapshotKeeps,
     CommitKeeps, PruneKeeps, RunTailKeeps, WriteOutputKeeps, NameOutputKeeps,
     CheckSourceKeeps, CleanKeeps, RetireKeeps
  DEF LayoutStep
<1> QED
  BY <1>1, <1>2, <1>3, InterruptKeeps, ChangeKeeps DEF LayoutNext

LEMMA LayoutInvariant == LayoutSpec => []LayoutIInv
  BY LayoutStarts, LayoutNextKeeps, PTL DEF LayoutSpec

(* Every layout, snapshot and sidecar has the shape its reader expects.    *)
THEOREM LayoutTyped == LayoutSpec => []LayoutTypeOK
  BY LayoutInvariant, PTL DEF LayoutIInv

(* The snapshot that a sidecar names is on disk until the output is, and   *)
(* it is the layout of its epoch from the inputs it is signed for.         *)
THEOREM RecordedSnapshotKept == LayoutSpec => []SnapshotDurable
  BY LayoutInvariant, PTL DEF LayoutIInv

(* A result is what one call without interruptions computes.               *)
THEOREM ResultAsUninterrupted == LayoutSpec => []ResultIsUninterrupted
  BY LayoutInvariant, PTL DEF LayoutIInv

(* No step goes back: while there is a sidecar, its epoch only grows, and  *)
(* a published output and a result are never replaced.                     *)
RecordedStays ==
    [][/\ epochSidecar # NoLayout /\ epochSidecar' # NoLayout =>
              epochSidecar'.epoch >= epochSidecar.epoch
       /\ output # NoLayout => output' = output
       /\ result # NoLayout => result' = result]_layoutVars

(* massive_*_checkpoint_commit replaces a sidecar by one of a later epoch, *)
(* and no call writes over the output of another.                          *)
THEOREM RecordNeverGoesBack == LayoutSpec => RecordedStays
<1> DEFINE Kept ==
        /\ epochSidecar # NoLayout /\ epochSidecar' # NoLayout =>
               epochSidecar'.epoch >= epochSidecar.epoch
        /\ output # NoLayout => output' = output
        /\ result # NoLayout => result' = result
<1>1. ASSUME LayoutIInv, LayoutNext  PROVE Kept
  <2> USE <1>1
  <2>1. epochSidecar # NoLayout => epochSidecar.epoch \in Nat
    BY SidecarEpoch DEF LayoutIInv
  <2>2. CASE Commit
    <3>1. epochSidecar # NoLayout => epochSidecar.epoch <= epoch
      BY <2>2 DEF Commit, LayoutIInv, SnapshotTurn
    <3>2. UNCHANGED <<output, result>>
      BY <2>2 DEF Commit
    <3>3. CASE SourceHolds
      <4>1. epochSidecar'.epoch = epoch
        BY <2>2, <3>3 DEF Commit
      <4> QED
        BY <2>1, <3>1, <3>2, <4>1
    <3>4. CASE ~SourceHolds
      BY <2>1, <2>2, <3>2, <3>4 DEF Commit
    <3> QED
      BY <3>3, <3>4
  <2>3. CASE NameOutput
    BY <2>1, <2>3 DEF NameOutput, LayoutIInv, OutputLast, Published
  <2>4. CASE CheckSource
    BY <2>1, <2>4 DEF CheckSource, files, LayoutIInv, OutputLast, Published, ResultIsUninterrupted
  <2>5. CASE RetireEpochSidecar
    BY <2>5 DEF RetireEpochSidecar
  <2>6. ASSUME UNCHANGED <<output, result, epochSidecar>>  PROVE Kept
    BY <2>1, <2>6
  <2>7. CASE \/ Open \/ Load \/ RunEpoch \/ WriteSnapshot \/ NameSnapshot \/ PruneSnapshot
             \/ RunTail \/ WriteOutput \/ CleanSnapshots \/ InterruptLayout
    BY <2>6, <2>7
    DEF Open, Load, RunEpoch, WriteSnapshot, NameSnapshot, PruneSnapshot, RunTail, WriteOutput,
        CleanSnapshots, InterruptLayout
  <2>8. CASE ChangeInputs \/ \E m \in LayoutModes : StartLayout(m)
    BY <2>6, <2>8 DEF ChangeInputs, StartLayout, files
  <2> QED
    BY <2>2, <2>3, <2>4, <2>5, <2>7, <2>8 DEF LayoutNext, LayoutStep
<1>2. ASSUME LayoutIInv, UNCHANGED layoutVars  PROVE Kept
  BY <1>2 DEF layoutVars, files, LayoutIInv, LayoutTypeOK, Sidecars, Epochs
<1>3. LayoutIInv /\ [LayoutNext]_layoutVars => [Kept]_layoutVars
  BY <1>1
<1> QED
  BY <1>3, LayoutInvariant, PTL DEF LayoutSpec, RecordedStays

-----------------------------------------------------------------------------
(* Coordinated layouts (RankedLayout).                                     *)

RankedSpec == RankedInit /\ [][RankedNext]_rankedVars

HostPcs == {"create", "begin", "cleared", "spawn", "join", "finish", "move", "moved",
            "gather", "write", "unwind", "returned", "refused", "failed"}
Reading(r) == ranks[r].pc \in {"reading", "waiting"}

RankedTypeOK ==
    /\ plan \in RankedPlans
    /\ DOMAIN host = {"pc", "epoch", "joined", "live", "stops", "heaviest", "scale"}
    /\ host = [f \in DOMAIN host |-> host[f]]
    /\ host.pc \in HostPcs /\ host.joined \in Nat /\ host.live \in BOOLEAN
    /\ ranks \in [Devices -> [pc : {"none", "reading", "waiting", "done", "failed"}, batch : Nat]]
    /\ gpus = [r \in Devices |-> gpus[r]]

(* The threads of the ranks run only while the host waits for them, and it *)
(* does so one after the other.                                            *)
ThreadsAwaited ==
    /\ \A r \in Devices : Reading(r) => host.pc \in {"join", "unwind"}
    /\ host.pc = "join" => \A r \in Devices : r < host.joined => ~Reading(r)

(* The memory lives from the first step of a call to its last one.         *)
MemoryHeld == host.live <=> host.pc \notin {"create", "refused", "failed", "returned"}

(* Before an epoch the devices have nothing to do.                         *)
RestBetween == host.pc \in {"begin", "create", "refused", "failed", "returned"} => AllIdle

RankedIInv == RankedTypeOK /\ ThreadsAwaited /\ MemoryHeld /\ RestBetween

-----------------------------------------------------------------------------
LEMMA DevicesThere ==
    ASSUME plan \in RankedPlans
    PROVE  plan.devices \in Nat \ {0} /\ 0 \in Devices /\ Devices \subseteq Nat
  BY RankedAssumption DEF Devices

LEMMA FreshIdle ==
    ASSUME NEW initial
    PROVE  FreshDevice(initial).queue = <<>>
  BY DEF FreshDevice

LEMMA LoadedIdle ==
    Loaded.queue = <<>>
<1> DEFINE fresh == FreshDevice(InPadded(InitialRows, 0))
<1>1. /\ fresh.queue = <<>>
      /\ DOMAIN fresh = {"layout", "sum", "update", "gains", "mean", "queue"}
  BY DEF FreshDevice
<1>2. CASE kept.epoch = 0
  BY <1>1, <1>2 DEF Loaded
<1>3. CASE kept.epoch # 0 /\ Umap
  <2>1. Loaded = [fresh EXCEPT !.layout = InPadded(kept.state.layout, 0)]
    BY <1>3 DEF Loaded
  <2> HIDE DEF fresh
  <2> QED
    BY <1>1, <2>1
<1>4. CASE kept.epoch # 0 /\ ~Umap
  <2>1. Loaded = [fresh EXCEPT !.layout = InPadded(kept.state.layout, 0),
                               !.update = InPadded(kept.state.update, 0),
                               !.gains = InPadded(kept.state.gains, 1)]
    BY <1>4 DEF Loaded
  <2> HIDE DEF fresh
  <2> QED
    BY <1>1, <2>1
<1> QED
  BY <1>2, <1>3, <1>4

LEMMA RankedStarts == RankedInit => RankedIInv
<1> SUFFICES ASSUME RankedInit  PROVE RankedIInv
  OBVIOUS
<1>1. RankedTypeOK
  BY DEF RankedInit, RankedTypeOK, HostPcs
<1>2. AllIdle
  BY FreshIdle DEF RankedInit, AllIdle, Idle
<1>3. ThreadsAwaited /\ MemoryHeld
  BY DEF RankedInit, ThreadsAwaited, MemoryHeld, Reading
<1> QED
  BY <1>1, <1>2, <1>3 DEF RankedIInv, RestBetween

-----------------------------------------------------------------------------
(* The calling thread: what it changes of itself.                          *)

(* A step that only moves the host on.                                     *)
LEMMA HostMoves ==
    ASSUME RankedTypeOK, NEW pc \in HostPcs, GoTo(pc)
    PROVE  /\ host'.pc = pc /\ host'.joined = host.joined /\ host'.live = host.live
           /\ DOMAIN host' = DOMAIN host /\ host' = [f \in DOMAIN host' |-> host'[f]]
  BY DEF GoTo, RankedTypeOK

(* The host goes on within a call while no rank is busy.                   *)
LEMMA HostGoesOn ==
    ASSUME RankedIInv, UNCHANGED <<plan, ranks>>, NEW pc \in HostPcs, GoTo(pc),
           host.pc \in {"begin", "cleared", "finish", "move", "gather", "write"},
           pc \in {"begin", "cleared", "spawn", "move", "moved", "write"},
           gpus' = [r \in Devices |-> gpus'[r]], pc = "begin" => AllIdle'
    PROVE  RankedIInv'
<1>1. host'.pc = pc /\ host'.live = host.live /\ DOMAIN host' = DOMAIN host
      /\ host'.joined = host.joined /\ host' = [f \in DOMAIN host' |-> host'[f]]
  BY HostMoves DEF RankedIInv
<1>2. RankedTypeOK'
  BY <1>1 DEF RankedIInv, RankedTypeOK, Devices
<1>3. ThreadsAwaited' /\ MemoryHeld' /\ RestBetween'
  BY <1>1 DEF RankedIInv, ThreadsAwaited, MemoryHeld, RestBetween, Reading, Devices
<1> QED
  BY <1>2, <1>3 DEF RankedIInv

LEMMA CreateKeeps == ASSUME RankedIInv, Create  PROVE RankedIInv'
<1>1. CASE HasRowsEverywhere /\ (Umap => Scale > 0)
  <2>1. /\ host' = [host EXCEPT !.pc = "begin", !.live = TRUE, !.epoch = kept.epoch,
                                !.heaviest = MaxWeight, !.scale = Scale]
        /\ gpus' = [r \in Devices |-> Loaded]
        /\ UNCHANGED <<plan, ranks, kept>> /\ host.pc = "create"
    BY <1>1 DEF Create
  <2>2. /\ host'.pc = "begin" /\ host'.live = TRUE /\ host'.joined = host.joined
        /\ DOMAIN host' = DOMAIN host /\ host' = [f \in DOMAIN host' |-> host'[f]]
    BY <2>1 DEF RankedIInv, RankedTypeOK
  <2>3. AllIdle'
    BY <2>1, LoadedIdle DEF AllIdle, Idle, Devices
  <2>4. RankedTypeOK'
    BY <2>1, <2>2 DEF RankedIInv, RankedTypeOK, Devices, HostPcs
  <2> QED
    BY <2>1, <2>2, <2>3, <2>4
    DEF RankedIInv, ThreadsAwaited, MemoryHeld, RestBetween, Reading, Devices
<1>2. CASE ~(HasRowsEverywhere /\ (Umap => Scale > 0))
  <2>1. GoTo("refused") /\ UNCHANGED <<plan, ranks, gpus>> /\ host.pc = "create"
    BY <1>2 DEF Create
  <2>2. /\ host'.pc = "refused" /\ host'.joined = host.joined /\ host'.live = host.live
        /\ DOMAIN host' = DOMAIN host /\ host' = [f \in DOMAIN host' |-> host'[f]]
    BY <2>1, HostMoves DEF RankedIInv, HostPcs
  <2> QED
    BY <2>1, <2>2 DEF RankedIInv, RankedTypeOK, HostPcs, ThreadsAwaited, MemoryHeld,
                      RestBetween, Reading, Devices, AllIdle, Idle
<1> QED
  BY <1>1, <1>2

LEMMA HostStepKeeps ==
    ASSUME RankedIInv, Begin \/ Cleared \/ Finish \/ Move \/ Gather \/ Write
    PROVE  RankedIInv'
<1> USE DEF HostPcs
<1>1. CASE Begin
  <2>1. PICK pc \in {"cleared", "spawn"} : GoTo(pc)
    BY <1>1 DEF Begin
  <2> QED
    BY <1>1, <2>1, HostGoesOn DEF Begin, Queued
<1>2. CASE Cleared
  BY <1>2, HostGoesOn DEF Cleared, RankedIInv, RankedTypeOK
<1>3. CASE Finish
  <2>1. PICK pc \in {"move", "moved"} : GoTo(pc)
    BY <1>3 DEF Finish
  <2> QED
    BY <1>3, <2>1, HostGoesOn DEF Finish, OnAll, Queued
<1>4. CASE Move
  BY <1>4, HostGoesOn DEF Move, OnAll, Queued
<1>5. CASE Gather
  BY <1>5, HostGoesOn DEF Gather, OnAll, Queued
<1>6. CASE Write
  <2>1. AllIdle'
    BY <1>6 DEF Write, AllIdle, Idle, Devices
  <2> QED
    BY <1>6, <2>1, HostGoesOn DEF Write, RankedIInv, RankedTypeOK
<1> QED
  BY <1>1, <1>2, <1>3, <1>4, <1>5, <1>6

LEMMA SpawnKeeps == ASSUME RankedIInv, Spawn  PROVE RankedIInv'
<1>1. /\ host'.pc = "join" /\ host'.joined = 0 /\ host'.live = host.live
      /\ DOMAIN host' = DOMAIN host /\ host' = [f \in DOMAIN host' |-> host'[f]]
  BY DEF Spawn, RankedIInv, RankedTypeOK
<1>2. Devices \subseteq Nat
  BY DevicesThere DEF RankedIInv, RankedTypeOK
<1>3. RankedTypeOK'
  BY <1>1 DEF Spawn, RankedIInv, RankedTypeOK, HostPcs, Devices
<1>4. ThreadsAwaited'
  BY <1>1, <1>2 DEF Spawn, ThreadsAwaited, Devices
<1> QED
  BY <1>1, <1>3, <1>4 DEF Spawn, RankedIInv, MemoryHeld, RestBetween

LEMMA JoinKeeps == ASSUME RankedIInv, Join  PROVE RankedIInv'
<1>1. Devices \subseteq Nat /\ plan.devices \in Nat
  BY DevicesThere DEF RankedIInv, RankedTypeOK
<1>2. UNCHANGED <<plan, ranks, gpus>> /\ host.pc = "join"
  BY DEF Join
<1>3. CASE host.joined = plan.devices
  <2>1. /\ host'.pc = "finish" /\ host'.joined = host.joined /\ host'.live = host.live
        /\ DOMAIN host' = DOMAIN host /\ host' = [f \in DOMAIN host' |-> host'[f]]
    BY <1>3, HostMoves DEF Join, RankedIInv, HostPcs
  <2>2. \A r \in Devices : ~Reading(r)
    BY <1>1, <1>2, <1>3 DEF RankedIInv, ThreadsAwaited, Devices
  <2> QED
    BY <1>2, <2>1, <2>2 DEF RankedIInv, RankedTypeOK, HostPcs, ThreadsAwaited, MemoryHeld,
                            RestBetween, Reading, Devices
<1>4. CASE host.joined # plan.devices /\ ranks[host.joined].pc = "done"
            /\ host' = [host EXCEPT !.joined = @ + 1]
  <2>1. /\ host'.pc = "join" /\ host'.joined = host.joined + 1 /\ host'.live = host.live
        /\ DOMAIN host' = DOMAIN host /\ host' = [f \in DOMAIN host' |-> host'[f]]
    BY <1>2, <1>4 DEF RankedIInv, RankedTypeOK
  <2>2. host.joined \in Nat
    BY DEF RankedIInv, RankedTypeOK
  <2>3. \A r \in Devices : r < host.joined + 1 => ~Reading(r)
    <3>1. SUFFICES ASSUME NEW r \in Devices, r < host.joined + 1  PROVE ~Reading(r)
      OBVIOUS
    <3>2. CASE r = host.joined
      BY <1>4, <3>2 DEF Reading
    <3>3. CASE r # host.joined
      <4>1. r < host.joined
        BY <1>1, <2>2, <3>1, <3>3
      <4> QED
        BY <1>2, <4>1 DEF RankedIInv, ThreadsAwaited
    <3> QED
      BY <3>2, <3>3
  <2>4. RankedTypeOK'
    BY <1>2, <2>1, <2>2 DEF RankedIInv, RankedTypeOK, HostPcs, Devices
  <2> QED
    BY <1>2, <2>1, <2>3, <2>4 DEF RankedIInv, ThreadsAwaited, MemoryHeld, RestBetween,
                                  Reading, Devices
<1>5. CASE GoTo("unwind")
  <2>1. /\ host'.pc = "unwind" /\ host'.joined = host.joined /\ host'.live = host.live
        /\ DOMAIN host' = DOMAIN host /\ host' = [f \in DOMAIN host' |-> host'[f]]
    BY <1>5, HostMoves DEF RankedIInv, HostPcs
  <2> QED
    BY <1>2, <2>1 DEF RankedIInv, RankedTypeOK, HostPcs, ThreadsAwaited, MemoryHeld,
                      RestBetween, Reading, Devices
<1> QED
  BY <1>3, <1>4, <1>5 DEF Join

LEMMA MovedKeeps == ASSUME RankedIInv, Moved  PROVE RankedIInv'
<1>1. PICK pc \in {"gather", "begin"} :
          host' = [host EXCEPT !.epoch = @ + 1, !.pc = pc]
  BY DEF Moved
<1>2. UNCHANGED <<plan, ranks, gpus>> /\ host.pc = "moved" /\ AllIdle
  BY DEF Moved
<1>3. /\ host'.pc = pc /\ host'.joined = host.joined /\ host'.live = host.live
      /\ DOMAIN host' = DOMAIN host /\ host' = [f \in DOMAIN host' |-> host'[f]]
  BY <1>1 DEF RankedIInv, RankedTypeOK
<1>4. AllIdle'
  BY <1>2 DEF AllIdle, Idle, Devices
<1>5. RankedTypeOK'
  BY <1>1, <1>2, <1>3 DEF RankedIInv, RankedTypeOK, HostPcs, Devices
<1>6. ThreadsAwaited' /\ MemoryHeld'
  BY <1>1, <1>2, <1>3 DEF RankedIInv, ThreadsAwaited, MemoryHeld, Reading, Devices
<1> QED
  BY <1>4, <1>5, <1>6 DEF RankedIInv, RestBetween

LEMMA OutputKeeps == ASSUME RankedIInv, Output  PROVE RankedIInv'
<1>1. /\ host'.pc = "returned" /\ host'.joined = host.joined /\ host'.live = FALSE
      /\ DOMAIN host' = DOMAIN host /\ host' = [f \in DOMAIN host' |-> host'[f]]
  BY DEF Output, RankedIInv, RankedTypeOK
<1>2. UNCHANGED <<plan, ranks, gpus>> /\ host.pc = "begin"
  BY DEF Output
<1>3. RankedTypeOK'
  BY <1>1, <1>2 DEF RankedIInv, RankedTypeOK, HostPcs, Devices
<1>4. ThreadsAwaited' /\ MemoryHeld'
  BY <1>1, <1>2 DEF RankedIInv, ThreadsAwaited, MemoryHeld, Reading, Devices
<1>5. AllIdle'
  BY <1>2 DEF RankedIInv, RestBetween, AllIdle, Idle, Devices
<1> QED
  BY <1>3, <1>4, <1>5 DEF RankedIInv, RestBetween

LEMMA StopKeeps == ASSUME RankedIInv, Stop  PROVE RankedIInv'
<1>1. /\ host'.pc = "unwind" /\ host'.joined = host.joined /\ host'.live = host.live
      /\ DOMAIN host' = DOMAIN host /\ host' = [f \in DOMAIN host' |-> host'[f]]
  BY DEF Stop, RankedIInv, RankedTypeOK
<1>2. RankedTypeOK'
  BY <1>1 DEF Stop, RankedIInv, RankedTypeOK, HostPcs, Devices
<1>3. ThreadsAwaited'
  BY <1>1 DEF Stop, RankedIInv, ThreadsAwaited, Reading, Devices
<1>4. MemoryHeld' /\ RestBetween'
  BY <1>1 DEF Stop, RankedIInv, MemoryHeld, RestBetween
<1> QED
  BY <1>2, <1>3, <1>4 DEF RankedIInv

LEMMA UnwindKeeps == ASSUME RankedIInv, Unwind  PROVE RankedIInv'
<1>1. /\ host'.pc = "failed" /\ host'.joined = host.joined /\ host'.live = FALSE
      /\ DOMAIN host' = DOMAIN host /\ host' = [f \in DOMAIN host' |-> host'[f]]
  BY DEF Unwind, RankedIInv, RankedTypeOK
<1>2. AllIdle'
  BY FreshIdle DEF Unwind, AllIdle, Idle, Devices
<1>3. \A r \in Devices : ~Reading(r)
  BY DEF Unwind, RanksEnded, Reading
<1>4. RankedTypeOK'
  BY <1>1 DEF Unwind, RankedIInv, RankedTypeOK, HostPcs, Devices
<1> QED
  BY <1>1, <1>2, <1>3, <1>4 DEF Unwind, RankedIInv, ThreadsAwaited, MemoryHeld, RestBetween,
                                Reading, Devices

LEMMA CallAgainKeeps == ASSUME RankedIInv, CallAgain  PROVE RankedIInv'
<1>1. /\ host'.pc = "create" /\ host'.joined = host.joined /\ host'.live = host.live
      /\ DOMAIN host' = DOMAIN host /\ host' = [f \in DOMAIN host' |-> host'[f]]
  BY DEF CallAgain, RankedIInv, RankedTypeOK
<1> QED
  BY <1>1 DEF CallAgain, RankedIInv, RankedTypeOK, HostPcs, ThreadsAwaited, MemoryHeld,
              RestBetween, Reading, Devices, AllIdle, Idle

-----------------------------------------------------------------------------
(* The threads of the ranks and the devices.                               *)

(* A rank that is busy goes on, and what its device has to do changes.     *)
LEMMA RankGoesOn ==
    ASSUME RankedIInv, NEW r \in Devices, Reading(r), UNCHANGED plan,
           host'.pc = host.pc, host'.joined = host.joined, host'.live = host.live,
           DOMAIN host' = DOMAIN host, host' = [f \in DOMAIN host' |-> host'[f]],
           NEW pc \in {"reading", "waiting", "done", "failed"}, NEW batch \in Nat,
           ranks' = [ranks EXCEPT ![r] = [pc |-> pc, batch |-> batch]],
           gpus' = [q \in Devices |-> gpus'[q]]
    PROVE  RankedIInv'
<1>1. host.pc \in {"join", "unwind"}
  BY DEF RankedIInv, ThreadsAwaited
<1>2. RankedTypeOK'
  BY DEF RankedIInv, RankedTypeOK, Devices
<1>3. \A q \in Devices : Reading(q)' => Reading(q)
  BY DEF RankedIInv, RankedTypeOK, Reading
<1>4. ThreadsAwaited'
  BY <1>1, <1>3 DEF RankedIInv, ThreadsAwaited, Devices
<1> QED
  BY <1>1, <1>2, <1>4 DEF RankedIInv, MemoryHeld, RestBetween

LEMMA RankStepKeeps ==
    ASSUME RankedIInv, NEW r \in Devices, RankDoes(r) \/ RankFails(r)
    PROVE  RankedIInv'
<1>1. /\ ranks \in [Devices -> [pc : {"none", "reading", "waiting", "done", "failed"}, batch : Nat]]
      /\ gpus = [q \in Devices |-> gpus[q]]
      /\ host = [f \in DOMAIN host |-> host[f]]
      /\ DOMAIN host = {"pc", "epoch", "joined", "live", "stops", "heaviest", "scale"}
  BY DEF RankedIInv, RankedTypeOK
<1>2. /\ Reading(r) /\ UNCHANGED plan
      /\ gpus' = [q \in Devices |-> gpus'[q]]
      /\ host'.pc = host.pc /\ host'.joined = host.joined /\ host'.live = host.live
      /\ DOMAIN host' = DOMAIN host /\ host' = [f \in DOMAIN host' |-> host'[f]]
  <2>1. CASE ReadBatch(r)
    BY <1>1, <2>1 DEF ReadBatch, Reading
  <2>2. CASE BatchDone(r)
    BY <1>1, <2>2 DEF BatchDone, Reading
  <2>3. CASE RankFails(r)
    BY <1>1, <2>3 DEF RankFails, Reading
  <2> QED
    BY <2>1, <2>2, <2>3 DEF RankDoes
<1>3. \E pc \in {"reading", "waiting", "done", "failed"}, batch \in Nat :
          ranks' = [ranks EXCEPT ![r] = [pc |-> pc, batch |-> batch]]
  <2>0. ranks[r] \in [pc : {"none", "reading", "waiting", "done", "failed"}, batch : Nat]
    BY <1>1
  <2>1. CASE BatchDone(r)
    <3>1. ranks' = [ranks EXCEPT ![r] = [pc |-> "reading", batch |-> ranks[r].batch + 1]]
      BY <2>1 DEF BatchDone
    <3>2. ranks[r].batch + 1 \in Nat
      BY <2>0
    <3> QED
      BY <3>1, <3>2
  <2>2. ASSUME NEW pc \in {"waiting", "done", "failed"}, ranks' = [ranks EXCEPT ![r].pc = pc]
        PROVE  ranks' = [ranks EXCEPT ![r] = [pc |-> pc, batch |-> ranks[r].batch]]
    <3>1. [ranks[r] EXCEPT !.pc = pc] = [pc |-> pc, batch |-> ranks[r].batch]
      BY <2>0
    <3> QED
      BY <2>2, <3>1
  <2>3. CASE ReadBatch(r) \/ RankFails(r)
    <3>1. \E pc \in {"waiting", "done", "failed"} : ranks' = [ranks EXCEPT ![r].pc = pc]
      BY <2>3 DEF ReadBatch, RankFails
    <3> QED
      BY <2>0, <2>2, <3>1
  <2> QED
    BY <2>1, <2>3 DEF RankDoes
<1> QED
  BY <1>2, <1>3, RankGoesOn

LEMMA DeviceStepKeeps ==
    ASSUME RankedIInv, (\E r \in Devices : DeviceRuns(r)) \/ DevicesExchange
    PROVE  RankedIInv'
<1>1. UNCHANGED <<plan, host, ranks, kept>>
  BY DEF DeviceRuns, DevicesExchange
<1>2. ~AllIdle
  <2>1. CASE \E r \in Devices : DeviceRuns(r)
    BY <2>1 DEF DeviceRuns, AllIdle
  <2>2. CASE DevicesExchange
    BY <2>2, DevicesThere DEF DevicesExchange, AllIdle, RankedIInv, RankedTypeOK
  <2> QED
    BY <2>1, <2>2
<1>3. gpus' = [r \in Devices |-> gpus'[r]]
  <2>1. CASE \E r \in Devices : DeviceRuns(r)
    <3>1. PICK r \in Devices : \E d : gpus' = [gpus EXCEPT ![r] = d]
      BY <2>1 DEF DeviceRuns
    <3> QED
      BY <3>1 DEF RankedIInv, RankedTypeOK
  <2>2. CASE DevicesExchange
    BY <2>2 DEF DevicesExchange
  <2> QED
    BY <2>1, <2>2
<1> QED
  BY <1>1, <1>2, <1>3 DEF RankedIInv, RankedTypeOK, ThreadsAwaited, MemoryHeld, RestBetween,
                          Reading, Devices

-----------------------------------------------------------------------------
LEMMA RankedStepKeeps == ASSUME RankedIInv, [RankedNext]_rankedVars  PROVE RankedIInv'
<1>1. CASE HostDoes
  BY <1>1, CreateKeeps, HostStepKeeps, SpawnKeeps, JoinKeeps, MovedKeeps, OutputKeeps,
     UnwindKeeps DEF HostDoes
<1>2. CASE Stop \/ CallAgain
  BY <1>2, StopKeeps, CallAgainKeeps
<1>3. CASE DevicesExchange \/ \E r \in Devices : RankDoes(r) \/ RankFails(r) \/ DeviceRuns(r)
  BY <1>3, DeviceStepKeeps, RankStepKeeps
<1>4. CASE UNCHANGED rankedVars
  BY <1>4 DEF rankedVars, RankedIInv, RankedTypeOK, ThreadsAwaited, MemoryHeld, RestBetween,
              Reading, Devices, AllIdle, Idle
<1> QED
  BY <1>1, <1>2, <1>3, <1>4 DEF RankedNext

THEOREM RankedInvariant == RankedSpec => []RankedIInv
<1>1. RankedInit => RankedIInv
  BY RankedStarts
<1>2. RankedIInv /\ [RankedNext]_rankedVars => RankedIInv'
  BY RankedStepKeeps
<1> QED
  BY <1>1, <1>2, PTL DEF RankedSpec

(* massive_umap_optimize_cpp and massive_tsne_optimize_cpp over several    *)
(* GPUs: when a call has returned, was refused or failed, no thread of a   *)
(* rank runs and no device works on memory that was freed.                 *)
THEOREM NothingLeftBehind == RankedSpec => []NothingOutlivesCall
<1>1. RankedIInv => NothingOutlivesCall
  <2> SUFFICES ASSUME RankedIInv, ~host.live  PROVE NothingOutlivesCall
    BY DEF NothingOutlivesCall
  <2>1. host.pc \in {"create", "refused", "failed", "returned"}
    BY DEF RankedIInv, MemoryHeld
  <2>2. AllIdle /\ \A r \in Devices : ~Reading(r)
    BY <2>1 DEF RankedIInv, RestBetween, ThreadsAwaited
  <2> QED
    BY <2>2 DEF NothingOutlivesCall, Reading
<1> QED
  BY <1>1, RankedInvariant, PTL
=============================================================================
