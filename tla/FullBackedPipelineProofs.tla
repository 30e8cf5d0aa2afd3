---------------------- MODULE FullBackedPipelineProofs ----------------------
(* The record of the one-call pipeline, for any kinds of call and any      *)
(* number of interruptions, resumed calls, changes of the data and stages  *)
(* rewritten between calls.                                                *)
EXTENDS FullBackedPipeline, FiniteSetTheorems, TLAPS

States == {"none", "part", "signed", "begun", "torn", "naming", "done", "cut"}

PipelineTypeOK ==
    /\ route \in Routes
    /\ source \in Versions
    /\ state \in [Stages -> States]
    /\ made \in [Stages -> Lineages]
    /\ record \in {Missing} \cup RecordsOf(Stages)
    /\ returned \in {Missing} \cup Versions
    /\ stops \in Seq(Points \X AllStages) /\ tampers \in Nat
    /\ pc \in Points /\ mode \in Modes /\ at \in DOMAIN Order
    /\ opened \in {Missing} \cup Versions

InStages == {"stage", "work", "window", "publish", "record"}

(* A call whose record was signed for data that changed after the call     *)
(* opened it: it stops before its first stage.                             *)
Outdated ==
    /\ pc = "stage" /\ at = 1 /\ opened < source
    /\ \A s \in Stages : ~Recorded(s)

(* A running call works on the data it opened, for which its record is     *)
(* signed, and nothing has been returned.                                  *)
CallHolds ==
    /\ pc # "idle" => opened \in Versions /\ opened <= source /\ returned = Missing
    /\ pc = "create" => mode = "new" /\ at = 1
    /\ pc \in {"record", "finalize", "unlink"} => Checkpointed
    /\ pc = "create" \/ (pc # "idle" /\ ~Checkpointed) => record = Missing
    /\ pc \notin {"idle", "create"} /\ Checkpointed =>
          record # Missing /\ (record.signature = opened \/ Outdated)

(* The stages behind a running call, and the one in hand, come from the    *)
(* data it opened; only the plain route has no memberships of its own.     *)
StagesBehind ==
    /\ pc \in InStages =>
          /\ ~Recorded("fit")
          /\ \A j \in 1..(at - 1) :
                /\ made[Order[j]] = opened \/ (~Checkpointed /\ Order[j] = "membership")
                /\ Checkpointed => Recorded(Order[j])
    /\ pc \in InStages \ {"stage"} => made[Stage] = opened /\ ~Skips(Stage)
    /\ pc = "record" => Stage # "fit" /\ state[Stage] = "done"

(* At the end there is a fit, and the record names all the stages.         *)
FitThere ==
    /\ pc = "finalize" =>
          /\ state["fit"] = "done" /\ made["fit"] = opened
          /\ \A j \in 1..(Len(Order) - 1) : Recorded(Order[j])
    /\ pc = "unlink" \/ (pc = "retire" /\ Checkpointed) => Recorded("fit")
    /\ pc = "retire" /\ ~Checkpointed => state["fit"] = "done" /\ made["fit"] = opened
    /\ returned # Missing => state["fit"] = "done" /\ record = Missing

PipelineIInv ==
    PipelineTypeOK /\ CallHolds /\ StagesBehind /\ FitThere /\ RecordCovered

-----------------------------------------------------------------------------
(* The stages and their order.                                             *)

LEMMA TheOrders ==
    ASSUME route \in Routes
    PROVE  \/ /\ Method = "umap" /\ Len(Order) = 5
              /\ Order = <<"knn", "membership", "graph", "init", "fit">>
           \/ /\ Method = "tsne" /\ Len(Order) = 4
              /\ Order = <<"knn", "graph", "init", "fit">>
  BY RouteAssumption DEF Order, Method

LEMMA OrderFacts ==
    ASSUME route \in Routes
    PROVE  /\ Len(Order) \in {4, 5} /\ DOMAIN Order = 1..Len(Order)
           /\ 1 \in DOMAIN Order /\ Len(Order) \in DOMAIN Order
           /\ Order[1] = "knn" /\ Order[Len(Order)] = "fit"
           /\ \A i, j \in DOMAIN Order : Order[i] = Order[j] => i = j
           /\ \A i \in DOMAIN Order : Order[i] \in Stages
           /\ \A s \in Stages : \E i \in DOMAIN Order : s = Order[i]
           /\ Stages \subseteq AllStages /\ {"knn", "graph", "init", "fit"} \subseteq Stages
<1>1. CASE Order = <<"knn", "membership", "graph", "init", "fit">>
  <2>1. Len(Order) = 5 /\ DOMAIN Order = 1..5
    BY <1>1
  <2>2. Stages = {"knn", "membership", "graph", "init", "fit"}
    BY <1>1, <2>1 DEF Stages
  <2> QED
    BY <1>1, <2>1, <2>2 DEF AllStages
<1>2. CASE Order = <<"knn", "graph", "init", "fit">>
  <2>1. Len(Order) = 4 /\ DOMAIN Order = 1..4
    BY <1>2
  <2>2. Stages = {"knn", "graph", "init", "fit"}
    BY <1>2, <2>1 DEF Stages
  <2> QED
    BY <1>2, <2>1, <2>2 DEF AllStages
<1> QED
  BY <1>1, <1>2, TheOrders

LEMMA StageFacts ==
    ASSUME PipelineTypeOK
    PROVE  /\ Stage \in Stages /\ Stage \in AllStages
           /\ Stage = "fit" <=> at = Len(Order)
           /\ Stage # "fit" => at + 1 \in DOMAIN Order
           /\ at \in Nat /\ at >= 1 /\ 1..(at - 1) \subseteq DOMAIN Order
  BY OrderFacts DEF PipelineTypeOK, Stage

LEMMA RouteKept ==
    ASSUME UNCHANGED route
    PROVE  /\ Order' = Order /\ Stages' = Stages /\ Method' = Method /\ Mapped' = Mapped
           /\ KeepKnn' = KeepKnn /\ KnnStages' = KnnStages
  BY DEF Order, Stages, Method, Mapped, KeepKnn, KnnStages

LEMMA LineagesDistinct ==
    /\ Missing \notin Versions /\ Versions \subseteq Nat /\ 0 \in Versions
    /\ Versions \subseteq Lineages /\ {Missing, Mixed, Foreign} \subseteq Lineages
  BY ValueAssumption, BoundAssumption DEF Versions, Lineages

LEMMA PipelineStarts == Init => PipelineIInv
<1> SUFFICES ASSUME Init  PROVE PipelineIInv
  OBVIOUS
<1>1. PipelineTypeOK
  BY OrderFacts, LineagesDistinct DEF States, Init, PipelineTypeOK, Points, Modes
<1> QED
  BY <1>1
  DEF Init, PipelineIInv, CallHolds, StagesBehind, FitThere, RecordCovered, InStages

-----------------------------------------------------------------------------
(* The record and the calls.                                               *)

LEMMA RecordTyped ==
    ASSUME PipelineTypeOK
    PROVE  /\ Missing \notin RecordsOf(Stages)
           /\ record # Missing => record \in RecordsOf(Stages) /\ record.signature \in Versions
  BY OrderFacts, RecordAssumption DEF PipelineTypeOK, RecordsOf

LEMMA RecordGrows ==
    ASSUME PipelineTypeOK, record # Missing, NEW s \in Stages, NEW v \in Lineages,
           record' = [record EXCEPT !.stages[s] = v]
    PROVE  /\ record' \in RecordsOf(Stages) /\ record' # Missing
           /\ record'.signature = record.signature /\ record'.stages[s] = v
           /\ \A t \in Stages : t # s => record'.stages[t] = record.stages[t]
<1>1. record \in [signature : Versions, stages : [Stages -> Lineages]]
  BY RecordTyped DEF RecordsOf
<1>2. /\ record'.signature = record.signature
      /\ record'.stages = [record.stages EXCEPT ![s] = v]
      /\ record' \in [signature : Versions, stages : [Stages -> Lineages]]
  BY <1>1
<1> QED
  BY <1>1, <1>2, RecordTyped DEF RecordsOf

(* What keeps a record covered: what it names stays, but for the files of  *)
(* the search once it names the fit.                                       *)
LEMMA CoveredStays ==
    ASSUME PipelineTypeOK, RecordCovered, UNCHANGED <<route, record>>,
           record # Missing => \A s \in Stages :
              Recorded(s) /\ state[s] = "done" /\ (s = "fit" \/ ~Recorded("fit"))
                 => state'[s] = "done"
    PROVE  RecordCovered'
<1> SUFFICES ASSUME record # Missing  PROVE RecordCovered'
  BY DEF RecordCovered
<1>1. Order' = Order /\ \A s : Recorded(s)' <=> Recorded(s)
  BY RouteKept DEF Recorded
<1>2. \A i \in DOMAIN Order : Order[i] \in Stages
  BY OrderFacts DEF PipelineTypeOK
<1>3. "fit" \in Stages
  BY OrderFacts DEF PipelineTypeOK
<1>4. ASSUME NEW i \in DOMAIN Order, Recorded(Order[i])
      PROVE  /\ \A j \in 1..(i - 1) : Recorded(Order[j])
             /\ record.stages[Order[i]] = record.signature
             /\ state'[Order[i]] = "done" \/ Recorded("fit")
  BY <1>2, <1>4 DEF RecordCovered
<1>5. Recorded("fit") => state'["fit"] = "done"
  BY <1>3 DEF RecordCovered
<1> QED
  BY <1>1, <1>4, <1>5 DEF RecordCovered

LEMMA CallEnds ==
    ASSUME PipelineIInv, EndCall, UNCHANGED <<route, source, disk, returned, tampers>>,
           stops' \in Seq(Points \X AllStages)
    PROVE  PipelineIInv'
<1>1. PipelineTypeOK'
  BY RouteKept, OrderFacts DEF PipelineIInv, PipelineTypeOK, EndCall, disk, Points, Modes
<1>2. RecordCovered'
  BY CoveredStays DEF PipelineIInv, disk
<1> QED
  BY <1>1, <1>2
  DEF PipelineIInv, EndCall, disk, CallHolds, StagesBehind, FitThere, InStages

(* What a stage of a running call is made from.                            *)
LEMMA OneSource ==
    ASSUME NEW s, NEW v, Reads(s) = {v}
    PROVE  Lineage(s) = v
<1>1. \E w \in Reads(s) : Reads(s) = {w}
  OBVIOUS
<1>2. Lineage(s) = CHOOSE w \in Reads(s) : TRUE
  BY <1>1 DEF Lineage
<1> QED
  BY <1>2

LEMMA LineageOpened ==
    ASSUME PipelineTypeOK, StagesBehind, pc = "stage", ~Skips(Stage)
    PROVE  Lineage(Stage) = opened
<1>1. \A j \in 1..(at - 1) : made[Order[j]] = opened \/ (~Checkpointed /\ Order[j] = "membership")
  BY DEF StagesBehind, InStages
<1>2. Checkpointed \/ Stage # "membership"
  BY DEF Skips
<1>3. at \in DOMAIN Order
  BY DEF PipelineTypeOK
<1>4. CASE Method = "umap" /\ Order = <<"knn", "membership", "graph", "init", "fit">>
  <2>1. at \in 1..5
    BY <1>3, <1>4
  <2>2. CASE at = 1
    <3>1. Stage = "knn"
      BY <1>1, <1>4, <2>2 DEF Stage
    <3>2. Reads("knn") = {opened}
      BY <1>4, <1>2, <3>1 DEF Reads
    <3> QED
      BY <3>1, <3>2, OneSource
  <2>3. CASE at = 2
    <3>1. Stage = "membership" /\ made["knn"] = opened
      BY <1>1, <1>4, <2>3 DEF Stage
    <3>2. Reads("membership") = {opened}
      BY <1>4, <1>2, <3>1 DEF Reads
    <3> QED
      BY <3>1, <3>2, OneSource
  <2>4. CASE at = 3
    <3>1. Stage = "graph" /\ made["knn"] = opened /\ (Checkpointed => made["membership"] = opened)
      BY <1>1, <1>4, <2>4 DEF Stage
    <3>2. Reads("graph") = {opened}
      BY <1>4, <1>2, <3>1 DEF Reads
    <3> QED
      BY <3>1, <3>2, OneSource
  <2>5. CASE at = 4
    <3>1. Stage = "init" /\ made["graph"] = opened
      BY <1>1, <1>4, <2>5 DEF Stage
    <3>2. Reads("init") = {opened}
      BY <1>4, <1>2, <3>1 DEF Reads
    <3> QED
      BY <3>1, <3>2, OneSource
  <2>6. CASE at = 5
    <3>1. Stage = "fit" /\ made["graph"] = opened /\ made["init"] = opened
      BY <1>1, <1>4, <2>6 DEF Stage
    <3>2. Reads("fit") = {opened}
      BY <1>4, <1>2, <3>1 DEF Reads
    <3> QED
      BY <3>1, <3>2, OneSource
  <2> QED
    BY <2>1, <2>2, <2>3, <2>4, <2>5, <2>6
<1>5. CASE Method = "tsne" /\ Order = <<"knn", "graph", "init", "fit">>
  <2>1. at \in 1..4
    BY <1>3, <1>5
  <2>2. CASE at = 1
    <3>1. Stage = "knn"
      BY <1>1, <1>5, <2>2 DEF Stage
    <3>2. Reads("knn") = {opened}
      BY <1>5, <1>2, <3>1 DEF Reads
    <3> QED
      BY <3>1, <3>2, OneSource
  <2>3. CASE at = 2
    <3>1. Stage = "graph" /\ made["knn"] = opened
      BY <1>1, <1>5, <2>3 DEF Stage
    <3>2. Reads("graph") = {opened}
      BY <1>5, <1>2, <3>1 DEF Reads
    <3> QED
      BY <3>1, <3>2, OneSource
  <2>4. CASE at = 3
    <3>1. Stage = "init"
      BY <1>1, <1>5, <2>4 DEF Stage
    <3>2. Reads("init") = {opened}
      BY <1>5, <1>2, <3>1 DEF Reads
    <3> QED
      BY <3>1, <3>2, OneSource
  <2>5. CASE at = 4
    <3>1. Stage = "fit" /\ made["graph"] = opened /\ made["init"] = opened
      BY <1>1, <1>5, <2>5 DEF Stage
    <3>2. Reads("fit") = {opened}
      BY <1>5, <1>2, <3>1 DEF Reads
    <3> QED
      BY <3>1, <3>2, OneSource
  <2> QED
    BY <2>1, <2>2, <2>3, <2>4, <2>5
<1> QED
  BY <1>4, <1>5, TheOrders DEF PipelineTypeOK

(* A call goes on with the next stage when the one in hand comes from the  *)
(* data and, with checkpoints, is recorded.                                *)
LEMMA StageBehind ==
    ASSUME PipelineTypeOK, StagesBehind, pc \in InStages, NextStage, UNCHANGED <<route, made>>,
           NEW here, here = Stage, here # "fit", ~Recorded("fit")',
           \A s \in Stages : Recorded(s) => Recorded(s)',
           made[here] = opened \/ (~Checkpointed /\ here = "membership"),
           Checkpointed => Recorded(here)'
    PROVE  StagesBehind' /\ at' \in DOMAIN Order'
<1>1. Order' = Order /\ at' = at + 1 /\ at' \in DOMAIN Order /\ pc' = "stage"
      /\ opened' = opened /\ mode' = mode /\ (Checkpointed' <=> Checkpointed)
  BY RouteKept, StageFacts DEF NextStage, Checkpointed
<1>2. ASSUME NEW j \in 1..at, NEW s, s = Order[j]
      PROVE  /\ made[s] = opened \/ (~Checkpointed /\ s = "membership")
             /\ Checkpointed => Recorded(s)'
  <2>1. CASE j = at
    BY <1>2, <2>1 DEF Stage
  <2>2. CASE j # at
    <3>1. j \in 1..(at - 1) /\ s \in Stages
      <4>1. /\ at \in DOMAIN Order /\ DOMAIN Order = 1..Len(Order) /\ Len(Order) \in Nat
            /\ \A i \in DOMAIN Order : Order[i] \in Stages
        BY StageFacts, OrderFacts DEF PipelineTypeOK
      <4> QED
        BY <1>2, <2>2, <4>1
    <3> QED
      BY <1>2, <3>1 DEF StagesBehind
  <2> QED
    BY <2>1, <2>2
<1>3. (at + 1) - 1 = at
  BY StageFacts
<1> QED
  BY <1>1, <1>2, <1>3 DEF StagesBehind, InStages

-----------------------------------------------------------------------------
(* The steps of a call.                                                    *)

LEMMA StartKeeps == ASSUME PipelineIInv, NEW m \in Modes, Start(m)  PROVE PipelineIInv'
<1>1. /\ pc = "idle" /\ mode' = m /\ opened' = source /\ at' = 1
      /\ UNCHANGED <<route, source, state, made, record, returned, stops, tampers>>
  BY DEF Start, disk
<1>2. returned = Missing
  <2>1. "fit" \in Stages
    BY OrderFacts DEF PipelineIInv, PipelineTypeOK
  <2>2. CASE m = "resume"
    BY <2>2 DEF Start, RecordFits, PipelineIInv, FitThere
  <2>3. CASE m # "resume"
    BY <2>1, <2>3 DEF Start, PipelineIInv, FitThere
  <2> QED
    BY <2>2, <2>3
<1>3. PipelineTypeOK'
  BY <1>1, RouteKept, OrderFacts
  DEF Start, PipelineIInv, PipelineTypeOK, Points, Modes, ResumePoint
<1>4. RecordCovered'
  BY <1>1, CoveredStays DEF PipelineIInv
<1>5. source \in Versions /\ source \in Nat
  BY LineagesDistinct DEF PipelineIInv, PipelineTypeOK
<1>6. CASE m = "resume" /\ Recorded("fit")
  <2>1. pc' = "finalize" /\ record # Missing /\ record.signature = source /\ Intact("fit")
    BY <1>6 DEF Start, ResumePoint, RecordFits
  <2>2. /\ record.stages["fit"] = record.signature
        /\ \A j \in 1..(Len(Order) - 1) : Recorded(Order[j])
    <3>1. Len(Order) \in DOMAIN Order /\ Order[Len(Order)] = "fit"
      BY OrderFacts DEF PipelineIInv, PipelineTypeOK
    <3> QED
      BY <1>6, <2>1, <3>1 DEF PipelineIInv, RecordCovered
  <2>3. FitThere'
    <3>1. \A j \in 1..(Len(Order) - 1) : Recorded(Order[j])'
      BY <1>1, <2>2, RouteKept DEF Recorded
    <3> QED
      BY <1>1, <1>2, <2>1, <2>2, <3>1, RouteKept DEF FitThere, Intact
  <2> QED
    BY <1>1, <1>2, <1>3, <1>4, <1>5, <1>6, <2>1, <2>3
    DEF PipelineIInv, CallHolds, StagesBehind, InStages, Checkpointed
<1>7. CASE m = "resume" /\ ~Recorded("fit")
  <2>1. pc' = "stage" /\ record # Missing /\ record.signature = source /\ ~Recorded("fit")'
    BY <1>1, <1>7 DEF Start, ResumePoint, RecordFits, Recorded
  <2> QED
    BY <1>1, <1>2, <1>3, <1>4, <1>5, <1>7, <2>1
    DEF PipelineIInv, CallHolds, StagesBehind, FitThere, InStages, Checkpointed
<1>8. CASE m # "resume"
  <2>1. /\ record = Missing /\ ~Recorded("fit")'
        /\ pc' = IF m = "plain" THEN "stage" ELSE "create"
        /\ m = "plain" \/ m = "new"
    BY <1>1, <1>8 DEF Start, Recorded, Modes
  <2> QED
    BY <1>1, <1>2, <1>3, <1>4, <1>5, <1>8, <2>1
    DEF PipelineIInv, CallHolds, StagesBehind, FitThere, InStages, Checkpointed
<1> QED
  BY <1>6, <1>7, <1>8

LEMMA CreateKeeps == ASSUME PipelineIInv, CreateRecord  PROVE PipelineIInv'
<1>1. /\ pc = "create" /\ mode = "new" /\ at = 1 /\ pc' = "stage" /\ returned = Missing
      /\ record' = [signature |-> source, stages |-> [s \in Stages |-> Missing]]
      /\ UNCHANGED <<route, source, state, made, returned, stops, tampers, mode, at, opened>>
      /\ opened \in Versions /\ opened <= source
  BY DEF CreateRecord, Goto, PipelineIInv, CallHolds
<1>2. record' \in RecordsOf(Stages) /\ record' # Missing /\ record'.signature = source
  <2>1. record' \in RecordsOf(Stages)
    BY <1>1, LineagesDistinct DEF RecordsOf, PipelineIInv, PipelineTypeOK
  <2> QED
    BY <1>1, <2>1, RecordTyped DEF PipelineIInv
<1>3. \A s \in Stages : ~Recorded(s)'
  BY <1>1 DEF Recorded
<1>4. PipelineTypeOK'
  BY <1>1, <1>2, RouteKept DEF PipelineIInv, PipelineTypeOK, Points
<1>5. RecordCovered'
  <2>1. \A i \in DOMAIN Order : Order[i] \in Stages
    BY OrderFacts DEF PipelineIInv, PipelineTypeOK
  <2>2. "fit" \in Stages
    BY OrderFacts DEF PipelineIInv, PipelineTypeOK
  <2> QED
    BY <1>1, <1>3, <2>1, <2>2, RouteKept DEF RecordCovered
<1>6. record'.signature = opened \/ Outdated'
  <2>1. opened \in Nat /\ source \in Nat
    BY <1>1, LineagesDistinct DEF PipelineIInv, PipelineTypeOK
  <2> QED
    BY <1>1, <1>2, <1>3, <2>1, RouteKept DEF Outdated
<1>7. ~Recorded("fit")'
  BY <1>3, OrderFacts DEF PipelineIInv, PipelineTypeOK
<1> QED
  BY <1>1, <1>2, <1>4, <1>5, <1>6, <1>7
  DEF PipelineIInv, CallHolds, StagesBehind, FitThere, InStages, Checkpointed

LEMMA SkipKeeps == ASSUME PipelineIInv, SkipStage  PROVE PipelineIInv'
<1>1. CASE Checkpointed => Intact(Stage)
  <2>1. /\ pc = "stage" /\ Skips(Stage) /\ NextStage
        /\ UNCHANGED <<route, source, state, made, record, returned, stops, tampers>>
    BY <1>1 DEF SkipStage, disk
  <2>2. ~Recorded("fit")
    BY <2>1 DEF PipelineIInv, StagesBehind, InStages
  <2>3. Stage # "fit"
    BY <2>1, <2>2 DEF Skips
  <2>4. Checkpointed => record # Missing /\ record.signature = opened /\ made[Stage] = opened
    <3> SUFFICES ASSUME Checkpointed
                 PROVE  record # Missing /\ record.signature = opened /\ made[Stage] = opened
      OBVIOUS
    <3>1. Recorded(Stage) /\ Intact(Stage) /\ record # Missing
      BY <1>1, <2>1 DEF Skips, Recorded
    <3>2. record.stages[Stage] = record.signature
      BY <3>1 DEF PipelineIInv, PipelineTypeOK, RecordCovered, Stage
    <3>3. record.signature = opened
      BY <2>1, <3>1, StageFacts DEF PipelineIInv, CallHolds, Outdated
    <3> QED
      BY <3>1, <3>2, <3>3 DEF Intact
  <2>5. StagesBehind' /\ at' \in DOMAIN Order'
    <3>1. PICK here : here = Stage
      OBVIOUS
    <3>2. made[here] = opened \/ (~Checkpointed /\ here = "membership")
      BY <2>1, <2>4, <3>1 DEF Skips
    <3>3. (Checkpointed => Recorded(here)') /\ ~Recorded("fit")'
          /\ \A s \in Stages : Recorded(s) => Recorded(s)'
      BY <2>1, <2>2, <3>1 DEF Skips, Recorded
    <3> QED
      BY <2>1, <2>3, <3>1, <3>2, <3>3, StageBehind DEF PipelineIInv, InStages
  <2>6. PipelineTypeOK'
    BY <2>1, <2>5, RouteKept DEF NextStage, PipelineIInv, PipelineTypeOK, Points
  <2>7. RecordCovered'
    BY <2>1, CoveredStays DEF PipelineIInv
  <2> QED
    BY <2>1, <2>4, <2>5, <2>6, <2>7
    DEF NextStage, PipelineIInv, CallHolds, FitThere, Checkpointed
<1>2. CASE ~(Checkpointed => Intact(Stage))
  BY <1>2, CallEnds DEF SkipStage, PipelineIInv, PipelineTypeOK
<1> QED
  BY <1>1, <1>2

LEMMA RefuseKeeps == ASSUME PipelineIInv, RefuseStage  PROVE PipelineIInv'
  BY CallEnds DEF RefuseStage, PipelineIInv, PipelineTypeOK

(* The stage in hand is not recorded; what it writes covers nothing.       *)
LEMMA NotInRecord ==
    ASSUME PipelineIInv, pc \in {"stage", "work", "window", "publish", "record"}, ~Skips(Stage)
    PROVE  record = Missing \/ (Checkpointed /\ ~Recorded(Stage))
  BY DEF PipelineIInv, CallHolds, Skips

LEMMA BeginKeeps == ASSUME PipelineIInv, BeginStage  PROVE PipelineIInv'
<1>1. CASE Readable(Stage)
  <2>1. /\ pc = "stage" /\ ~Skips(Stage) /\ ~Refused(Stage)
        /\ made' = [made EXCEPT ![Stage] = Lineage(Stage)]
        /\ pc' = "work"
        /\ UNCHANGED <<route, source, record, returned, stops, tampers, mode, at, opened>>
    BY <1>1 DEF BeginStage, Goto
  <2>2. state' \in [Stages -> States]
        /\ \A s \in Stages : s # Stage => state'[s] = state[s]
    BY <1>1 DEF States, BeginStage, PipelineIInv, PipelineTypeOK
  <2>3. Lineage(Stage) = opened /\ Stage \in Stages /\ opened \in Versions
    BY <2>1, LineageOpened, StageFacts DEF PipelineIInv, CallHolds
  <2>4. made' \in [Stages -> Lineages] /\ made'[Stage] = opened
        /\ \A s \in Stages : s # Stage => made'[s] = made[s]
    BY <2>1, <2>3, LineagesDistinct DEF PipelineIInv, PipelineTypeOK
  <2>5. PipelineTypeOK'
    BY <2>1, <2>2, <2>4, RouteKept DEF PipelineIInv, PipelineTypeOK, Points
  <2>6. RecordCovered'
    BY <2>1, <2>2, CoveredStays, NotInRecord DEF PipelineIInv
  <2>7. Checkpointed => record.signature = opened
    <3> SUFFICES ASSUME Checkpointed, Outdated  PROVE FALSE
      BY <2>1 DEF PipelineIInv, CallHolds
    <3>1. Stage = "knn" /\ opened < source /\ opened \in Nat /\ source \in Nat
      BY <2>3, OrderFacts, LineagesDistinct DEF Outdated, Stage, PipelineIInv, PipelineTypeOK
    <3> QED
      BY <1>1, <3>1 DEF Readable, ReadsData
  <2>8. Stage' = Stage /\ Skips(Stage)' = Skips(Stage) /\ ~Recorded("fit")'
        /\ Checkpointed' = Checkpointed /\ \A s : Recorded(s)' = Recorded(s)
    BY <2>1, RouteKept DEF Stage, Skips, Recorded, Checkpointed, PipelineIInv, StagesBehind, InStages
  <2>9. StagesBehind'
    <3>1. \A j \in 1..(at - 1) : Order[j] \in Stages /\ Order[j] # Stage
      <4>1. at \in Nat /\ at \in DOMAIN Order /\ 1..(at - 1) \subseteq DOMAIN Order
        BY StageFacts DEF PipelineIInv, PipelineTypeOK
      <4>2. \A j \in 1..(at - 1) : j # at
        BY <4>1
      <4> QED
        BY <4>1, <4>2, OrderFacts DEF Stage, PipelineIInv, PipelineTypeOK
    <3>2. \A j \in 1..(at - 1) :
             /\ made'[Order[j]] = opened \/ (~Checkpointed /\ Order[j] = "membership")
             /\ Checkpointed => Recorded(Order[j])
      BY <2>1, <2>4, <3>1 DEF PipelineIInv, StagesBehind, InStages
    <3> QED
      BY <2>1, <2>4, <2>8, <3>2, RouteKept DEF StagesBehind, InStages
  <2> QED
    BY <2>1, <2>5, <2>6, <2>7, <2>9
    DEF PipelineIInv, CallHolds, FitThere, Checkpointed
<1>2. CASE ~Readable(Stage)
  BY <1>2, CallEnds DEF BeginStage, PipelineIInv, PipelineTypeOK, disk
<1> QED
  BY <1>1, <1>2

(* A step in the middle of a stage: it only writes the stage's own files.  *)
LEMMA WorkGoesOn ==
    ASSUME PipelineIInv, pc \in InStages, ~Skips(Stage), pc' \in {"work", "window", "publish", "record"},
           UNCHANGED <<route, source, made, record, returned, stops, tampers, mode, at, opened>>,
           made[Stage] = opened,
           state' \in [Stages -> States],
           Checkpointed => \A s \in Stages : s # Stage => state'[s] = state[s],
           Checkpointed => record.signature = opened,
           NEW here, here = Stage,
           pc' = "record" => here # "fit" /\ state'[here] = "done" /\ Checkpointed
    PROVE  PipelineIInv'
<1>1. PipelineTypeOK'
  BY RouteKept DEF PipelineIInv, PipelineTypeOK, Points
<1>2. RecordCovered'
  BY CoveredStays, NotInRecord DEF PipelineIInv, InStages
<1>3. Stage' = Stage /\ Skips(Stage)' = Skips(Stage) /\ Order' = Order
      /\ Checkpointed' = Checkpointed /\ \A s : Recorded(s)' = Recorded(s)
  BY RouteKept DEF Stage, Skips, Recorded, Checkpointed
<1>4. StagesBehind'
  <2>1. ~Recorded("fit")
    BY DEF PipelineIInv, StagesBehind
  <2>2. \A j \in 1..(at - 1) :
           /\ made[Order[j]] = opened \/ (~Checkpointed /\ Order[j] = "membership")
           /\ Checkpointed => Recorded(Order[j])
    BY DEF PipelineIInv, StagesBehind
  <2>3. pc' = "record" => Stage # "fit" /\ state'[Stage] = "done"
    OBVIOUS
  <2> QED
    BY <1>3, <2>1, <2>2, <2>3 DEF StagesBehind
<1>5. CallHolds'
  <2>1. pc # "idle" /\ pc # "create"
    BY DEF InStages
  <2>2. Checkpointed => record # Missing
    BY <2>1 DEF PipelineIInv, CallHolds
  <2> QED
    BY <1>3, <2>1, <2>2 DEF PipelineIInv, CallHolds
<1> QED
  BY <1>1, <1>2, <1>4, <1>5 DEF PipelineIInv, CallHolds, FitThere, InStages

(* From the first step of a stage on the record is signed for the data.    *)
LEMMA WorkSigned ==
    ASSUME PipelineIInv, pc \in {"work", "window", "publish", "record", "finalize", "unlink", "retire"},
           Checkpointed
    PROVE  record # Missing /\ record.signature = opened
  BY DEF PipelineIInv, CallHolds, Outdated

LEMMA WindowKeeps == ASSUME PipelineIInv, OpenWindow \/ CloseWindow  PROVE PipelineIInv'
<1>1. /\ pc \in {"work", "window"} /\ pc' \in {"work", "window"}
      /\ \E now \in {"torn", "begun"} : state' = [state EXCEPT ![Stage] = now]
      /\ UNCHANGED <<route, source, made, record, returned, stops, tampers, mode, at, opened>>
  BY DEF OpenWindow, CloseWindow, Goto
<1>2. made[Stage] = opened /\ ~Skips(Stage)
  BY <1>1 DEF PipelineIInv, StagesBehind, InStages
<1>3. /\ state' \in [Stages -> States]
      /\ \A s \in Stages : s # Stage => state'[s] = state[s]
  BY <1>1 DEF PipelineIInv, PipelineTypeOK, States
<1> QED
  BY <1>1, <1>2, <1>3, WorkGoesOn, WorkSigned DEF InStages

LEMMA PublishKeeps == ASSUME PipelineIInv, PublishStage  PROVE PipelineIInv'
<1>1. CASE Readable(Stage)
  <2>1. /\ pc = "work" /\ pc' = "publish"
        /\ state' = [s \in Stages |-> IF s \in Consumed THEN "none"
                                      ELSE IF s = Stage THEN "naming" ELSE state[s]]
        /\ UNCHANGED <<route, source, made, record, returned, stops, tampers, mode, at, opened>>
    BY <1>1 DEF PublishStage, Goto
  <2>2. made[Stage] = opened /\ ~Skips(Stage)
    BY <2>1 DEF PipelineIInv, StagesBehind, InStages
  <2>3. state' \in [Stages -> States]
    BY <2>1 DEF States, PipelineIInv, PipelineTypeOK
  <2>4. Checkpointed => \A s \in Stages : s # Stage => state'[s] = state[s]
    BY <2>1 DEF Consumed
  <2> QED
    BY <2>1, <2>2, <2>3, <2>4, WorkGoesOn, WorkSigned DEF InStages
<1>2. CASE ~Readable(Stage)
  BY <1>2, CallEnds DEF PublishStage, PipelineIInv, PipelineTypeOK, disk
<1> QED
  BY <1>1, <1>2

LEMMA ReturnKeeps == ASSUME PipelineIInv, ReturnStage  PROVE PipelineIInv'
<1>1. /\ pc = "publish" /\ state' = [state EXCEPT ![Stage] = "done"]
      /\ UNCHANGED <<route, source, made, record, returned, stops, tampers, mode, opened>>
  BY DEF ReturnStage, Goto, NextStage
<1>2. made[Stage] = opened /\ ~Skips(Stage) /\ ~Recorded("fit")
  BY <1>1 DEF PipelineIInv, StagesBehind, InStages
<1>3. state' \in [Stages -> States]
      /\ state'[Stage] = "done"
      /\ \A s \in Stages : s # Stage => state'[s] = state[s]
  BY <1>1, StageFacts DEF States, PipelineIInv, PipelineTypeOK
<1>4. CASE Checkpointed /\ Stage # "fit"
  <2>1. pc' = "record" /\ UNCHANGED at
    BY <1>4 DEF ReturnStage, Goto
  <2> QED
    BY <1>1, <1>2, <1>3, <1>4, <2>1, WorkGoesOn, WorkSigned DEF InStages
<1>5. CASE ~Checkpointed /\ Stage # "fit"
  <2>1. NextStage
    BY <1>5 DEF ReturnStage
  <2>2. record = Missing
    BY <1>1, <1>5 DEF PipelineIInv, CallHolds
  <2>3. StagesBehind' /\ at' \in DOMAIN Order'
    <3>1. PICK here : here = Stage
      OBVIOUS
    <3>2. (\A s : ~Recorded(s)') /\ (\A s : ~Recorded(s))
      BY <1>1, <2>2 DEF Recorded
    <3>3. made[here] = opened
      BY <1>2, <3>1
    <3> QED
      BY <1>1, <1>5, <2>1, <3>1, <3>2, <3>3, StageBehind DEF PipelineIInv, InStages
  <2>4. PipelineTypeOK'
    BY <1>1, <1>3, <2>1, <2>3, RouteKept DEF NextStage, PipelineIInv, PipelineTypeOK, Points
  <2> QED
    BY <1>1, <1>5, <2>1, <2>2, <2>3, <2>4
    DEF NextStage, PipelineIInv, CallHolds, FitThere, RecordCovered, Checkpointed
<1>6. CASE Stage = "fit"
  <2>1. UNCHANGED at /\ pc' = IF Checkpointed THEN "finalize" ELSE "retire"
    BY <1>6 DEF ReturnStage, Goto
  <2>2. state'["fit"] = "done" /\ made["fit"] = opened
    BY <1>2, <1>3, <1>6
  <2>3. Checkpointed => \A j \in 1..(Len(Order) - 1) : Recorded(Order[j])
    <3>1. at = Len(Order)
      BY <1>6, StageFacts DEF PipelineIInv
    <3> QED
      BY <1>1, <3>1 DEF PipelineIInv, StagesBehind, InStages
  <2>4. PipelineTypeOK'
    BY <1>1, <1>3, <2>1, RouteKept DEF PipelineIInv, PipelineTypeOK, Points
  <2>5. RecordCovered'
    BY <1>1, <1>3, <2>1, CoveredStays, NotInRecord DEF PipelineIInv
  <2>6. Order' = Order /\ Checkpointed' = Checkpointed /\ \A s : Recorded(s)' = Recorded(s)
    BY <1>1, RouteKept DEF Recorded, Checkpointed
  <2>7. FitThere' /\ StagesBehind'
    BY <1>1, <2>1, <2>2, <2>3, <2>6 DEF FitThere, StagesBehind, InStages, PipelineIInv, CallHolds
  <2>8. CallHolds'
    BY <1>1, <2>1, <2>6, WorkSigned DEF PipelineIInv, CallHolds
  <2> QED
    BY <2>4, <2>5, <2>7, <2>8 DEF PipelineIInv
<1> QED
  BY <1>4, <1>5, <1>6

LEMMA RecordStageKeeps == ASSUME PipelineIInv, RecordStage  PROVE PipelineIInv'
<1>1. /\ pc = "record" /\ record' = [record EXCEPT !.stages[Stage] = made[Stage]]
      /\ NextStage
      /\ UNCHANGED <<route, source, state, made, returned, stops, tampers>>
  BY DEF RecordStage
<1>2. /\ Checkpointed /\ record # Missing /\ record.signature = opened
      /\ made[Stage] = opened /\ opened \in Versions /\ Stage # "fit" /\ state[Stage] = "done"
      /\ ~Skips(Stage) /\ ~Recorded("fit") /\ Stage \in Stages
      /\ \A j \in 1..(at - 1) : Recorded(Order[j])
  BY <1>1, WorkSigned, StageFacts DEF PipelineIInv, CallHolds, StagesBehind, InStages
<1>3. PICK here : here = Stage
  OBVIOUS
<1>4. /\ record' \in RecordsOf(Stages) /\ record' # Missing
      /\ record'.signature = opened /\ record'.stages[here] = opened
      /\ \A t \in Stages : t # here => record'.stages[t] = record.stages[t]
  BY <1>1, <1>2, <1>3, RecordGrows, LineagesDistinct DEF PipelineIInv
<1>5. /\ \A s \in Stages : Recorded(s)' <=> Recorded(s) \/ s = here
      /\ ~Recorded("fit")'
  <2>1. Missing # opened /\ here \in Stages /\ here # "fit"
    BY <1>2, <1>3, LineagesDistinct
  <2>2. ASSUME NEW s \in Stages PROVE Recorded(s)' <=> Recorded(s) \/ s = here
    BY <1>2, <1>4, <2>1 DEF Recorded
  <2>3. "fit" \in Stages
    BY OrderFacts DEF PipelineIInv, PipelineTypeOK
  <2> QED
    BY <1>2, <2>1, <2>2, <2>3
<1>6. StagesBehind' /\ at' \in DOMAIN Order'
  BY <1>1, <1>2, <1>3, <1>5, StageBehind DEF PipelineIInv, InStages
<1>7. PipelineTypeOK'
  BY <1>1, <1>4, <1>6, RouteKept DEF NextStage, PipelineIInv, PipelineTypeOK, Points
<1>8. RecordCovered'
  <2>1. ASSUME NEW i \in DOMAIN Order, NEW s, s = Order[i], Recorded(s)'
        PROVE  /\ \A j \in 1..(i - 1) : \A t : t = Order[j] => Recorded(t)'
               /\ record'.stages[s] = opened
               /\ state[s] = "done"
    <3>1. s \in Stages /\ 1..(i - 1) \subseteq DOMAIN Order
      BY <2>1, OrderFacts DEF PipelineIInv, PipelineTypeOK
    <3>2. CASE s = here
      <4>1. i = at
        BY <1>3, <2>1, <3>2, OrderFacts DEF Stage, PipelineIInv, PipelineTypeOK
      <4>2. \A j \in 1..(i - 1) : Recorded(Order[j]) /\ Order[j] \in Stages
        BY <1>2, <3>1, <4>1, OrderFacts DEF PipelineIInv, PipelineTypeOK
      <4> QED
        BY <1>2, <1>3, <1>4, <1>5, <3>2, <4>2
    <3>3. CASE s # here
      <4>1. Recorded(s)
        BY <1>5, <2>1, <3>1, <3>3
      <4>2. /\ \A j \in 1..(i - 1) : Recorded(Order[j]) /\ Order[j] \in Stages
            /\ record.stages[s] = record.signature /\ state[s] = "done"
        BY <1>2, <2>1, <3>1, <4>1, OrderFacts DEF PipelineIInv, PipelineTypeOK, RecordCovered
      <4> QED
        BY <1>2, <1>4, <1>5, <3>1, <3>3, <4>2
    <3> QED
      BY <3>2, <3>3
  <2> QED
    BY <1>1, <1>4, <1>5, <2>1, RouteKept DEF RecordCovered
<1> QED
  BY <1>1, <1>2, <1>4, <1>6, <1>7, <1>8
  DEF NextStage, PipelineIInv, CallHolds, FitThere, Checkpointed

LEMMA RecordFitKeeps == ASSUME PipelineIInv, RecordFit  PROVE PipelineIInv'
<1>1. /\ pc = "finalize" /\ pc' = "unlink"
      /\ record' = [record EXCEPT !.stages["fit"] = FitRecord]
      /\ UNCHANGED <<route, source, state, made, returned, stops, tampers, mode, at, opened>>
  BY DEF RecordFit, Goto
<1>2. /\ Checkpointed /\ record # Missing /\ record.signature = opened /\ opened \in Versions
      /\ state["fit"] = "done" /\ made["fit"] = opened
      /\ \A j \in 1..(Len(Order) - 1) : Recorded(Order[j])
      /\ "fit" \in Stages /\ Len(Order) \in DOMAIN Order /\ Order[Len(Order)] = "fit"
  BY <1>1, WorkSigned, OrderFacts DEF PipelineIInv, PipelineTypeOK, CallHolds, FitThere
<1>3. FitRecord = opened
  BY <1>2 DEF FitRecord, PipelineIInv, RecordCovered
<1>4. /\ record' \in RecordsOf(Stages) /\ record' # Missing
      /\ record'.signature = opened /\ record'.stages["fit"] = opened
      /\ \A t \in Stages : t # "fit" => record'.stages[t] = record.stages[t]
  BY <1>1, <1>2, <1>3, RecordGrows, LineagesDistinct DEF PipelineIInv
<1>5. \A s \in Stages : Recorded(s)' <=> Recorded(s) \/ s = "fit"
  BY <1>2, <1>4, LineagesDistinct DEF Recorded
<1>6. ASSUME NEW s \in Stages
      PROVE  Recorded(s)' /\ record'.stages[s] = opened
  <2>1. PICK i \in DOMAIN Order : s = Order[i]
    BY OrderFacts DEF PipelineIInv, PipelineTypeOK
  <2>2. CASE i = Len(Order)
    BY <1>2, <1>4, <1>5, <2>1, <2>2
  <2>3. CASE i # Len(Order)
    <3>1. i \in 1..(Len(Order) - 1) /\ s # "fit"
      <4>1. \A j \in DOMAIN Order : Order[j] = "fit" <=> j = Len(Order)
        BY OrderFacts DEF PipelineIInv, PipelineTypeOK
      <4>2. Len(Order) \in Nat /\ DOMAIN Order = 1..Len(Order)
        BY OrderFacts DEF PipelineIInv, PipelineTypeOK
      <4> QED
        BY <2>1, <2>3, <4>1, <4>2
    <3>2. Recorded(s)
      BY <1>2, <2>1, <3>1
    <3>3. record.stages[s] = record.signature
      BY <1>2, <2>1, <3>2 DEF PipelineIInv, RecordCovered
    <3> QED
      BY <1>2, <1>4, <1>5, <3>1, <3>2, <3>3
  <2> QED
    BY <2>2, <2>3
<1>7. RecordCovered'
  <2>1. ASSUME NEW i \in DOMAIN Order
        PROVE  /\ \A j \in 1..(i - 1) : \A t : t = Order[j] => Recorded(t)'
               /\ record'.stages[Order[i]] = opened
    <3>1. Order[i] \in Stages /\ \A j \in 1..(i - 1) : Order[j] \in Stages
      <4>1. /\ \A j \in DOMAIN Order : Order[j] \in Stages
            /\ DOMAIN Order = 1..Len(Order) /\ Len(Order) \in Nat
        BY OrderFacts DEF PipelineIInv, PipelineTypeOK
      <4>2. \A j \in 1..(i - 1) : j \in DOMAIN Order
        BY <4>1
      <4> QED
        BY <4>1, <4>2
    <3> QED
      BY <1>6, <3>1
  <2>2. Recorded("fit")'
    BY <1>2, <1>6
  <2> QED
    BY <1>1, <1>2, <1>4, <2>1, <2>2, RouteKept DEF RecordCovered
<1>8. PipelineTypeOK'
  BY <1>1, <1>4, RouteKept DEF PipelineIInv, PipelineTypeOK, Points
<1>9. Recorded("fit")'
  BY <1>2, <1>6
<1> QED
  BY <1>1, <1>2, <1>4, <1>7, <1>8, <1>9
  DEF PipelineIInv, CallHolds, StagesBehind, FitThere, InStages, Checkpointed

(* The files of the search go only when the record names the fit.          *)
LEMMA UnlinkKeeps == ASSUME PipelineIInv, UnlinkKnn \/ KnnUnlinked  PROVE PipelineIInv'
<1>1. /\ pc = "unlink" /\ pc' \in {"unlink", "retire"}
      /\ UNCHANGED <<route, source, made, record, returned, stops, tampers, mode, at, opened>>
  BY DEF UnlinkKnn, KnnUnlinked, Goto, process, disk
<1>2. state' \in [Stages -> States]
      /\ state'["fit"] = state["fit"]
  <2>1. CASE UnlinkKnn
    <3>1. PICK s \in KnnStages :
             state' = [state EXCEPT ![s] = IF s = "knn" /\ @ # "cut" THEN "cut" ELSE "none"]
      BY <2>1 DEF UnlinkKnn
    <3>2. s # "fit" /\ s \in Stages /\ "fit" \in Stages
      BY OrderFacts DEF KnnStages, PipelineIInv, PipelineTypeOK
    <3> QED
      BY <3>1, <3>2 DEF States, PipelineIInv, PipelineTypeOK
  <2>2. CASE KnnUnlinked
    BY <2>2 DEF KnnUnlinked, disk, PipelineIInv, PipelineTypeOK
  <2> QED
    BY <2>1, <2>2
<1>3. Recorded("fit") /\ Checkpointed
  BY <1>1 DEF PipelineIInv, FitThere, CallHolds
<1>4. RecordCovered'
  BY <1>1, <1>2, <1>3, CoveredStays DEF PipelineIInv
<1>5. PipelineTypeOK'
  BY <1>1, <1>2, RouteKept DEF PipelineIInv, PipelineTypeOK, Points
<1>6. Recorded("fit")' /\ Checkpointed'
  BY <1>1, <1>3 DEF Recorded, Checkpointed
<1> QED
  BY <1>1, <1>2, <1>3, <1>4, <1>5, <1>6
  DEF PipelineIInv, CallHolds, StagesBehind, FitThere, InStages, Outdated

(* What is returned: the recorded fit, or the one just made.               *)
LEMMA ReturnedVersion ==
    ASSUME PipelineIInv, ReturnFit
    PROVE  /\ returned' \in Versions /\ state["fit"] = "done" /\ returned = Missing
           /\ Checkpointed => record # Missing /\ returned' = record.signature
<1>1. pc = "retire" /\ opened \in Versions /\ returned = Missing
  BY DEF ReturnFit, PipelineIInv, CallHolds
<1>2. CASE Checkpointed
  <2>1. Recorded("fit") /\ record # Missing /\ record.signature = opened
        /\ Len(Order) \in DOMAIN Order /\ Order[Len(Order)] = "fit"
    BY <1>1, <1>2, WorkSigned, OrderFacts DEF PipelineIInv, PipelineTypeOK, FitThere
  <2> QED
    BY <1>1, <1>2, <2>1 DEF ReturnFit, PipelineIInv, RecordCovered
<1>3. CASE ~Checkpointed
  BY <1>1, <1>3 DEF ReturnFit, PipelineIInv, FitThere
<1> QED
  BY <1>2, <1>3

LEMMA ReturnFitKeeps == ASSUME PipelineIInv, ReturnFit  PROVE PipelineIInv'
<1>1. record' = Missing /\ EndCall /\ UNCHANGED <<route, source, state, made, stops, tampers>>
  BY DEF ReturnFit
<1>2. returned' \in Versions /\ state["fit"] = "done"
  BY ReturnedVersion
<1>3. PipelineTypeOK'
  BY <1>1, <1>2, RouteKept, OrderFacts DEF EndCall, PipelineIInv, PipelineTypeOK, Points, Modes
<1> QED
  BY <1>1, <1>2, <1>3
  DEF EndCall, PipelineIInv, CallHolds, StagesBehind, FitThere, InStages, RecordCovered

LEMMA EnvironmentKeeps ==
    ASSUME PipelineIInv, Interrupt \/ ChangeSource \/ Tamper
    PROVE  PipelineIInv'
<1>1. CASE Interrupt
  <2>1. <<pc, Stage>> \in Points \X AllStages
    BY StageFacts DEF PipelineIInv, PipelineTypeOK
  <2>2. stops' \in Seq(Points \X AllStages)
    BY <1>1, <2>1 DEF Interrupt, PipelineIInv, PipelineTypeOK
  <2> QED
    BY <1>1, <2>2, CallEnds DEF Interrupt
<1>2. CASE ChangeSource
  <2>1. /\ source' = source + 1 /\ source' \in Versions /\ source \in Nat /\ Versions \subseteq Nat
        /\ UNCHANGED <<route, state, made, record, returned, stops, tampers, pc, mode, at, opened>>
    BY <1>2, BoundAssumption
    DEF ChangeSource, disk, process, Versions, PipelineIInv, PipelineTypeOK
  <2>2. PipelineTypeOK'
    BY <2>1, RouteKept DEF PipelineIInv, PipelineTypeOK
  <2>3. RecordCovered'
    BY <2>1, CoveredStays DEF PipelineIInv
  <2>4. Order' = Order /\ Stages' = Stages /\ Checkpointed' = Checkpointed /\ Stage' = Stage
        /\ Skips(Stage)' = Skips(Stage) /\ \A s : Recorded(s)' = Recorded(s)
    BY <2>1, RouteKept DEF Checkpointed, Stage, Skips, Recorded
  <2>5. CallHolds'
    <3>1. pc # "idle" => opened \in Versions /\ opened <= source' /\ opened \in Nat
      <4> SUFFICES ASSUME pc # "idle"
                   PROVE  opened \in Versions /\ opened <= source' /\ opened \in Nat
        OBVIOUS
      <4>1. opened \in Versions /\ opened <= source
        BY DEF PipelineIInv, CallHolds
      <4>2. opened \in Nat
        BY <2>1, <4>1
      <4> QED
        BY <2>1, <4>1, <4>2
    <3>2. Outdated => Outdated'
      BY <2>1, <2>4, <3>1 DEF Outdated
    <3> QED
      BY <2>1, <2>4, <3>1, <3>2 DEF PipelineIInv, CallHolds
  <2>6. StagesBehind' /\ FitThere'
    BY <2>1, <2>4 DEF PipelineIInv, StagesBehind, FitThere
  <2> QED
    BY <2>2, <2>3, <2>5, <2>6 DEF PipelineIInv
<1>3. CASE Tamper
  <2>1. /\ pc = "idle" /\ tampers' = tampers + 1
        /\ UNCHANGED <<route, source, state, record, returned, stops, pc, mode, at, opened>>
    BY <1>3 DEF Tamper, process
  <2>2. made' \in [Stages -> Lineages]
    BY <1>3, LineagesDistinct DEF Tamper, PipelineIInv, PipelineTypeOK
  <2>3. PipelineTypeOK'
    BY <2>1, <2>2, RouteKept DEF PipelineIInv, PipelineTypeOK
  <2>4. RecordCovered'
    BY <2>1, CoveredStays DEF PipelineIInv
  <2> QED
    BY <2>1, <2>3, <2>4, RouteKept
    DEF PipelineIInv, CallHolds, StagesBehind, FitThere, InStages
<1> QED
  BY <1>1, <1>2, <1>3

LEMMA PipelineNextKeeps == PipelineIInv /\ [Next]_vars => PipelineIInv'
<1> SUFFICES ASSUME PipelineIInv, [Next]_vars  PROVE PipelineIInv'
  OBVIOUS
<1>1. CASE UNCHANGED vars
  <2>1. UNCHANGED <<route, source, state, made, record, returned, stops, tampers, pc, mode, at, opened>>
    BY <1>1 DEF vars, disk, process
  <2>2. Order' = Order /\ Stages' = Stages /\ Checkpointed' = Checkpointed /\ Stage' = Stage
        /\ Skips(Stage)' = Skips(Stage) /\ Outdated' = Outdated
        /\ \A s : Recorded(s)' = Recorded(s)
    BY <2>1, RouteKept DEF Checkpointed, Stage, Skips, Recorded, Outdated
  <2>3. PipelineTypeOK' /\ RecordCovered'
    BY <2>1, <2>2, CoveredStays DEF PipelineIInv, PipelineTypeOK
  <2> QED
    BY <2>1, <2>2, <2>3 DEF PipelineIInv, CallHolds, StagesBehind, FitThere
<1>2. CASE \E m \in Modes : Start(m)
  BY <1>2, StartKeeps
<1>3. CASE Step
  BY <1>3, CreateKeeps, SkipKeeps, RefuseKeeps, BeginKeeps, WindowKeeps, PublishKeeps,
     ReturnKeeps, RecordStageKeeps, RecordFitKeeps, UnlinkKeeps, ReturnFitKeeps
  DEF Step
<1> QED
  BY <1>1, <1>2, <1>3, EnvironmentKeeps DEF Next

LEMMA PipelineInvariant == Spec => []PipelineIInv
  BY PipelineStarts, PipelineNextKeeps, PTL DEF Spec

(* Every value has the shape its reader expects.                           *)
THEOREM PipelineTyped == Spec => []PipelineTypeOK
  BY PipelineInvariant, PTL DEF PipelineIInv

(* What stem.pipeline.rds names as completed is on disk, from the data it  *)
(* is signed for, in the order of the stages.                              *)
THEOREM RecordNeverAhead == Spec => []RecordCovered
  BY PipelineInvariant, PTL DEF PipelineIInv

(* The fit that is returned comes from one version of the data.  It is the *)
(* type of returned, which holds because FitThere gives the fit its        *)
(* version when the call ends.                                             *)
THEOREM FitOfOneVersion == Spec => []OneLineage
<1>1. PipelineIInv => OneLineage
  BY DEF PipelineIInv, PipelineTypeOK, OneLineage
<1> QED
  BY <1>1, PipelineInvariant, PTL

-----------------------------------------------------------------------------
(* The record as a committed log.                                          *)

(* The recorded stages are the first k. *)
FirstRecorded(k) ==
    k \in 0..Len(Order) /\ \A i \in DOMAIN Order : Recorded(Order[i]) <=> i <= k

LEMMA PrefixRecorded ==
    ASSUME PipelineIInv, record # Missing
    PROVE  \E k \in Nat : FirstRecorded(k)
<1>1. /\ \A i \in DOMAIN Order : Recorded(Order[i]) => \A j \in 1..(i - 1) : Recorded(Order[j])
      /\ DOMAIN Order = 1..Len(Order) /\ Len(Order) \in {4, 5}
  BY OrderFacts DEF PipelineIInv, PipelineTypeOK, RecordCovered
<1>2. ASSUME NEW k \in 1..4, k <= Len(Order), Recorded(Order[k]),
             k = Len(Order) \/ ~Recorded(Order[k + 1])
      PROVE  FirstRecorded(k)
  <2>1. PICK n \in Nat : n = Len(Order) /\ DOMAIN Order = 1..n
    BY <1>1
  <2>2. k \in Nat /\ k >= 1 /\ k <= n /\ k \in 1..n
    BY <1>2, <2>1
  <2>3. ASSUME NEW i \in 1..n, i <= k  PROVE Recorded(Order[i])
    <3>1. i = k \/ i \in 1..(k - 1)
      BY <2>2, <2>3
    <3> QED
      BY <1>1, <1>2, <2>1, <2>2, <3>1
  <2>4. ASSUME NEW i \in 1..n, ~(i <= k)  PROVE ~Recorded(Order[i])
    <3>1. k # n /\ (i = k + 1 \/ k + 1 \in 1..(i - 1))
      BY <2>2, <2>4
    <3> QED
      BY <1>1, <1>2, <2>1, <3>1
  <2> QED
    BY <2>1, <2>2, <2>3, <2>4 DEF FirstRecorded
<1>3. CASE ~Recorded(Order[1])
  <2>1. FirstRecorded(0)
    BY <1>1, <1>3 DEF FirstRecorded
  <2> QED
    BY <2>1
<1>4. CASE Len(Order) = 5 /\ Recorded(Order[5])
  <2>1. FirstRecorded(5)
    BY <1>1, <1>4 DEF FirstRecorded
  <2> QED
    BY <2>1
<1>5. CASE Recorded(Order[1]) /\ ~(Len(Order) = 5 /\ Recorded(Order[5]))
  <2>1. \E k \in 1..4 : FirstRecorded(k)
    <3>1. Recorded(Order[4]) => FirstRecorded(4)
      BY <1>1, <1>2, <1>5
    <3>2. Recorded(Order[3]) /\ ~Recorded(Order[4]) => FirstRecorded(3)
      BY <1>1, <1>2
    <3>3. Recorded(Order[2]) /\ ~Recorded(Order[3]) => FirstRecorded(2)
      BY <1>1, <1>2
    <3>4. Recorded(Order[1]) /\ ~Recorded(Order[2]) => FirstRecorded(1)
      BY <1>1, <1>2
    <3> QED
      BY <1>5, <3>1, <3>2, <3>3, <3>4
  <2> QED
    BY <2>1
<1> QED
  BY <1>3, <1>4, <1>5

LEMMA CountRecorded ==
    ASSUME PipelineTypeOK, NEW k \in Nat, FirstRecorded(k)
    PROVE  Cardinality({s \in Stages : Recorded(s)}) = k
<1> DEFINE f == [i \in 1..k |-> Order[i]]
           named == {s \in Stages : Recorded(s)}
<1>1. \A i \in 1..k : i \in DOMAIN Order /\ Order[i] \in named
  <2> TAKE i \in 1..k
  <2>1. i \in DOMAIN Order /\ Recorded(Order[i])
    BY OrderFacts DEF FirstRecorded, PipelineTypeOK
  <2>2. Order[i] \in Stages
    BY <2>1, OrderFacts DEF PipelineTypeOK
  <2> QED
    BY <2>1, <2>2
<1>2. \A i, j \in 1..k : f[i] = f[j] => i = j
  BY <1>1, OrderFacts DEF PipelineTypeOK
<1>3. \A s \in named : \E i \in 1..k : f[i] = s
  <2> TAKE s \in named
  <2>1. PICK i \in DOMAIN Order : s = Order[i]
    BY OrderFacts DEF PipelineTypeOK
  <2>2. i \in 1..k
    BY <2>1, OrderFacts DEF FirstRecorded, PipelineTypeOK
  <2> QED
    BY <2>1, <2>2
<1>4. f \in [1..k -> named]
  BY <1>1
<1>5. f \in Bijection(1..k, named)
  BY <1>2, <1>3, <1>4 DEF Bijection, Injection, Surjection, IsInjective
<1>6. ExistsBijection(1..k, named)
  BY <1>5 DEF ExistsBijection
<1> QED
  BY <1>6, FS_CountingElements

(* A log of k stages, all of version v. *)
OfVersion(v, k) == [i \in 1..k |-> v]

(* Before the end the log is the recorded stages, all of one version. *)
LogShape ==
    returned = Missing /\ record # Missing =>
        \E k \in Nat : FirstRecorded(k) /\ Log = OfVersion(record.signature, k)

LEMMA LogIs == PipelineIInv => LogShape
<1> SUFFICES ASSUME PipelineIInv, returned = Missing, record # Missing
             PROVE  \E k \in Nat : /\ FirstRecorded(k)
                                   /\ Log = OfVersion(record.signature, k)
  BY DEF LogShape
<1>1. PICK k \in Nat : FirstRecorded(k)
  BY PrefixRecorded
<1>2. Log = [i \in 1..k |-> record.stages[Order[i]]]
  BY <1>1, CountRecorded DEF Log, PipelineIInv
<1>3. \A i \in 1..k : record.stages[Order[i]] = record.signature
  <2> TAKE i \in 1..k
  <2>1. i \in DOMAIN Order /\ Order[i] \in Stages
    BY <1>1, OrderFacts DEF FirstRecorded, PipelineIInv, PipelineTypeOK
  <2>2. Recorded(Order[i])
    BY <1>1, <2>1 DEF FirstRecorded
  <2>3. record # Missing
    OBVIOUS
  <2> QED
    BY <2>1, <2>2, <2>3 DEF PipelineIInv, RecordCovered, Recorded
<1>4. Log = OfVersion(record.signature, k)
  BY <1>2, <1>3 DEF OfVersion
<1> QED
  BY <1>1, <1>4

(* A log of k stages of one version is a prefix of one of more.            *)
LEMMA SameVersionPrefix ==
    ASSUME NEW k \in Nat, NEW n \in Nat, k <= n, NEW v \in Versions
    PROVE  /\ CL!IsPrefix(OfVersion(v, k), OfVersion(v, n))
           /\ Len(OfVersion(v, n)) = n
           /\ OneVersion(OfVersion(v, n))
<1> DEFINE s == [i \in 1..k |-> v]  t == [i \in 1..n |-> v]
<1>1. Len(s) = k /\ Len(t) = n
  OBVIOUS
<1>2. SubSeq(s, 1, k) = [i \in 1..k |-> v] /\ SubSeq(t, 1, k) = [i \in 1..k |-> v]
  OBVIOUS
<1>3. CL!IsPrefix(s, t)
  <2> HIDE DEF s, t
  <2> QED
    BY <1>1, <1>2 DEF CL!IsPrefix
<1>4. OneVersion(t)
  BY DEF OneVersion
<1>5. s = OfVersion(v, k) /\ t = OfVersion(v, n)
  BY DEF OfVersion
<1> HIDE DEF s, t
<1> QED
  BY <1>1, <1>3, <1>4, <1>5

LEMMA SameRecordLog ==
    ASSUME UNCHANGED <<route, record, returned>>
    PROVE  UNCHANGED <<Log, NStages, Finished>>
  BY RouteKept DEF Log, NStages, Finished, Recorded

(* Recording stages commits them.                                          *)
LEMMA RecordCommits ==
    ASSUME PipelineIInv, PipelineIInv', UNCHANGED <<route, returned>>, returned = Missing,
           record # Missing, record' # Missing, record'.signature = record.signature,
           \A s \in Stages : Recorded(s) => Recorded(s)'
    PROVE  CL!Next
<1>1. PICK k \in Nat : FirstRecorded(k) /\ Log = OfVersion(record.signature, k)
  BY LogIs DEF LogShape
<1>2. PICK n \in Nat : FirstRecorded(n)' /\ Log' = OfVersion(record'.signature, n)
  <2>1. LogShape'
    BY LogIs, PTL
  <2> QED
    BY <2>1 DEF LogShape
<1>3. k <= n /\ n <= Len(Order)
  <2>1. /\ \A i \in DOMAIN Order : Order[i] \in Stages
        /\ DOMAIN Order = 1..Len(Order) /\ Len(Order) \in Nat
    BY OrderFacts DEF PipelineIInv, PipelineTypeOK
  <2>2. \A s : Recorded(s)' <=> record'.stages[s] # Missing
    BY DEF Recorded
  <2>3. n \in 0..Len(Order) /\ \A i \in DOMAIN Order : record'.stages[Order[i]] # Missing <=> i <= n
    BY <1>2, <2>2, RouteKept DEF FirstRecorded, Recorded
  <2>4. k \in 0..Len(Order) /\ \A i \in DOMAIN Order : Recorded(Order[i]) <=> i <= k
    BY <1>1 DEF FirstRecorded
  <2>5. CASE k = 0
    BY <2>3, <2>5
  <2>6. CASE k # 0
    <3>1. k \in DOMAIN Order /\ Recorded(Order[k])
      BY <2>1, <2>4, <2>6
    <3>2. record'.stages[Order[k]] # Missing
      BY <2>1, <2>2, <3>1
    <3> QED
      BY <2>1, <2>3, <3>1, <3>2
  <2> QED
    BY <2>5, <2>6
<1>4. record.signature \in Versions
  BY RecordTyped DEF PipelineIInv
<1>5. /\ CL!IsPrefix(Log, Log') /\ Len(Log') <= NStages /\ OneVersion(Log')
  <2>1. PICK v \in Versions : v = record.signature
    BY <1>4
  <2>2. Log = OfVersion(v, k) /\ Log' = OfVersion(v, n)
    BY <1>1, <1>2, <2>1
  <2>3. /\ CL!IsPrefix(OfVersion(v, k), OfVersion(v, n))
        /\ Len(OfVersion(v, n)) = n
        /\ OneVersion(OfVersion(v, n))
    BY <1>3, SameVersionPrefix
  <2>4. CL!IsPrefix(Log, Log')
    BY <2>2, <2>3
  <2>5. OneVersion(Log')
    BY <2>2, <2>3
  <2> QED
    BY <1>3, <2>2, <2>3, <2>4, <2>5 DEF NStages
<1>6. NStages' = NStages /\ ~Finished /\ Finished' = FALSE
  BY RouteKept DEF NStages, Finished
<1> QED
  BY <1>5, <1>6 DEF CL!Next, CL!Commit

(* Returning the fit publishes the log.                                    *)
LEMMA ReturnPublishes ==
    ASSUME PipelineIInv, ReturnFit
    PROVE  CL!Next
<1>1. returned' \in Versions /\ returned' # Missing /\ returned = Missing /\ UNCHANGED route
  BY ReturnedVersion, LineagesDistinct DEF ReturnFit
<1>2. Len(Order) \in Nat /\ DOMAIN Order = 1..Len(Order)
  BY OrderFacts DEF PipelineIInv, PipelineTypeOK
<1>3. Log' = OfVersion(returned', Len(Order))
  BY <1>1, <1>2, RouteKept DEF Log, OfVersion
<1>4. \E k \in Nat : k <= Len(Order) /\ Log = OfVersion(returned', k)
  <2>1. CASE Checkpointed
    <3>1. record # Missing /\ returned' = record.signature
      BY <2>1, ReturnedVersion
    <3>2. PICK k \in Nat : FirstRecorded(k) /\ Log = OfVersion(record.signature, k)
      BY <1>1, <3>1, LogIs DEF LogShape
    <3> QED
      BY <3>1, <3>2 DEF FirstRecorded
  <2>2. CASE ~Checkpointed
    <3>1. record = Missing
      BY <2>2 DEF ReturnFit, PipelineIInv, CallHolds
    <3>2. Log = OfVersion(returned', 0)
      BY <1>1, <3>1 DEF Log, OfVersion
    <3> QED
      BY <1>2, <3>2
  <2> QED
    BY <2>1, <2>2
<1>5. CL!IsPrefix(Log, Log') /\ Len(Log') = NStages /\ OneVersion(Log')
  <2>1. PICK v \in Versions : v = returned'
    BY <1>1
  <2>2. PICK n \in Nat : n = Len(Order)
    BY <1>2
  <2>3. PICK k \in Nat : k <= n /\ Log = OfVersion(v, k)
    BY <1>4, <2>1, <2>2
  <2>4. Log' = OfVersion(v, n) /\ NStages = n
    BY <1>3, <2>1, <2>2 DEF NStages
  <2>5. CL!IsPrefix(OfVersion(v, k), OfVersion(v, n)) /\ Len(OfVersion(v, n)) = n
        /\ OneVersion(OfVersion(v, n))
    BY <2>3, SameVersionPrefix
  <2> QED
    BY <2>3, <2>4, <2>5
<1>6. NStages' = NStages /\ ~Finished /\ Finished' = TRUE
  BY <1>1, RouteKept DEF NStages, Finished
<1> QED
  BY <1>5, <1>6 DEF CL!Next, CL!Publish

LEMMA PipelineStepLogs ==
    PipelineIInv /\ PipelineIInv' /\ [Next]_vars => [CL!Next]_CL!vars
<1> SUFFICES ASSUME PipelineIInv, PipelineIInv', [Next]_vars
             PROVE  CL!Next \/ UNCHANGED <<Log, NStages, Finished>>
  BY DEF CL!vars
<1>1. CASE UNCHANGED vars
  BY <1>1, SameRecordLog DEF vars, disk
<1>2. ASSUME NEW m \in Modes, Start(m)  PROVE UNCHANGED <<Log, NStages, Finished>>
  BY <1>2, SameRecordLog DEF Start, disk
<1>3. CASE CreateRecord
  <2>1. /\ record = Missing /\ returned = Missing /\ UNCHANGED <<route, returned>>
        /\ record' = [signature |-> source, stages |-> [s \in Stages |-> Missing]]
    BY <1>3 DEF CreateRecord, PipelineIInv, CallHolds
  <2>2. Log = <<>>
    BY <2>1 DEF Log
  <2>3. Log' = <<>>
    <3>1. \A s \in Stages : ~Recorded(s)'
      BY <2>1 DEF Recorded
    <3>2. 1 \in DOMAIN Order /\ Order[1] \in Stages
      BY OrderFacts DEF PipelineIInv, PipelineTypeOK
    <3>3. CASE record' = Missing
      BY <2>1, <3>3 DEF Log
    <3>4. CASE record' # Missing
      <4>1. LogShape'
        BY LogIs, PTL
      <4>2. PICK k \in Nat : FirstRecorded(k)' /\ Log' = OfVersion(record'.signature, k)
        BY <2>1, <3>4, <4>1 DEF LogShape
      <4>3. ~(1 <= k)
        BY <2>1, <3>1, <3>2, <4>2, RouteKept DEF FirstRecorded
      <4>4. k = 0
        BY <4>3
      <4> QED
        BY <4>2, <4>4 DEF OfVersion
    <3> QED
      BY <3>3, <3>4
  <2> QED
    BY <2>1, <2>2, <2>3, RouteKept DEF NStages, Finished
<1>4. CASE \/ SkipStage \/ RefuseStage \/ BeginStage \/ OpenWindow \/ CloseWindow \/ PublishStage
           \/ ReturnStage \/ UnlinkKnn \/ KnnUnlinked
  BY <1>4, SameRecordLog
  DEF SkipStage, RefuseStage, BeginStage, OpenWindow, CloseWindow, PublishStage, ReturnStage, UnlinkKnn,
      KnnUnlinked, disk
<1>5. CASE RecordStage
  <2>1. /\ record # Missing /\ returned = Missing /\ UNCHANGED <<route, returned>>
        /\ record' = [record EXCEPT !.stages[Stage] = made[Stage]]
        /\ made[Stage] \in Versions /\ Stage \in Stages
    BY <1>5, WorkSigned, StageFacts
    DEF RecordStage, PipelineIInv, CallHolds, StagesBehind, InStages
  <2>2. /\ record' # Missing /\ record'.signature = record.signature
        /\ record'.stages[Stage] # Missing
        /\ \A t \in Stages : t # Stage => record'.stages[t] = record.stages[t]
    BY <2>1, RecordGrows, LineagesDistinct DEF PipelineIInv
  <2>3. \A s \in Stages : Recorded(s) => Recorded(s)'
    BY <2>2 DEF Recorded
  <2> QED
    BY <2>1, <2>2, <2>3, RecordCommits
<1>6. CASE RecordFit
  <2>1. /\ record # Missing /\ returned = Missing /\ UNCHANGED <<route, returned>>
        /\ record' = [record EXCEPT !.stages["fit"] = FitRecord]
        /\ "fit" \in Stages /\ made["fit"] \in Versions
    BY <1>6, WorkSigned, OrderFacts
    DEF RecordFit, PipelineIInv, PipelineTypeOK, CallHolds, FitThere
  <2>2. FitRecord \in Lineages /\ FitRecord # Missing
    <3>1. Recorded("fit") => record.stages["fit"] \in Lineages /\ record.stages["fit"] # Missing
      BY <2>1, RecordTyped DEF Recorded, RecordsOf, PipelineIInv
    <3> QED
      BY <2>1, <3>1, LineagesDistinct DEF FitRecord
  <2>3. /\ record' # Missing /\ record'.signature = record.signature
        /\ record'.stages["fit"] # Missing
        /\ \A t \in Stages : t # "fit" => record'.stages[t] = record.stages[t]
    BY <2>1, <2>2, RecordGrows DEF PipelineIInv
  <2>4. \A s \in Stages : Recorded(s) => Recorded(s)'
    BY <2>3 DEF Recorded
  <2> QED
    BY <2>1, <2>3, <2>4, RecordCommits
<1>7. CASE ReturnFit
  BY <1>7, ReturnPublishes
<1>8. CASE Interrupt \/ ChangeSource \/ Tamper
  BY <1>8, SameRecordLog DEF Interrupt, ChangeSource, Tamper, disk
<1> QED
  BY <1>1, <1>2, <1>3, <1>4, <1>5, <1>6, <1>7, <1>8 DEF Next, Step

(* The pipeline keeps the promise of a committed log: stages are recorded  *)
(* in order, never again from other data, and the fit is returned once,    *)
(* with all of them from the one version.                                  *)
THEOREM PipelineImplementsLog == Spec => KeepsCommittedLog
<1>1. Init => CL!Init
  <2> SUFFICES ASSUME Init  PROVE CL!Init
    OBVIOUS
  <2>1. Log = <<>> /\ Finished = FALSE
    BY DEF Init, Log, Finished
  <2>2. NStages \in Nat \ {0}
    BY OrderFacts DEF Init, NStages
  <2> QED
    BY <2>1, <2>2 DEF CL!Init
<1>2. Spec => CL!Spec
  BY <1>1, PipelineStepLogs, PipelineInvariant, PTL DEF Spec, CL!Spec
<1> QED
  BY <1>2 DEF KeepsCommittedLog
=============================================================================
