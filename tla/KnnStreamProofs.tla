-------------------------- MODULE KnnStreamProofs ---------------------------
(***************************************************************************)
(* Proofs about KnnStream, for every matrix size, batch size, commit       *)
(* interval, set of index builds and bound on the interruptions: type      *)
(* correctness; and, where no reference is replaced between its index and  *)
(* the first sidecar (SignedAsIndexed), that committed rows stay, that     *)
(* what is published is complete, and that the writer keeps the promise of *)
(* a committed log.  The full route needs no assumption.                   *)
(***************************************************************************)
EXTENDS KnnStream, Sequences, TLAPS

(* A checkpointed call has read or written its sidecar before it opens a   *)
(* partial file.                                                           *)
HasSidecar ==
    mode = "resume" \/ (mode = "new" /\ pc \notin {"build", "create"})
        => sidecar # Missing

(* A running call has descriptors no newer than the files; a call that     *)
(* searches has its index, a batch in hand was answered, and only a        *)
(* checkpointed call commits.                                              *)
Ready ==
    /\ pc # "idle" => watched \in Sources /\ \A i \in Inputs : watched[i] <= source[i]
    /\ pc = "build" => Route = "landmark"
    /\ Route = "landmark" /\ pc \in Opening \cup Loop \cup {"create"} => indexed \in Versions
    /\ pc \in {"search", "append", "flush_i", "flush_d", "save"}
       \/ (Route = "landmark" /\ pc \in {"create", "probe", "open_i", "open_d"})
         => build \in Builds
    /\ pc = "append" => found \in Sources /\ first <= NRow
    /\ pc \in {"flush_i", "flush_d", "save"} => Checkpointed

TypeInv == TypeOK /\ HasSidecar /\ Ready

LEMMA NoRowsType == NoRows \in Contents
  BY DEF NoRows, Contents, Rows

LEMMA NRowType == NRow \in Nat /\ NRow > 0
  BY SizeAssumption

LEMMA FlushedType ==
  ASSUME TypeOK, NEW f \in Files, NEW n \in Nat
  PROVE  Flushed(part[f], n) \in Contents \cup {Missing}
<1>1. CASE part[f] = Missing
  BY <1>1 DEF Flushed
<1>2. CASE part[f] # Missing
  <2>1. part[f] \in Contents /\ buf \in Contents
    BY <1>2 DEF TypeOK
  <2>2. QED
    BY <1>2, <2>1 DEF Flushed, Contents
<1>3. QED
  BY <1>1, <1>2

LEMMA FlushAllType ==
  ASSUME TypeOK, NEW f \in Files
  PROVE  Flushed(part[f], NRow) \in Contents \cup {Missing}
  BY FlushedType, NRowType

LEMMA LastType ==
  ASSUME TypeOK, first <= NRow
  PROVE  Last \in first..NRow
  BY SizeAssumption DEF Last, TypeOK

(* A call that ends leaves a well-typed idle process, whatever it did to   *)
(* the disk.                                                               *)
LEMMA EndCallType ==
  ASSUME EndCall,
         source' \in Sources,
         part' \in [Files -> Contents \cup {Missing}],
         final' \in [Files -> Contents \cup {Missing}],
         sidecar' \in Sidecars \cup {Missing},
         stops' \in 0..MaxStops
  PROVE  TypeInv'
<1>1. pc' \in Points /\ mode' \in Modes
  BY DEF EndCall, Points, Modes
<1>2. first' \in 1..(NRow + 1)
  BY NRowType DEF EndCall
<1>3. /\ build' \in Builds \cup {Missing} /\ watched' \in Sources \cup {Missing}
      /\ indexed' \in Versions \cup {Missing}
      /\ found' \in Sources \cup {Missing} /\ buf' \in Contents
  BY NoRowsType DEF EndCall
<1>4. HasSidecar'
  BY DEF EndCall, HasSidecar
<1>5. Ready'
  BY DEF EndCall, Ready, Opening, Loop
<1>6. QED
  BY <1>1, <1>2, <1>3, <1>4, <1>5 DEF TypeOK, TypeInv

LEMMA OnExitType ==
  ASSUME TypeOK, OnExit, stops' \in 0..MaxStops
  PROVE  TypeInv'
<1>1. part' \in [Files -> Contents \cup {Missing}]
  BY FlushAllType DEF OnExit
<1>2. UNCHANGED <<source, final, sidecar>> /\ EndCall
  BY DEF OnExit
<1>3. QED
  BY <1>1, <1>2, EndCallType DEF TypeOK

LEMMA InitType == Init => TypeInv
<1>1. ASSUME Init PROVE pc \in Points /\ mode \in Modes
  BY <1>1 DEF Init, Points, Modes
<1>2. ASSUME Init PROVE first \in 1..(NRow + 1) /\ stops \in 0..MaxStops /\ source \in Sources
  BY <1>2, NRowType, BoundAssumption DEF Init, Versions, Sources
<1>3. ASSUME Init PROVE /\ part \in [Files -> Contents \cup {Missing}]
                        /\ final \in [Files -> Contents \cup {Missing}]
                        /\ sidecar \in Sidecars \cup {Missing}
  BY <1>3 DEF Init
<1>4. ASSUME Init PROVE /\ build \in Builds \cup {Missing}
                        /\ watched \in Sources \cup {Missing}
                        /\ indexed \in Versions \cup {Missing}
                        /\ found \in Sources \cup {Missing} /\ buf \in Contents
  BY <1>4, NoRowsType DEF Init
<1>5. ASSUME Init PROVE HasSidecar /\ Ready
  BY <1>5 DEF Init, HasSidecar, Ready, Opening, Loop
<1>6. QED
  BY <1>1, <1>2, <1>3, <1>4, <1>5 DEF TypeOK, TypeInv

LEMMA NextType == TypeInv /\ [Next]_vars => TypeInv'
<1> SUFFICES ASSUME TypeInv, [Next]_vars
             PROVE  TypeInv'
  OBVIOUS
<1> USE DEF TypeInv
<1>1. ASSUME NEW m \in Modes, Start(m)
      PROVE  TypeInv'
  <2>1. pc' \in Points
    BY <1>1 DEF Start, Points
  <2>2. HasSidecar'
    BY <1>1, RouteAssumption DEF Start, HasSidecar, Verified, disk
  <2>3. Ready'
    BY <1>1, <2>2, RouteAssumption DEF Start, Ready, disk, Opening, Loop
  <2>4. QED
    BY <1>1, <2>1, <2>2, <2>3 DEF Start, TypeOK, disk
<1>2. CASE BuildIndex
  <2>1. CASE Holds("reference")
    <3>1. /\ pc' = IF mode = "new" THEN "create" ELSE "probe"
          /\ build' \in Builds /\ indexed' = source["reference"]
          /\ UNCHANGED <<disk, stops, mode, watched, first, found, buf>>
      BY <1>2, <2>1 DEF BuildIndex
    <3>2. Route = "landmark" => indexed' \in Versions
      BY <3>1 DEF TypeOK, Sources, Inputs
    <3>3. indexed' \in Versions
      BY <1>2, <3>2 DEF BuildIndex, Ready
    <3>4. pc' \in Points /\ HasSidecar' /\ Ready'
      BY <1>2, <3>1, <3>3
         DEF BuildIndex, HasSidecar, Ready, Checkpointed, TypeOK, disk, Points, Modes
    <3>5. QED
      BY <3>1, <3>3, <3>4 DEF TypeOK, disk
  <2>2. CASE ~Holds("reference")
    BY <1>2, <2>2, EndCallType DEF BuildIndex, TypeOK, disk
  <2>3. QED
    BY <2>1, <2>2
<1>3. CASE CreateSidecar
  <2>1. CASE sidecar = Missing
    <3>1. sidecar' \in Sidecars
      BY <1>3, <2>1, NRowType DEF CreateSidecar, TypeOK, Sidecars
    <3>2. pc' \in Points
      BY <1>3, <2>1 DEF CreateSidecar, Points
    <3>3. HasSidecar' /\ Ready'
      BY <1>3, <2>1, <3>1, ValueAssumption, RouteAssumption
         DEF CreateSidecar, HasSidecar, Ready
    <3>4. QED
      BY <1>3, <2>1, <3>1, <3>2, <3>3 DEF CreateSidecar, TypeOK
  <2>2. CASE sidecar # Missing
    BY <1>3, <2>2, EndCallType DEF CreateSidecar, TypeOK
  <2>3. QED
    BY <2>1, <2>2
<1>4. CASE VerifyProbe
  <2>1. CASE EndCall /\ UNCHANGED <<disk, stops>>
    BY <2>1, EndCallType DEF TypeOK, disk
  <2>2. CASE /\ pc' = "open_i" /\ pc = "probe"
             /\ UNCHANGED <<disk, stops, mode, build, watched, indexed, first, found, buf>>
    <3>1. pc' \in Points /\ HasSidecar' /\ Ready'
      BY <2>2 DEF Points, HasSidecar, Ready, Opening, Loop, Checkpointed, disk
    <3>2. QED
      BY <2>2, <3>1 DEF TypeOK, disk
  <2>3. QED
    BY <1>4, <2>1, <2>2 DEF VerifyProbe
<1>5. CASE OpenIndices
  <2>1. part' \in [Files -> Contents \cup {Missing}]
    BY <1>5, NoRowsType DEF OpenIndices, Opened, TypeOK, Files
  <2>2. pc' \in Points /\ HasSidecar' /\ Ready'
    BY <1>5 DEF OpenIndices, Points, HasSidecar, Ready, Opening, Loop, Checkpointed
  <2>3. QED
    BY <1>5, <2>1, <2>2 DEF OpenIndices, TypeOK
<1>6. CASE OpenDistances
  <2>1. part' \in [Files -> Contents \cup {Missing}]
    BY <1>6, NoRowsType DEF OpenDistances, Opened, TypeOK, Files
  <2>2. Completed \in 0..NRow
    <3>1. CASE Checkpointed
      <4>1. sidecar \in Sidecars
        BY <1>6, <3>1 DEF Checkpointed, HasSidecar, OpenDistances, TypeOK, Modes
      <4>2. QED
        BY <3>1, <4>1 DEF Completed, Sidecars
    <3>2. CASE ~Checkpointed
      BY <3>2, NRowType DEF Completed
    <3>3. QED
      BY <3>1, <3>2
  <2>3. first' \in 1..(NRow + 1)
    BY <1>6, <2>2, NRowType DEF OpenDistances
  <2>4. build' \in Builds
    <3>1. CASE Route = "full"
      <4>1. (CHOOSE b \in Builds : TRUE) \in Builds
        BY <3>1, RouteAssumption
      <4>2. QED
        BY <1>6, <3>1, <4>1 DEF OpenDistances
    <3>2. CASE Route = "landmark"
      BY <1>6, <3>2 DEF OpenDistances, Ready
    <3>3. QED
      BY <3>1, <3>2, RouteAssumption
  <2>5. pc' \in Points /\ HasSidecar' /\ Ready'
    BY <1>6, <2>4 DEF OpenDistances, Points, HasSidecar, Ready, Opening, Loop, Checkpointed
  <2>6. QED
    BY <1>6, <2>1, <2>3, <2>4, <2>5 DEF OpenDistances, TypeOK
<1>8. CASE Search
  <2>1. found' \in Sources
    <3>1. Route = "landmark" => indexed \in Versions
      BY <1>8 DEF Search, Ready, Loop
    <3>2. \A i \in Inputs : (IF i = "query" THEN source[i] ELSE indexed) \in Versions
      BY <3>1, RouteAssumption DEF TypeOK, Sources, Inputs
    <3>3. QED
      BY <1>8, <3>2 DEF Search, Sources
  <2>2. pc' \in Points /\ HasSidecar' /\ Ready'
    BY <1>8, <2>1
       DEF Search, Points, HasSidecar, Ready, Opening, Loop, Checkpointed, TypeOK, disk
  <2>3. QED
    BY <1>8, <2>1, <2>2 DEF Search, TypeOK, disk
<1>9. CASE AppendBatch
  <2>1. pc' \in Points /\ HasSidecar' /\ Ready'
    BY <1>9 DEF AppendBatch, Points, HasSidecar, Ready, Opening, Loop, Checkpointed, disk
  <2>2. Last \in first..NRow /\ first \in 1..NRow
    BY <1>9, LastType, NRowType DEF AppendBatch, Ready, TypeOK
  <2>3. first' \in 1..(NRow + 1)
    BY <1>9, <2>2, NRowType DEF AppendBatch
  <2>4. \A r \in Rows : [row |-> r, source |-> found, build |-> build] \in Cells
    BY <1>9 DEF AppendBatch, Ready, Cells
  <2>5. buf' \in Contents
    BY <1>9, <2>4 DEF AppendBatch, Contents, TypeOK
  <2>6. found' \in Sources \cup {Missing}
    BY <1>9 DEF AppendBatch
  <2>7. QED
    BY <1>9, <2>1, <2>3, <2>5, <2>6 DEF AppendBatch, TypeOK, disk
<1>10. CASE FlushIndices
  <2>1. part' \in [Files -> Contents \cup {Missing}]
    BY <1>10, FlushAllType DEF FlushIndices, TypeOK, Files
  <2>2. pc' \in Points /\ HasSidecar' /\ Ready'
    BY <1>10 DEF FlushIndices, Points, HasSidecar, Ready, Opening, Loop, Checkpointed
  <2>3. QED
    BY <1>10, <2>1, <2>2 DEF FlushIndices, TypeOK
<1>11. CASE FlushDistances
  <2>1. part' \in [Files -> Contents \cup {Missing}]
    BY <1>11, FlushAllType DEF FlushDistances, TypeOK, Files
  <2>2. pc' \in Points /\ HasSidecar' /\ Ready'
    BY <1>11 DEF FlushDistances, Points, HasSidecar, Ready, Opening, Loop, Checkpointed
  <2>3. QED
    BY <1>11, <2>1, <2>2, NoRowsType DEF FlushDistances, TypeOK
<1>12. CASE SaveSidecar
  <2>1. sidecar \in Sidecars /\ build \in Builds
    BY <1>12 DEF SaveSidecar, HasSidecar, Ready, Checkpointed, TypeOK, Modes
  <2>2. first - 1 \in 0..NRow
    BY NRowType DEF TypeOK
  <2>3. PilotOf[build] \in Pilots
    BY <2>1 DEF Pilots
  <2>4. sidecar' \in Sidecars
    BY <1>12, <2>1, <2>2, <2>3 DEF SaveSidecar, Sidecars
  <2>5. pc' \in Points /\ HasSidecar' /\ Ready'
    BY <1>12, <2>4, ValueAssumption DEF SaveSidecar, Points, HasSidecar, Ready, Opening, Loop
  <2>6. QED
    BY <1>12, <2>4, <2>5 DEF SaveSidecar, TypeOK
<1>13. CASE Truncate
  <2> DEFINE closed == [f \in Files |-> Flushed(part[f], NRow)]
  <2>1. closed \in [Files -> Contents \cup {Missing}]
    BY FlushAllType
  <2>2. CASE \A f \in Files : Filled(closed[f], NRow)
    <3>1. pc' = "rename_i" /\ part' = closed /\ buf' = NoRows
      BY <1>13, <2>2 DEF Truncate
    <3>2. UNCHANGED <<source, final, sidecar, stops, mode, build, watched, indexed, first, found>>
      BY <1>13, <2>2 DEF Truncate
    <3>3. pc' \in Points /\ HasSidecar' /\ Ready'
      BY <1>13, <3>1, <3>2 DEF Points, HasSidecar, Ready, Opening, Loop, Truncate
    <3>4. QED
      BY <2>1, <3>1, <3>2, <3>3, NoRowsType DEF TypeOK
  <2>3. CASE ~\A f \in Files : Filled(closed[f], NRow)
    <3>1. part' = [f \in Files |-> IF Checkpointed THEN closed[f] ELSE Missing]
      BY <1>13, <2>3 DEF Truncate
    <3>2. EndCall /\ UNCHANGED <<source, final, sidecar, stops>>
      BY <1>13, <2>3 DEF Truncate
    <3>3. part' \in [Files -> Contents \cup {Missing}]
      BY <2>1, <3>1
    <3>4. QED
      BY <3>2, <3>3, EndCallType DEF TypeOK
  <2>4. QED
    BY <2>2, <2>3
<1>14. CASE RenameIndices
  <2>1. pc' \in Points /\ HasSidecar' /\ Ready'
    BY <1>14 DEF RenameIndices, Points, HasSidecar, Ready, Opening, Loop
  <2>2. QED
    BY <1>14, <2>1 DEF RenameIndices, TypeOK, Files
<1>15. CASE RenameDistances
  <2>1. pc' \in Points /\ HasSidecar' /\ Ready'
    BY <1>15 DEF RenameDistances, Points, HasSidecar, Ready, Opening, Loop
  <2>2. QED
    BY <1>15, <2>1 DEF RenameDistances, TypeOK, Files
<1>16. CASE RestoreIndices
  <2>1. stops' \in 0..MaxStops
    BY <1>16, BoundAssumption DEF RestoreIndices, TypeOK
  <2>2. part' \in [Files -> Contents \cup {Missing}]
    BY <1>16 DEF RestoreIndices, TypeOK, Files
  <2>3. final' \in [Files -> Contents \cup {Missing}]
    BY <1>16 DEF RestoreIndices, TypeOK, Files
  <2>4. QED
    BY <1>16, <2>1, <2>2, <2>3, EndCallType DEF RestoreIndices, TypeOK
<1>17. CASE RetireSidecar
  BY <1>17, EndCallType DEF RetireSidecar, TypeOK
<1>18. CASE SourceChanged
  BY <1>18, OnExitType DEF SourceChanged, TypeOK
<1>19. CASE Fail
  <2>1. stops' \in 0..MaxStops
    BY <1>19, BoundAssumption DEF Fail, TypeOK
  <2>2. QED
    BY <1>19, <2>1, OnExitType DEF Fail
<1>20. CASE Crash
  <2>1. stops' \in 0..MaxStops
    BY <1>20, BoundAssumption DEF Crash, TypeOK
  <2>2. PICK reached \in [Files -> 0..NRow] :
          part' = [f \in Files |-> Flushed(part[f], reached[f])]
    BY <1>20 DEF Crash
  <2>3. part' \in [Files -> Contents \cup {Missing}]
    BY <2>2, FlushedType, NRowType
  <2>4. QED
    BY <1>20, <2>1, <2>3, EndCallType DEF Crash, TypeOK
<1>21. CASE ChangeSource
  <2>1. PICK i \in Inputs : source[i] < MaxVersion /\ source' = [source EXCEPT ![i] = @ + 1]
    BY <1>21 DEF ChangeSource
  <2>2. \A j \in Inputs : source'[j] \in Versions /\ source[j] <= source'[j]
    BY <2>1, BoundAssumption DEF TypeOK, Sources, Versions
  <2>3. source' \in Sources
    BY <2>1, <2>2 DEF TypeOK, Sources
  <2>4. pc # "idle" => \A j \in Inputs : watched[j] <= source'[j]
    BY <2>2, BoundAssumption DEF TypeOK, Ready, Sources, Versions
  <2>5. HasSidecar' /\ Ready'
    BY <1>21, <2>4 DEF ChangeSource, HasSidecar, Ready, Opening, Loop, Checkpointed, process
  <2>6. QED
    BY <1>21, <2>3, <2>5 DEF ChangeSource, TypeOK, process
<1>22. CASE UNCHANGED vars
  BY <1>22 DEF vars, disk, process, TypeOK, HasSidecar, Ready, Checkpointed
<1>23. QED
  BY <1>1, <1>2, <1>3, <1>4, <1>5, <1>6, <1>8, <1>9, <1>10, <1>11, <1>12,
     <1>13, <1>14, <1>15, <1>16, <1>17, <1>18, <1>19, <1>20, <1>21, <1>22
     DEF Next, Step, Environment

(* Every reachable state of the writer is well typed. *)
THEOREM TypeCorrect == Spec => []TypeOK
<1>1. TypeInv => TypeOK
  BY DEF TypeInv
<1>2. QED
  BY <1>1, InitType, NextType, PTL DEF Spec

-----------------------------------------------------------------------------
(* The inductive invariant.                                                *)

LEMMA DisjointTypes ==
  /\ Missing \notin Contents /\ Missing \notin Sidecars
  /\ \A c \in Cells : c # Hole
  BY ValueAssumption

(* A call that is running while rows are committed continues them.         *)
LEMMA Continues ==
  ASSUME TypeInv, Inductive, pc # "idle", sidecar # Missing,
         sidecar.completed_rows > 0
  PROVE  Checkpointed /\ Completed = sidecar.completed_rows
  BY DEF TypeInv, TypeOK, Inductive, Session, Checkpointed, Completed, Sidecars

(* Writing buffered rows to a file leaves its committed rows alone.        *)
LEMMA FlushKeeps ==
  ASSUME TypeInv, Inductive, pc # "idle", sidecar # Missing,
         sidecar.completed_rows > 0,
         NEW f \in Files, part[f] # Missing, NEW n \in Nat,
         NEW r \in 1..sidecar.completed_rows
  PROVE  /\ Flushed(part[f], n) # Missing
         /\ Flushed(part[f], n)[r] = part[f][r]
<1>1. Completed = sidecar.completed_rows /\ sidecar.completed_rows \in 0..NRow
  BY Continues DEF TypeInv, TypeOK, Sidecars
<1>2. r \in Rows /\ r \notin (Completed + 1)..(first - 1)
  BY <1>1, NRowType DEF Rows
<1>3. buf[r] = Hole
  <2>1. CASE pc \in Loop
    BY <2>1, <1>2 DEF Inductive, Buffered
  <2>2. CASE pc \notin Loop
    BY <2>2, <1>2 DEF Inductive, Buffered, NoRows
  <2>3. QED
    BY <2>1, <2>2
<1>4. Flushed(part[f], n) \in Contents
  BY FlushedType DEF TypeInv, TypeOK, Flushed, Contents
<1>5. QED
  BY <1>2, <1>3, <1>4, DisjointTypes DEF Flushed

(* A call that ends keeps the invariant if it keeps the committed rows.    *)
LEMMA EndCallKeeps ==
  ASSUME TypeInv, Inductive, TypeInv', EndCall, UNCHANGED <<source, final, sidecar>>,
         \A f \in Files : final[f] # Missing => part'[f] = Missing,
         sidecar # Missing /\ sidecar.completed_rows > 0 =>
            \A f \in Files : final[f] = Missing =>
               /\ part'[f] # Missing
               /\ \A r \in 1..sidecar.completed_rows : part'[f][r] = part[f][r]
  PROVE  Inductive'
<1>1. Names'
  BY DEF EndCall, Names, Loop
<1>2. Session'
  BY DEF EndCall, Session, Inductive, Checkpointed, Loop, Opening, Completed
<1>3. Buffered'
  BY DEF EndCall, Buffered, Loop
<1>4. Whole'
  <2> SUFFICES ASSUME Published'
               PROVE  Whole'
    BY DEF EndCall, Whole
  <2>1. Published /\ Data("indices")' = Data("indices") /\ Data("distances")' = Data("distances")
    BY DEF Published, Data, Files
  <2>2. QED
    BY <2>1 DEF Inductive, Whole, Complete, Agree
<1>5. CommittedRowsDurable'
  BY DEF Inductive, CommittedRowsDurable, Agree, Data, Files
<1>6. QED
  BY <1>1, <1>2, <1>3, <1>4, <1>5 DEF Inductive

LEMMA InitInductive == Init => Inductive
<1> SUFFICES ASSUME Init PROVE Inductive
  OBVIOUS
<1>1. Names /\ Session /\ Buffered
  BY DEF Init, Names, Session, Buffered, Loop, Opening, Checkpointed
<1>2. CommittedRowsDurable /\ Whole
  BY DEF Init, CommittedRowsDurable, Whole, Published, Files
<1>3. QED
  BY <1>1, <1>2 DEF Inductive

LEMMA DiskKeeps ==
  ASSUME Inductive, UNCHANGED <<part, final, sidecar>>,
         pc' = pc \/ pc' \notin {"rename_i", "rename_d"}
  PROVE  CommittedRowsDurable' /\ Whole'
<1>1. \A f \in Files : Data(f)' = Data(f)
  BY DEF Data
<1>2. CommittedRowsDurable'
  BY <1>1 DEF Inductive, CommittedRowsDurable, Agree, Files
<1>3. Published' = Published
  BY DEF Published
<1>4. Whole'
  BY <1>1, <1>3 DEF Inductive, Whole, Complete, Agree, Files
<1>5. QED
  BY <1>2, <1>4

LEMMA StartKeeps ==
  ASSUME TypeInv, Inductive, NEW m \in Modes, Start(m)
  PROVE  Inductive'
<1>1. CommittedRowsDurable' /\ Whole'
  BY DiskKeeps DEF Start, disk
<1>2. Names'
  BY DEF Start, PathsFit, Names, Loop, disk
<1>3. Buffered'
  BY DEF Start, Buffered, Inductive, Loop
<1>4. Session'
  <2>1. ASSUME mode' # "resume", sidecar # Missing
        PROVE  sidecar.completed_rows = 0
    <3>1. \A f \in Files : Data(f) = Missing
      BY <2>1 DEF Start, PathsFit, Data
    <3>2. sidecar \in Sidecars
      BY <2>1 DEF TypeInv, TypeOK
    <3>3. QED
      BY <2>1, <3>1, <3>2 DEF Inductive, CommittedRowsDurable, Sidecars, Files
  <2>2. mode' = "resume" => SignedFor("query")' /\ (Route = "landmark" => SignedFor("reference")')
    <3>1. mode' = "resume" => sidecar.signature = source
      BY DEF Start, Verified
    <3>2. PICK w \in Sources : (\A i \in Inputs : w[i] <= source[i]) /\ watched' = w
      BY DEF Start
    <3>3. \A i \in Inputs : source[i] \in Nat /\ w[i] \in Nat /\ w[i] <= source[i]
      BY <3>2, BoundAssumption DEF TypeInv, TypeOK, Sources, Versions
    <3>4. "query" \in Inputs /\ (Route = "landmark" => "reference" \in Inputs)
      BY DEF Inputs
    <3>5. UNCHANGED <<source, sidecar>>
      BY DEF Start, disk
    <3>6. QED
      BY <3>1, <3>2, <3>3, <3>4, <3>5 DEF SignedFor, Stale
  <2>3. Route = "landmark" /\ sidecar # Missing /\ sidecar.completed_rows = 0 =>
          sidecar.pilot_signature = Missing
    BY DEF Inductive, Session
  <2>4. Route = "landmark" => pc' = "build"
    BY DEF Start
  <2>5. pc' \in {"build", "create", "open_i"} /\ mode' \in Modes
        /\ UNCHANGED <<source, sidecar>>
    BY DEF Start, disk
  <2>6. mode' = "plain" \/ mode' = "new" \/ mode' = "resume"
    BY <2>5 DEF Modes
  <2>7. mode' = "new" => pc' \in {"build", "create"}
    BY RouteAssumption DEF Start
  <2>8. QED
    BY <2>1, <2>2, <2>3, <2>4, <2>5, <2>6, <2>7
       DEF Session, Loop, Opening, Checkpointed
<1>5. QED
  BY <1>1, <1>2, <1>3, <1>4 DEF Inductive

(* A call that stops before it opened a partial file changes nothing.      *)
LEMMA EarlyStopKeeps ==
  ASSUME TypeInv, Inductive, TypeInv', EndCall, UNCHANGED <<source, part, final, sidecar>>
  PROVE  Inductive'
<1>1. sidecar # Missing /\ sidecar.completed_rows > 0 =>
        \A f \in Files : final[f] = Missing => part[f] # Missing
  BY DEF Inductive, CommittedRowsDurable, Data
<1>2. \A f \in Files : final[f] # Missing => part'[f] = Missing
  BY DEF Inductive, Names
<1>3. QED
  BY <1>1, <1>2, EndCallKeeps

LEMMA BuildIndexKeeps ==
  ASSUME TypeInv, Inductive, TypeInv', BuildIndex
  PROVE  Inductive'
<1>1. CASE ~Holds("reference")
  BY <1>1, EarlyStopKeeps DEF BuildIndex, disk
<1>2. CASE Holds("reference")
  <2>1. /\ pc = "build" /\ pc' = IF mode = "new" THEN "create" ELSE "probe"
        /\ indexed' = source["reference"] /\ source["reference"] = watched["reference"]
        /\ UNCHANGED <<source, part, final, sidecar, mode, watched, first, found, buf>>
    BY <1>2 DEF BuildIndex, disk, Holds
  <2>2. CommittedRowsDurable' /\ Whole'
    BY <2>1, DiskKeeps
  <2>3. Names' /\ Buffered'
    BY <2>1 DEF Inductive, Names, Buffered, Loop
  <2>4. mode = "resume" /\ Route = "landmark" =>
           sidecar.signature["reference"] = watched["reference"]
    <3>1. Route = "landmark" => watched["reference"] \in Nat
      BY <2>1, BoundAssumption DEF TypeInv, Ready, Sources, Inputs, Versions
    <3>2. mode = "resume" /\ Route = "landmark" => SignedFor("reference")
      BY <2>1 DEF Inductive, Session
    <3>3. QED
      BY <2>1, <3>1, <3>2 DEF SignedFor, Stale
  <2>5. mode = "resume" => SignedFor("query")
    BY <2>1 DEF Inductive, Session
  <2>6. SignedFor("query")' <=> SignedFor("query")
    BY <2>1 DEF SignedFor, Stale
  <2>7. mode \in {"plain", "new", "resume"}
    BY DEF TypeInv, TypeOK, Modes
  <2>8. Session'
    BY <2>1, <2>4, <2>5, <2>6, <2>7 DEF Inductive, Session, Loop, Opening, Checkpointed
  <2>9. QED
    BY <2>2, <2>3, <2>8 DEF Inductive
<1>3. QED
  BY <1>1, <1>2

LEMMA CreateSidecarKeeps ==
  ASSUME TypeInv, Inductive, TypeInv', CreateSidecar
  PROVE  Inductive'
<1>1. CASE sidecar # Missing
  BY <1>1, EarlyStopKeeps DEF CreateSidecar
<1>2. CASE sidecar = Missing
  <2>1. /\ sidecar' = [signature |-> source, completed_rows |-> 0, pilot_signature |-> Missing]
        /\ UNCHANGED <<source, part, final, mode, build, watched, indexed, first, found, buf>>
        /\ pc = "create" /\ pc' = IF Route = "landmark" THEN "probe" ELSE "open_i"
    BY <1>2 DEF CreateSidecar
  <2>2. CommittedRowsDurable'
    BY <2>1 DEF CommittedRowsDurable
  <2>3. Whole'
    BY <2>1 DEF Inductive, Whole, Complete, Published, Agree, Data
  <2>4. Names'
    BY <2>1 DEF Inductive, Names, Loop
  <2>5. Buffered'
    BY <2>1 DEF Inductive, Buffered, Loop
  <2>6. Session'
    <3>1. SignedFor("query")'
      <4>1. "query" \in Inputs
        BY DEF Inputs
      <4>2. source["query"] \in Nat /\ watched["query"] \in Nat
            /\ watched["query"] <= source["query"]
        BY <2>1, <4>1, BoundAssumption DEF TypeInv, TypeOK, Ready, Sources, Versions
      <4>3. QED
        BY <2>1, <4>2 DEF SignedFor, Stale
    <3>2. Route = "landmark" =>
            indexed = watched["reference"] /\ source["reference"] = watched["reference"]
      BY <2>1 DEF Inductive, Session
    <3>3. QED
      BY <2>1, <3>1, <3>2 DEF Session, Loop, Opening, Completed
  <2>7. QED
    BY <2>2, <2>3, <2>4, <2>5, <2>6 DEF Inductive
<1>3. QED
  BY <1>1, <1>2

LEMMA VerifyProbeKeeps ==
  ASSUME TypeInv, Inductive, TypeInv', VerifyProbe
  PROVE  Inductive'
<1>1. CASE EndCall /\ UNCHANGED disk
  BY <1>1, EarlyStopKeeps DEF disk
<1>2. CASE /\ pc' = "open_i"
           /\ UNCHANGED <<disk, mode, build, watched, indexed, first, found, buf>>
           /\ Checkpointed /\ sidecar.completed_rows > 0 =>
                PilotOf[build] = sidecar.pilot_signature
  <2>1. pc = "probe" /\ UNCHANGED <<source, part, final, sidecar>>
    BY <1>2 DEF VerifyProbe, disk
  <2>2. CommittedRowsDurable' /\ Whole'
    BY <1>2, <2>1, DiskKeeps
  <2>3. Names' /\ Buffered'
    BY <1>2, <2>1 DEF Inductive, Names, Buffered, Loop
  <2>4. SignedFor("query")' <=> SignedFor("query")
    BY <1>2, <2>1 DEF SignedFor, Stale
  <2>5. Session'
    BY <1>2, <2>1, <2>4 DEF Inductive, Session, Loop, Opening, Checkpointed, Completed
  <2>6. QED
    BY <2>2, <2>3, <2>5 DEF Inductive
<1>3. QED
  BY <1>1, <1>2 DEF VerifyProbe

(* Opening the partial files keeps what is committed: with committed rows  *)
(* both files are there and "r+b" leaves them as they are.                 *)
LEMMA OpenedKeeps ==
  ASSUME TypeInv, Inductive, pc \in {"open_i", "open_d"}, NEW f \in Files
  PROVE  /\ Opened(part[f]) # Missing
         /\ final[f] = Missing
         /\ sidecar # Missing /\ sidecar.completed_rows > 0 => Opened(part[f]) = part[f]
<1>1. final[f] = Missing
  BY DEF Inductive, Names
<1>2. CASE Completed > 0
  <2>1. sidecar # Missing /\ sidecar.completed_rows > 0
    BY <1>2, NRowType DEF Completed, TypeInv, HasSidecar, Checkpointed, TypeOK, Modes
  <2>2. part[f] # Missing
    BY <1>1, <2>1 DEF Inductive, CommittedRowsDurable, Data
  <2>3. QED
    BY <1>1, <1>2, <2>2 DEF Opened
<1>3. CASE ~(Completed > 0)
  <2>1. ~(sidecar # Missing /\ sidecar.completed_rows > 0)
    BY <1>3, Continues
  <2>2. QED
    BY <1>1, <1>3, <2>1, NoRowsType, DisjointTypes DEF Opened
<1>4. QED
  BY <1>2, <1>3

LEMMA OpenIndicesKeeps ==
  ASSUME TypeInv, Inductive, TypeInv', OpenIndices
  PROVE  Inductive'
<1>1. /\ part' = [part EXCEPT !["indices"] = Opened(part["indices"])]
      /\ pc = "open_i" /\ pc' = "open_d"
      /\ UNCHANGED <<source, final, sidecar, mode, build, watched, indexed, first, found, buf>>
  BY DEF OpenIndices
<1>2. part'["indices"] = Opened(part["indices"]) /\ part'["distances"] = part["distances"]
  BY <1>1 DEF TypeInv, TypeOK, Files
<1>3. CommittedRowsDurable'
  BY <1>1, <1>2, OpenedKeeps DEF Inductive, CommittedRowsDurable, Agree, Data, Files
<1>4. Names'
  BY <1>1, <1>2, OpenedKeeps DEF Inductive, Names, Loop, Files
<1>5. Session' /\ Buffered'
  BY <1>1 DEF Inductive, Session, Buffered, Loop, Opening, Checkpointed, Completed,
     SignedFor, Stale
<1>6. Whole'
  BY <1>1 DEF Inductive, Names, Whole, Published, Files
<1>7. QED
  BY <1>3, <1>4, <1>5, <1>6 DEF Inductive

(* A sidecar that agrees with the descriptors on each input agrees with    *)
(* them.                                                                   *)
LEMMA SignatureIs ==
  ASSUME TypeInv, pc \notin {"idle", "build", "create"}, Checkpointed,
         sidecar.signature["query"] = watched["query"],
         Route = "landmark" => sidecar.signature["reference"] = watched["reference"]
  PROVE  sidecar.signature = watched
<1>1. sidecar \in Sidecars
  BY DEF TypeInv, TypeOK, HasSidecar, Checkpointed, Modes
<1>2. sidecar.signature \in Sources /\ watched \in Sources
  BY <1>1 DEF TypeInv, Ready, Sidecars
<1>3. \A i \in Inputs : sidecar.signature[i] = watched[i]
  BY RouteAssumption DEF Inputs
<1>4. QED
  BY <1>2, <1>3 DEF Sources

LEMMA OpenDistancesKeeps ==
  ASSUME TypeInv, Inductive, TypeInv', OpenDistances
  PROVE  Inductive'
<1>1. /\ part' = [part EXCEPT !["distances"] = Opened(part["distances"])]
      /\ pc = "open_d" /\ pc' = "search"
      /\ first' = Completed + 1
      /\ Route = "landmark" => build' = build
      /\ UNCHANGED <<source, final, sidecar, mode, watched, indexed, found, buf>>
  BY RouteAssumption DEF OpenDistances
<1>2. part'["distances"] = Opened(part["distances"]) /\ part'["indices"] = part["indices"]
  BY <1>1 DEF TypeInv, TypeOK, Files
<1>3. CommittedRowsDurable'
  BY <1>1, <1>2, OpenedKeeps DEF Inductive, CommittedRowsDurable, Agree, Data, Files
<1>4. Names'
  BY <1>1, <1>2, OpenedKeeps DEF Inductive, Names, Loop, Files
<1>5. Session'
  <2>1. Checkpointed => sidecar.signature = watched \/ Stale("query")
    <3>1. ASSUME Checkpointed, ~Stale("query")
          PROVE  sidecar.signature = watched
      <4>1. sidecar.signature["query"] = watched["query"]
        BY <1>1, <3>1 DEF Inductive, Session, Opening, SignedFor
      <4>2. Route = "landmark" => sidecar.signature["reference"] = watched["reference"]
        BY <1>1, <3>1 DEF Inductive, Session, Opening
      <4>3. QED
        BY <1>1, <3>1, <4>1, <4>2, SignatureIs
    <3>2. QED
      BY <3>1
  <2>2. Completed' = Completed /\ Stale("query")' = Stale("query")
    BY <1>1 DEF Completed, Checkpointed, Stale
  <2>3. QED
    BY <1>1, <2>1, <2>2, RouteAssumption DEF Inductive, Session, Loop, Opening, Checkpointed
<1>6. Buffered'
  <2>1. buf = NoRows /\ Completed' = Completed
    BY <1>1 DEF Inductive, Buffered, Loop, Completed, Checkpointed
  <2>2. first' \in Nat /\ first' = Completed + 1
    BY <1>1 DEF TypeInv, TypeOK
  <2>3. Completed \in Nat
    BY NRowType, <1>1 DEF Completed, Checkpointed, TypeInv, TypeOK, HasSidecar, Sidecars, Modes
  <2>4. (Completed' + 1)..(first' - 1) = {}
    BY <2>1, <2>2, <2>3
  <2>5. QED
    BY <1>1, <2>1, <2>2, <2>3, <2>4 DEF Buffered, Loop, NoRows
<1>7. Whole'
  BY <1>1 DEF Inductive, Names, Whole, Published, Files
<1>8. QED
  BY <1>3, <1>4, <1>5, <1>6, <1>7 DEF Inductive

LEMMA SearchKeeps ==
  ASSUME TypeInv, Inductive, TypeInv', Search
  PROVE  Inductive'
<1>1. /\ pc = "search" /\ pc' = "append"
      /\ found' = [i \in Inputs |-> IF i = "query" THEN source[i] ELSE indexed]
      /\ source["query"] = watched["query"]
      /\ UNCHANGED <<source, part, final, sidecar, mode, build, watched, indexed, first, buf>>
  BY DEF Search, disk, Holds
<1>2. CommittedRowsDurable' /\ Whole'
  BY <1>1, DiskKeeps
<1>3. Names'
  BY <1>1 DEF Inductive, Names, Loop
<1>4. Completed' = Completed
  BY <1>1 DEF Completed, Checkpointed
<1>5. ~Stale("query")
  <2>1. source["query"] \in Nat
    BY BoundAssumption DEF TypeInv, TypeOK, Sources, Versions, Inputs
  <2>2. QED
    BY <1>1, <2>1 DEF Stale
<1>6. Session'
  BY <1>1, <1>4, <1>5 DEF Inductive, Session, Loop, Opening, Checkpointed
<1>7. found' = watched
  <2>1. watched \in Sources
    BY <1>1 DEF TypeInv, Ready
  <2>2. Route = "landmark" => indexed = watched["reference"]
    BY <1>1 DEF Inductive, Session, Loop
  <2>3. \A i \in Inputs : (IF i = "query" THEN source[i] ELSE indexed) = watched[i]
    BY <1>1, <2>2, RouteAssumption DEF Inputs
  <2>4. QED
    BY <1>1, <2>1, <2>3 DEF Sources
<1>8. Buffered'
  BY <1>1, <1>4, <1>7 DEF Inductive, Buffered, Loop, Answered
<1>9. QED
  BY <1>2, <1>3, <1>6, <1>8 DEF Inductive

LEMMA CompletedType ==
  ASSUME TypeInv, pc \in Loop
  PROVE  Completed \in 0..NRow
  BY NRowType DEF Completed, Checkpointed, TypeInv, TypeOK, HasSidecar, Sidecars, Modes, Loop

LEMMA AppendBatchKeeps ==
  ASSUME TypeInv, Inductive, TypeInv', AppendBatch
  PROVE  Inductive'
<1>1. /\ pc = "append" /\ pc' \in {"search", "flush_i"}
      /\ first' = Last + 1
      /\ UNCHANGED <<source, part, final, sidecar, mode, build, watched, indexed>>
  BY DEF AppendBatch, disk
<1>2. \A r \in Rows : buf'[r] = IF r \in first..Last
                                THEN [row |-> r, source |-> found, build |-> build]
                                ELSE buf[r]
  BY DEF AppendBatch
<1>3. CommittedRowsDurable' /\ Whole'
  BY <1>1, DiskKeeps
<1>4. Names'
  BY <1>1 DEF Inductive, Names, Loop
<1>5. Completed' = Completed
  BY <1>1 DEF Completed, Checkpointed
<1>6. Session'
  BY <1>1, <1>5 DEF Inductive, Session, Loop, Opening, Checkpointed
<1>7. Buffered'
  <2>1. Last \in first..NRow /\ first \in 1..NRow /\ Completed \in 0..NRow
    BY <1>1, LastType, CompletedType DEF Ready, TypeInv, TypeOK, Loop
  <2>2. Completed < first
    BY <1>1 DEF Inductive, Buffered, Loop
  <2>3. \A r \in Rows : r \notin (Completed' + 1)..(first' - 1) => buf'[r] = Hole
    <3>1. \A r \in Rows : r \notin (Completed + 1)..(first - 1) => buf[r] = Hole
      BY <1>1 DEF Inductive, Buffered, Loop
    <3>2. \A r \in Rows : r \notin (Completed + 1)..Last =>
             r \notin first..Last /\ r \notin (Completed + 1)..(first - 1)
      BY <2>1, <2>2 DEF Rows
    <3>3. (first' - 1) = Last
      BY <1>1, <2>1
    <3>4. QED
      BY <1>2, <1>5, <3>1, <3>2, <3>3
  <2>4. ASSUME NEW r \in (Completed' + 1)..(first' - 1)
        PROVE  Answered(buf, r)'
    <3>1. r \in Rows
      BY <1>1, <1>5, <2>1, <2>4, NRowType DEF Rows
    <3>2. CASE r \in first..Last
      <4>1. buf'[r] = [row |-> r, source |-> found, build |-> build]
        BY <1>2, <3>1, <3>2
      <4>2. buf'[r] \in Cells
        BY <1>1, <3>1, <4>1 DEF Ready, TypeInv, Cells
      <4>3. found = watched
        BY <1>1 DEF Inductive, Buffered
      <4>4. QED
        BY <1>1, <1>5, <4>1, <4>2, <4>3 DEF Answered
    <3>3. CASE r \notin first..Last
      <4>1. r \in (Completed + 1)..(first - 1)
        BY <1>1, <1>5, <2>1, <2>4, <3>3
      <4>2. buf'[r] = buf[r] /\ Answered(buf, r)
        BY <1>1, <1>2, <3>1, <3>3, <4>1 DEF Inductive, Buffered, Loop
      <4>3. QED
        BY <1>1, <1>5, <4>2 DEF Answered
    <3>4. QED
      BY <3>2, <3>3
  <2>5. Completed' < first' /\ Completed' + 1 < first'
    BY <1>1, <1>5, <2>1, <2>2
  <2>6. QED
    BY <1>1, <2>3, <2>4, <2>5 DEF Buffered, Loop
<1>8. QED
  BY <1>3, <1>4, <1>6, <1>7 DEF Inductive

(* Rows committed before a step that rewrites the partial files are there  *)
(* after it if the step leaves those rows alone.                           *)
LEMMA PartKeeps ==
  ASSUME Inductive, UNCHANGED <<final, sidecar>>,
         sidecar # Missing /\ sidecar.completed_rows > 0 =>
            \A f \in Files : final[f] = Missing =>
               /\ part'[f] # Missing
               /\ \A r \in 1..sidecar.completed_rows : part'[f][r] = part[f][r]
  PROVE  CommittedRowsDurable'
  BY DEF Inductive, CommittedRowsDurable, Agree, Data, Files

(* In the batch loop the two partial files are there under that name.      *)
LEMMA LoopFiles ==
  ASSUME Inductive, pc \in Loop
  PROVE  \A f \in Files : final[f] = Missing /\ part[f] # Missing
  BY DEF Inductive, Names, Loop

(* A buffered row reaches the file it is flushed to.                       *)
LEMMA FlushWrites ==
  ASSUME TypeInv, Inductive, pc \in Loop \ {"save"}, NEW f \in Files,
         NEW r \in (Completed + 1)..(first - 1)
  PROVE  /\ r \in Rows /\ buf[r] # Hole
         /\ Flushed(part[f], NRow)[r] = buf[r]
<1>1. Completed \in 0..NRow /\ first \in 1..(NRow + 1)
  BY CompletedType DEF TypeInv, TypeOK, Loop
<1>2. r \in Rows /\ r <= NRow
  BY <1>1, NRowType DEF Rows
<1>3. buf[r] # Hole
  BY DisjointTypes DEF Inductive, Buffered, Answered, Loop
<1>4. part[f] # Missing
  BY LoopFiles
<1>5. QED
  BY <1>2, <1>3, <1>4 DEF Flushed

LEMMA FlushIndicesKeeps ==
  ASSUME TypeInv, Inductive, TypeInv', FlushIndices
  PROVE  Inductive'
<1>1. /\ pc = "flush_i" /\ pc' = "flush_d" /\ pc \in Loop
      /\ UNCHANGED <<source, final, sidecar, mode, build, watched, indexed, first, found, buf>>
  BY DEF FlushIndices, Loop
<1>2. /\ part'["indices"] = Flushed(part["indices"], NRow)
      /\ part'["distances"] = part["distances"]
  BY DEF FlushIndices, TypeInv, TypeOK, Files
<1>3. part'["indices"] # Missing
  BY <1>1, <1>2, LoopFiles, FlushedType, NRowType, DisjointTypes
     DEF Flushed, TypeInv, TypeOK, Files, Contents
<1>4. CommittedRowsDurable'
  <2>1. ASSUME sidecar # Missing, sidecar.completed_rows > 0
        PROVE  \A f \in Files : final[f] = Missing =>
                  /\ part'[f] # Missing
                  /\ \A r \in 1..sidecar.completed_rows : part'[f][r] = part[f][r]
    BY <2>1, <1>1, <1>2, <1>3, LoopFiles, FlushKeeps, NRowType DEF Files
  <2>2. QED
    BY <1>1, <2>1, PartKeeps
<1>5. Whole'
  BY <1>1, LoopFiles DEF Whole, Published, Files
<1>6. Names'
  BY <1>1, <1>2, <1>3, LoopFiles DEF Names, Loop, Files
<1>7. Completed' = Completed
  BY <1>1 DEF Completed, Checkpointed
<1>8. Session'
  BY <1>1, <1>7 DEF Inductive, Session, Loop, Opening, Checkpointed
<1>9. Buffered'
  <2>1. \A r \in (Completed + 1)..(first - 1) : part'["indices"][r] = buf'[r]
    BY <1>1, <1>2, FlushWrites DEF Loop, Files
  <2>2. \A r \in (Completed + 1)..(first - 1) : Answered(buf, r)'
    BY <1>1, <1>7 DEF Inductive, Buffered, Loop, Answered
  <2>3. /\ Completed < first /\ Completed + 1 < first
        /\ \A r \in Rows : r \notin (Completed + 1)..(first - 1) => buf[r] = Hole
    BY <1>1 DEF Inductive, Buffered
  <2>4. QED
    BY <1>1, <1>7, <2>1, <2>2, <2>3 DEF Buffered, Loop
<1>10. QED
  BY <1>4, <1>5, <1>6, <1>8, <1>9 DEF Inductive

LEMMA FlushDistancesKeeps ==
  ASSUME TypeInv, Inductive, TypeInv', FlushDistances
  PROVE  Inductive'
<1>1. /\ pc = "flush_d" /\ pc' = "save" /\ pc \in Loop /\ buf' = NoRows
      /\ UNCHANGED <<source, final, sidecar, mode, build, watched, indexed, first, found>>
  BY DEF FlushDistances, Loop
<1>2. /\ part'["distances"] = Flushed(part["distances"], NRow)
      /\ part'["indices"] = part["indices"]
  BY DEF FlushDistances, TypeInv, TypeOK, Files
<1>3. part'["distances"] # Missing
  BY <1>1, <1>2, LoopFiles, FlushedType, NRowType, DisjointTypes
     DEF Flushed, TypeInv, TypeOK, Files, Contents
<1>4. CommittedRowsDurable'
  <2>1. ASSUME sidecar # Missing, sidecar.completed_rows > 0
        PROVE  \A f \in Files : final[f] = Missing =>
                  /\ part'[f] # Missing
                  /\ \A r \in 1..sidecar.completed_rows : part'[f][r] = part[f][r]
    BY <2>1, <1>1, <1>2, <1>3, LoopFiles, FlushKeeps, NRowType DEF Files
  <2>2. QED
    BY <1>1, <2>1, PartKeeps
<1>5. Whole'
  BY <1>1, LoopFiles DEF Whole, Published, Files
<1>6. Names'
  BY <1>1, <1>2, <1>3, LoopFiles DEF Names, Loop, Files
<1>7. Completed' = Completed
  BY <1>1 DEF Completed, Checkpointed
<1>8. Session'
  BY <1>1, <1>7 DEF Inductive, Session, Loop, Opening, Checkpointed
<1>9. Buffered'
  <2>1. ASSUME NEW r \in (Completed + 1)..(first - 1)
        PROVE  /\ Answered(part["indices"], r)'
               /\ part'["distances"][r] = part'["indices"][r]
    <3>1. part["indices"][r] = buf[r] /\ Answered(buf, r)
      BY <1>1 DEF Inductive, Buffered
    <3>2. part'["distances"][r] = buf[r]
      BY <1>1, <1>2, FlushWrites DEF Loop, Files
    <3>3. QED
      BY <1>1, <1>2, <1>7, <3>1, <3>2 DEF Answered
  <2>2. Completed < first /\ Completed + 1 < first
    BY <1>1 DEF Inductive, Buffered
  <2>3. \A r \in Rows : buf'[r] = Hole
    BY <1>1 DEF NoRows
  <2>4. QED
    BY <1>1, <1>7, <2>1, <2>2, <2>3 DEF Buffered, Loop
<1>10. QED
  BY <1>4, <1>5, <1>6, <1>8, <1>9 DEF Inductive

LEMMA SaveSidecarKeeps ==
  ASSUME TypeInv, Inductive, TypeInv', SaveSidecar
  PROVE  Inductive'
<1>1. /\ pc = "save" /\ pc' = "search" /\ pc \in Loop
      /\ UNCHANGED <<source, part, final, mode, build, watched, indexed, first, found, buf>>
  BY DEF SaveSidecar, Loop
<1>2. Checkpointed /\ Checkpointed' /\ sidecar \in Sidecars /\ sidecar # Missing
      /\ sidecar' # Missing
  BY <1>1, ValueAssumption DEF SaveSidecar, Checkpointed, HasSidecar, Ready, TypeInv,
     TypeOK, Modes, Sidecars
<1>3. /\ sidecar'.completed_rows = first - 1
      /\ sidecar'.signature = sidecar.signature
      /\ sidecar'.pilot_signature =
           IF Route = "landmark" /\ sidecar.pilot_signature = Missing
           THEN PilotOf[build] ELSE sidecar.pilot_signature
  BY <1>2 DEF SaveSidecar, Sidecars
<1>4. /\ Completed = sidecar.completed_rows /\ Completed \in 0..NRow
      /\ Completed' = first - 1 /\ first \in 1..(NRow + 1)
  BY <1>1, <1>2, <1>3, CompletedType DEF Completed, TypeInv, TypeOK
<1>5. Completed + 1 < first
  BY <1>1 DEF Inductive, Buffered
<1>6. sidecar.signature = watched
  BY <1>1, <1>2 DEF Inductive, Session
<1>7. Route = "landmark" => sidecar'.pilot_signature = PilotOf[build]
  <2>1. Route = "landmark" /\ Completed > 0 => PilotOf[build] = sidecar.pilot_signature
    BY <1>1 DEF Inductive, Session
  <2>2. Route = "landmark" /\ Completed = 0 => sidecar.pilot_signature = Missing
    BY <1>2, <1>4 DEF Inductive, Session
  <2>3. build \in Builds
    BY <1>1 DEF TypeInv, Ready
  <2>4. PilotOf[build] # Missing
    BY <2>3, ValueAssumption DEF Pilots
  <2>5. QED
    BY <1>3, <1>4, <2>1, <2>2, <2>4
<1>8. \A f \in Files : Data(f) = part[f] /\ Data(f)' = part[f] /\ part[f] # Missing
  BY <1>1, LoopFiles DEF Data
<1>9. CommittedRowsDurable'
  <2>1. ASSUME NEW r \in 1..(first - 1)
        PROVE  /\ part["indices"][r] \in Cells
               /\ part["indices"][r].row = r
               /\ part["indices"][r].source = sidecar.signature
               /\ part["distances"][r] = part["indices"][r]
               /\ Route = "landmark" =>
                     PilotOf[part["indices"][r].build] = PilotOf[build]
    <3>1. CASE r \in 1..Completed
      <4>1. Completed > 0
        BY <1>4, <3>1
      <4>2. Agree(sidecar.completed_rows, sidecar.signature)
        BY <1>2, <1>4, <4>1 DEF Inductive, CommittedRowsDurable
      <4>3. Route = "landmark" =>
               PilotOf[part["indices"][r].build] = sidecar.pilot_signature
        BY <1>2, <1>4, <1>8, <3>1, <4>1 DEF Inductive, CommittedRowsDurable, Files
      <4>4. Route = "landmark" => PilotOf[build] = sidecar.pilot_signature
        BY <1>1, <4>1 DEF Inductive, Session
      <4>5. QED
        BY <1>4, <1>8, <3>1, <4>2, <4>3, <4>4 DEF Agree, Files
    <3>2. CASE r \in (Completed + 1)..(first - 1)
      <4>1. Answered(part["indices"], r) /\ part["distances"][r] = part["indices"][r]
        BY <1>1, <3>2 DEF Inductive, Buffered
      <4>2. QED
        BY <1>6, <4>1 DEF Answered
    <3>3. QED
      BY <1>4, <2>1, <3>1, <3>2
  <2>2. QED
    BY <1>3, <1>7, <1>8, <2>1 DEF CommittedRowsDurable, Agree, Files
<1>10. Whole'
  BY <1>1, LoopFiles DEF Whole, Published, Files
<1>11. Names'
  BY <1>1, LoopFiles DEF Names, Loop, Files
<1>12. Session'
  <2>1. first - 1 > 0
    BY <1>4, <1>5
  <2>2. Route = "landmark" => indexed = watched["reference"]
    BY <1>1 DEF Inductive, Session
  <2>3. QED
    BY <1>1, <1>2, <1>3, <1>6, <1>7, <2>1, <2>2 DEF Session, Loop, Opening, Checkpointed
<1>13. Buffered'
  <2>1. \A r \in Rows : buf[r] = Hole
    <3>1. \A r \in Rows : r \notin (Completed + 1)..(first - 1) => buf[r] = Hole
      BY <1>1 DEF Inductive, Buffered
    <3>2. buf = NoRows
      BY <1>1 DEF Inductive, Buffered
    <3>3. QED
      BY <3>1, <3>2 DEF NoRows
  <2>2. (Completed' + 1)..(first' - 1) = {}
    BY <1>1, <1>4
  <2>3. Completed' < first'
    BY <1>1, <1>4
  <2>4. buf' = NoRows
    BY <1>1 DEF Inductive, Buffered
  <2>5. QED
    BY <1>1, <2>1, <2>2, <2>3, <2>4 DEF Buffered, Loop
<1>14. QED
  BY <1>9, <1>10, <1>11, <1>12, <1>13 DEF Inductive

(* Closing the connections keeps the committed rows of every file.         *)
LEMMA FlushAllKeeps ==
  ASSUME TypeInv, Inductive, pc # "idle", NEW reached \in [Files -> Nat],
         \A f \in Files : part'[f] = Flushed(part[f], reached[f])
  PROVE  /\ \A f \in Files : final[f] # Missing => part'[f] = Missing
         /\ sidecar # Missing /\ sidecar.completed_rows > 0 =>
              \A f \in Files : final[f] = Missing =>
                 /\ part'[f] # Missing
                 /\ \A r \in 1..sidecar.completed_rows : part'[f][r] = part[f][r]
<1>1. \A f \in Files : final[f] # Missing => part'[f] = Missing
  BY DEF Inductive, Names, Flushed
<1>2. ASSUME sidecar # Missing, sidecar.completed_rows > 0,
             NEW f \in Files, final[f] = Missing
      PROVE  /\ part'[f] # Missing
             /\ \A r \in 1..sidecar.completed_rows : part'[f][r] = part[f][r]
  <2>1. part[f] # Missing
    BY <1>2 DEF Inductive, CommittedRowsDurable, Data
  <2>2. 1 \in 1..sidecar.completed_rows
    BY <1>2 DEF TypeInv, TypeOK, Sidecars
  <2>3. QED
    BY <1>2, <2>1, <2>2, FlushKeeps
<1>3. QED
  BY <1>1, <1>2

LEMMA OnExitKeeps ==
  ASSUME TypeInv, Inductive, TypeInv', OnExit, pc \in Loop
  PROVE  Inductive'
<1>1. EndCall /\ UNCHANGED <<source, final, sidecar>> /\ pc # "idle"
  BY DEF OnExit, Loop
<1>2. CASE Checkpointed
  <2>1. \A f \in Files : part'[f] = Flushed(part[f], [g \in Files |-> NRow][f])
    BY <1>2 DEF OnExit
  <2>2. QED
    BY <1>1, <2>1, FlushAllKeeps, EndCallKeeps, NRowType
<1>3. CASE ~Checkpointed
  <2>1. \A f \in Files : part'[f] = Missing
    BY <1>3 DEF OnExit
  <2>2. ~(sidecar # Missing /\ sidecar.completed_rows > 0)
    BY <1>1, <1>3, Continues
  <2>3. QED
    BY <1>1, <2>1, <2>2, EndCallKeeps
<1>4. QED
  BY <1>2, <1>3

(* Both closed files are complete: every row is committed or buffered.     *)
LEMMA TruncateKeeps ==
  ASSUME TypeInv, Inductive, TypeInv', Truncate
  PROVE  Inductive'
<1> DEFINE closed == [f \in Files |-> Flushed(part[f], NRow)]
<1>1. /\ pc = "search" /\ pc \in Loop /\ first > NRow
      /\ UNCHANGED <<source, final, sidecar>>
  BY DEF Truncate, Loop
<1>2. CASE \A f \in Files : Filled(closed[f], NRow)
  <2>1. /\ part' = closed /\ buf' = NoRows /\ pc' = "rename_i"
        /\ UNCHANGED <<mode, build, watched, indexed, first, found>>
    BY <1>2 DEF Truncate
  <2>2. \A f \in Files : part'[f] = Flushed(part[f], [g \in Files |-> NRow][f])
    BY <2>1
  <2>3. CommittedRowsDurable'
    BY <1>1, <2>2, FlushAllKeeps, PartKeeps, NRowType
  <2>4. \A f \in Files : final[f] = Missing /\ part'[f] # Missing
    <3>1. \A f \in Files : final[f] = Missing /\ part[f] # Missing
      BY <1>1, LoopFiles
    <3>2. \A f \in Files : part'[f] # Missing
      BY <2>1, <3>1, FlushedType, NRowType, DisjointTypes
         DEF Flushed, TypeInv, TypeOK, Contents
    <3>3. QED
      BY <3>1, <3>2
  <2>5. \A f \in Files : Data(f)' = part'[f] /\ Data(f) = part[f]
    BY <1>1, <2>4 DEF Data
  <2>6. Completed \in 0..NRow /\ first = NRow + 1
    BY <1>1, CompletedType, NRowType DEF TypeInv, TypeOK
  <2> DEFINE answered == IF Completed > 0 THEN sidecar.signature ELSE watched
  <2>7. ASSUME NEW r \in Rows
        PROVE  /\ part'["indices"][r] \in Cells
               /\ part'["indices"][r].row = r
               /\ part'["indices"][r].source = answered
               /\ part'["distances"][r] = part'["indices"][r]
               /\ PilotOf[part'["indices"][r].build] = PilotOf[build]
    <3>1. CASE r \in 1..Completed
      <4>1. /\ Checkpointed /\ Completed = sidecar.completed_rows
            /\ sidecar.completed_rows > 0
        BY <2>6, <3>1 DEF Completed
      <4>2. sidecar # Missing
        BY <4>1 DEF TypeInv, HasSidecar, TypeOK, Checkpointed, Modes, Truncate
      <4>3. \A f \in Files : part'[f][r] = part[f][r]
        BY <1>1, <2>2, <2>4, <3>1, <4>1, <4>2, FlushAllKeeps, NRowType
      <4>4. Agree(Completed, answered)
        BY <1>1, <4>1, <4>2 DEF Inductive, CommittedRowsDurable
      <4>5. PilotOf[part["indices"][r].build] = PilotOf[build]
        <5>1. CASE Route = "landmark"
          <6>1. PilotOf[Data("indices")[r].build] = sidecar.pilot_signature
            BY <3>1, <4>1, <4>2, <5>1 DEF Inductive, CommittedRowsDurable
          <6>2. PilotOf[build] = sidecar.pilot_signature
            BY <1>1, <4>1, <5>1 DEF Inductive, Session
          <6>3. QED
            BY <2>5, <6>1, <6>2 DEF Files
        <5>2. CASE Route = "full"
          <6>1. part["indices"][r].build \in Builds
            BY <2>5, <3>1, <4>4 DEF Agree, Cells, Files
          <6>2. build \in Builds
            BY <1>1 DEF TypeInv, Ready
          <6>3. QED
            BY <5>2, <6>1, <6>2, RouteAssumption
        <5>3. QED
          BY <5>1, <5>2, RouteAssumption
      <4>6. QED
        BY <2>5, <3>1, <4>3, <4>4, <4>5 DEF Agree, Files
    <3>2. CASE r \in (Completed + 1)..(first - 1)
      <4>1. Answered(buf, r)
        BY <1>1, <3>2 DEF Inductive, Buffered
      <4>2. \A f \in Files : part'[f][r] = buf[r]
        BY <1>1, <2>1, <3>2, FlushWrites
      <4>3. answered = watched
        <5>1. Completed > 0 => Checkpointed
          BY DEF Completed
        <5>2. first # Completed + 1
          BY <2>6, <3>2
        <5>3. QED
          BY <1>1, <5>1, <5>2 DEF Inductive, Session
      <4>4. QED
        BY <4>1, <4>2, <4>3 DEF Answered, Files
    <3>3. QED
      BY <2>6, <3>1, <3>2, NRowType DEF Rows
  <2>8. Whole'
    <3>1. 1 \in Rows
      BY NRowType DEF Rows
    <3>2. answered \in Sources
      BY <2>7, <3>1 DEF Cells
    <3>3. \A r \in Rows :
            /\ Data("indices")'[r] \in Cells /\ Data("indices")'[r].row = r
            /\ Data("indices")'[r].source = answered
            /\ Data("distances")'[r] = Data("indices")'[r]
            /\ PilotOf[Data("indices")'[r].build] = PilotOf[build]
      BY <2>5, <2>7 DEF Files
    <3>4. QED
      BY <3>1, <3>2, <3>3 DEF Whole, Complete, Agree, Rows
  <2>9. Names'
    BY <1>1, <2>1, <2>4 DEF Names, Loop
  <2>10. Session'
    BY <1>1, <2>1 DEF Inductive, Session, Loop, Opening, Checkpointed
  <2>11. Buffered'
    BY <2>1 DEF Buffered, Loop
  <2>12. QED
    BY <2>3, <2>8, <2>9, <2>10, <2>11 DEF Inductive
<1>3. CASE ~\A f \in Files : Filled(closed[f], NRow)
  <2>1. OnExit
    BY <1>3 DEF Truncate, OnExit
  <2>2. QED
    BY <1>1, <2>1, OnExitKeeps
<1>4. QED
  BY <1>2, <1>3

LEMMA RenameIndicesKeeps ==
  ASSUME TypeInv, Inductive, RenameIndices
  PROVE  Inductive'
<1>1. /\ pc = "rename_i" /\ pc' = "rename_d"
      /\ UNCHANGED <<source, sidecar, mode, build, watched, indexed, first, found, buf>>
  BY DEF RenameIndices
<1>2. \A f \in Files : final[f] = Missing /\ part[f] # Missing
  BY <1>1 DEF Inductive, Names
<1>3. /\ final'["indices"] = part["indices"] /\ final'["distances"] = Missing
      /\ part'["indices"] = Missing /\ part'["distances"] = part["distances"]
  BY <1>2 DEF RenameIndices, TypeInv, TypeOK, Files
<1>4. Data("indices")' = Data("indices") /\ Data("distances")' = Data("distances")
  BY <1>2, <1>3 DEF Data, Files
<1>5. CommittedRowsDurable'
  BY <1>1, <1>4 DEF Inductive, CommittedRowsDurable, Agree, Files
<1>6. Whole'
  BY <1>1, <1>4 DEF Inductive, Whole, Complete, Agree
<1>7. Names'
  BY <1>1, <1>2, <1>3 DEF Names, Loop, Files
<1>8. Session'
  BY <1>1 DEF Inductive, Session, Loop, Opening, Checkpointed
<1>9. Buffered'
  BY <1>1 DEF Inductive, Buffered, Loop
<1>10. QED
  BY <1>5, <1>6, <1>7, <1>8, <1>9 DEF Inductive

LEMMA RenameDistancesKeeps ==
  ASSUME TypeInv, Inductive, RenameDistances
  PROVE  Inductive'
<1>1. /\ pc = "rename_d" /\ pc' = "retire"
      /\ UNCHANGED <<source, sidecar, mode, build, watched, indexed, first, found, buf>>
  BY DEF RenameDistances
<1>2. /\ final["indices"] # Missing /\ final["distances"] = Missing
      /\ part["distances"] # Missing /\ part["indices"] = Missing
  BY <1>1 DEF Inductive, Names, Files
<1>3. /\ final'["indices"] = final["indices"] /\ final'["distances"] = part["distances"]
      /\ part'["indices"] = Missing /\ part'["distances"] = Missing
  BY <1>2 DEF RenameDistances, TypeInv, TypeOK, Files
<1>4. Data("indices")' = Data("indices") /\ Data("distances")' = Data("distances")
  BY <1>2, <1>3 DEF Data
<1>5. CommittedRowsDurable'
  BY <1>1, <1>4 DEF Inductive, CommittedRowsDurable, Agree, Files
<1>6. Whole'
  BY <1>1, <1>4 DEF Inductive, Whole, Complete, Agree
<1>7. Names'
  BY <1>1, <1>2, <1>3 DEF Names, Loop, Files
<1>8. Session'
  BY <1>1 DEF Inductive, Session, Loop, Opening, Checkpointed
<1>9. Buffered'
  BY <1>1 DEF Inductive, Buffered, Loop
<1>10. QED
  BY <1>5, <1>6, <1>7, <1>8, <1>9 DEF Inductive

LEMMA RestoreIndicesKeeps ==
  ASSUME TypeInv, Inductive, RestoreIndices
  PROVE  Inductive'
<1>1. pc = "rename_d" /\ EndCall /\ UNCHANGED <<source, sidecar>>
  BY DEF RestoreIndices
<1>2. /\ final["indices"] # Missing /\ final["distances"] = Missing
      /\ part["distances"] # Missing
  BY <1>1 DEF Inductive, Names
<1>3. \A f \in Files : final'[f] = Missing
  BY <1>2 DEF RestoreIndices, TypeInv, TypeOK, Files
<1>4. CommittedRowsDurable'
  <2> SUFFICES ASSUME sidecar # Missing, sidecar.completed_rows > 0
               PROVE  CommittedRowsDurable'
    BY <1>1 DEF CommittedRowsDurable
  <2>1. Checkpointed
    BY <1>1, Continues
  <2>2. part'["indices"] = final["indices"] /\ part'["distances"] = part["distances"]
    BY <2>1 DEF RestoreIndices, TypeInv, TypeOK, Files
  <2>3. \A f \in Files : Data(f)' = Data(f)
    BY <1>2, <1>3, <2>2 DEF Data, Files
  <2>4. QED
    BY <1>1, <2>3 DEF Inductive, CommittedRowsDurable, Agree, Files
<1>5. Names' /\ Buffered'
  BY <1>1, <1>3 DEF EndCall, Names, Buffered, Loop
<1>6. Session'
  BY <1>1 DEF EndCall, Session, Inductive, Checkpointed, Loop, Opening, Completed
<1>7. Whole'
  BY <1>1, <1>3 DEF EndCall, Whole, Published, Files
<1>8. QED
  BY <1>4, <1>5, <1>6, <1>7 DEF Inductive

LEMMA RetireSidecarKeeps ==
  ASSUME TypeInv, Inductive, TypeInv', RetireSidecar
  PROVE  Inductive'
<1>1. pc = "retire" /\ EndCall /\ UNCHANGED <<source, part, final>>
  BY DEF RetireSidecar
<1>2. CASE Checkpointed
  <2>1. sidecar' = Missing
    BY <1>2 DEF RetireSidecar
  <2>2. Names'
    BY <1>1 DEF Inductive, Names, EndCall, Loop
  <2>3. Session' /\ Buffered'
    BY <1>1, <2>1 DEF Session, Buffered, EndCall, Loop, Opening, Checkpointed
  <2>4. CommittedRowsDurable'
    BY <2>1 DEF CommittedRowsDurable
  <2>5. Whole'
    BY <1>1 DEF Inductive, Whole, Complete, EndCall, Published, Agree, Data
  <2>6. QED
    BY <2>2, <2>3, <2>4, <2>5 DEF Inductive
<1>3. CASE ~Checkpointed
  <2>1. sidecar' = sidecar
    BY <1>3 DEF RetireSidecar
  <2>2. ~(sidecar # Missing /\ sidecar.completed_rows > 0)
    BY <1>1, <1>3, Continues
  <2>3. \A f \in Files : final[f] # Missing => part'[f] = Missing
    BY <1>1 DEF Inductive, Names
  <2>4. QED
    BY <1>1, <2>1, <2>2, <2>3, EndCallKeeps
<1>4. QED
  BY <1>2, <1>3

LEMMA CrashKeeps ==
  ASSUME TypeInv, Inductive, TypeInv', Crash
  PROVE  Inductive'
<1>1. pc # "idle" /\ EndCall /\ UNCHANGED <<source, final, sidecar>>
  BY DEF Crash
<1>2. PICK reached \in [Files -> 0..NRow] :
         part' = [f \in Files |-> Flushed(part[f], reached[f])]
  BY DEF Crash
<1>3. /\ reached \in [Files -> Nat]
      /\ \A f \in Files : part'[f] = Flushed(part[f], reached[f])
  BY <1>2, NRowType
<1>4. QED
  BY <1>1, <1>3, FlushAllKeeps, EndCallKeeps

(* A changed input makes a descriptor stale; only the reference that was   *)
(* indexed and is not yet signed must stay as it is.                       *)
LEMMA ChangeSourceKeeps ==
  ASSUME TypeInv, Inductive, TypeInv', ChangeSource, SignedAsIndexed
  PROVE  Inductive'
<1>1. UNCHANGED <<part, final, sidecar, pc, mode, build, watched, indexed, first, found, buf>>
  BY DEF ChangeSource, process
<1>2. PICK i \in Inputs : pc \in ChangeAt[i] /\ source' = [source EXCEPT ![i] = @ + 1]
  BY DEF ChangeSource
<1>3. CommittedRowsDurable' /\ Whole'
  BY <1>1, DiskKeeps
<1>4. Names'
  BY <1>1 DEF Inductive, Names, Loop
<1>5. Completed' = Completed
  BY <1>1 DEF Completed, Checkpointed
<1>6. ASSUME NEW j \in Inputs, pc # "idle", Stale(j)
      PROVE  Stale(j)'
  <2>1. source[j] \in Nat /\ watched[j] \in Nat
    BY <1>6, BoundAssumption DEF TypeInv, TypeOK, Ready, Sources, Versions
  <2>2. source'[j] = source[j] \/ source'[j] = source[j] + 1
    BY <1>2 DEF TypeInv, TypeOK, Sources
  <2>3. QED
    BY <1>1, <1>6, <2>1, <2>2 DEF Stale
<1>7. "query" \in Inputs /\ (Route = "landmark" => "reference" \in Inputs)
  BY DEF Inputs
<1>8. Route = "landmark" /\ pc = "create" => source'["reference"] = source["reference"]
  <2>1. Route = "landmark" /\ pc = "create" => i # "reference"
    BY <1>2 DEF SignedAsIndexed
  <2>2. QED
    BY <1>2, <1>7, <2>1 DEF TypeInv, TypeOK, Sources
<1>9. Session'
  BY <1>1, <1>5, <1>6, <1>7, <1>8
     DEF Inductive, Session, Loop, Opening, Checkpointed, SignedFor
<1>10. Buffered'
  BY <1>1, <1>5 DEF Inductive, Buffered, Loop, Answered
<1>11. QED
  BY <1>3, <1>4, <1>9, <1>10 DEF Inductive

LEMMA StutterKeeps ==
  ASSUME Inductive, UNCHANGED vars
  PROVE  Inductive'
<1>1. /\ UNCHANGED <<source, part, final, sidecar, pc, mode, build, watched, indexed>>
      /\ UNCHANGED <<first, found, buf>>
  BY DEF vars, disk, process
<1>2. CommittedRowsDurable' /\ Whole'
  BY <1>1, DiskKeeps
<1>3. Completed' = Completed
  BY <1>1 DEF Completed, Checkpointed
<1>4. Names' /\ Session'
  BY <1>1, <1>3 DEF Inductive, Names, Session, Checkpointed, SignedFor, Stale
<1>5. Buffered'
  BY <1>1, <1>3 DEF Inductive, Buffered, Answered
<1>6. QED
  BY <1>2, <1>4, <1>5 DEF Inductive

LEMMA NextInductive ==
  ASSUME SignedAsIndexed
  PROVE  TypeInv /\ Inductive /\ [Next]_vars => TypeInv' /\ Inductive'
<1> SUFFICES ASSUME TypeInv, Inductive, [Next]_vars
             PROVE  TypeInv' /\ Inductive'
  OBVIOUS
<1>1. TypeInv'
  BY NextType
<1>2. ASSUME NEW m \in Modes, Start(m)
      PROVE  Inductive'
  BY <1>2, StartKeeps
<1>3. CASE Step
  <2>1. SourceChanged => OnExit /\ pc \in Loop
    BY DEF SourceChanged, Loop
  <2>2. QED
    BY <1>1, <1>3, <2>1, BuildIndexKeeps, CreateSidecarKeeps, VerifyProbeKeeps,
       OpenIndicesKeeps, OpenDistancesKeeps, SearchKeeps,
       AppendBatchKeeps, FlushIndicesKeeps, FlushDistancesKeeps,
       SaveSidecarKeeps, TruncateKeeps, RenameIndicesKeeps,
       RenameDistancesKeeps, RetireSidecarKeeps, OnExitKeeps
       DEF Step
<1>4. CASE Environment
  <2>1. Fail => OnExit /\ pc \in Loop
    BY DEF Fail, Loop
  <2>2. QED
    BY <1>1, <1>4, <2>1, OnExitKeeps, RestoreIndicesKeeps, CrashKeeps,
       ChangeSourceKeeps DEF Environment
<1>5. CASE UNCHANGED vars
  BY <1>1, <1>5, StutterKeeps
<1>6. QED
  BY <1>1, <1>2, <1>3, <1>4, <1>5 DEF Next

(* The invariant itself: the files on disk agree with what the sidecar     *)
(* counts and with what the running call has buffered, whatever stops it.  *)
(* SignedAsIndexed holds on the full route; on the landmark route it       *)
(* leaves out the one change of the reference that no check of the code    *)
(* notices.                                                                *)
THEOREM InductiveHolds ==
  ASSUME SignedAsIndexed
  PROVE  Spec => []Inductive
BY InitType, InitInductive, NextInductive, PTL DEF Spec

(* Committed rows survive every crash and error, for every size, batch     *)
(* size, commit interval and set of index builds; under the same           *)
(* assumption.                                                             *)
THEOREM CommittedRowsStay ==
  ASSUME SignedAsIndexed
  PROVE  Spec => []CommittedRowsDurable
<1>1. Inductive => CommittedRowsDurable
  BY DEF Inductive
<1>2. QED
  BY <1>1, InitType, InitInductive, NextInductive, PTL DEF Spec

(* Whatever is published is complete, pairs the two files row by row, and  *)
(* answers one version of the inputs through indexes with one pilot; under *)
(* the same assumption.                                                    *)
THEOREM PublishedIsComplete ==
  ASSUME SignedAsIndexed
  PROVE  Spec => []PublishedComplete
<1>1. Inductive => PublishedComplete
  BY DEF Inductive, Whole, PublishedComplete
<1>2. QED
  BY <1>1, InitType, InitInductive, NextInductive, PTL DEF Spec

-----------------------------------------------------------------------------
(* KnnStream implements CommittedLog, for every value of its constants     *)
(* that satisfies SignedAsIndexed.  Two steps are steps of the log: saving *)
(* the sidecar commits the rows just flushed, and the second rename        *)
(* publishes.  Every other step, interruptions included, leaves the log    *)
(* as it is.                                                               *)

(* Rows of the log. *)
Count == IF Published THEN NRow
         ELSE IF sidecar # Missing THEN sidecar.completed_rows ELSE 0

LEMMA LogIs ==
  Log = [r \in 1..Count |-> <<Data("indices")[r], Data("distances")[r]>>]
  BY DEF Log, Count

LEMMA CountType == TypeInv => Count \in 0..NRow
<1>1. TypeInv /\ sidecar # Missing => sidecar.completed_rows \in 0..NRow
  BY DEF TypeInv, TypeOK, Sidecars
<1>2. QED
  BY <1>1, NRowType DEF Count

LEMMA LogType ==
  ASSUME TypeInv
  PROVE  Log \in Seq({Log[r] : r \in 1..Count}) /\ Len(Log) = Count
<1>1. Count \in Nat
  BY CountType, NRowType
<1>2. Log = [r \in 1..Count |-> Log[r]]
  BY LogIs
<1>3. QED
  BY <1>1, <1>2

(* The log stays as it is where its rows and their number do.              *)
LEMMA SameLog ==
  ASSUME Published' <=> Published, Count' = Count,
         \A f \in Files : \A r \in 1..Count : Data(f)'[r] = Data(f)[r]
  PROVE  UNCHANGED <<Log, Published>>
<1>1. Log' = [r \in 1..Count' |-> <<Data("indices")'[r], Data("distances")'[r]>>]
  BY DEF Log, Count
<1>2. Log' = Log
  BY <1>1, LogIs DEF Files
<1>3. Published' = Published
  BY DEF Published
<1>4. QED
  BY <1>2, <1>3

(* Where the rows of the log stay and more follow, it is extended, and the *)
(* invariant makes what it holds then paired.                              *)
LEMMA LongerLog ==
  ASSUME TypeInv, TypeInv', Inductive', Count <= Count',
         \A f \in Files : \A r \in 1..Count : Data(f)'[r] = Data(f)[r]
  PROVE  CL!IsPrefix(Log, Log') /\ Len(Log') = Count' /\ Len(Log') <= NRow /\ Paired(Log')
<1>1. Count \in Nat /\ Count' \in Nat /\ Count' <= NRow
  <2>1. sidecar' # Missing => sidecar'.completed_rows \in 0..NRow
    BY DEF TypeInv, TypeOK, Sidecars
  <2>2. Count' \in 0..NRow
    BY <2>1, NRowType DEF Count
  <2>3. QED
    BY <2>2, CountType, NRowType
<1>2. Log = [r \in 1..Count |-> <<Data("indices")[r], Data("distances")[r]>>]
  BY LogIs
<1>3. Log' = [r \in 1..Count' |-> <<Data("indices")'[r], Data("distances")'[r]>>]
  BY DEF Log, Count
<1>4. Len(Log) = Count /\ Len(Log') = Count'
  BY <1>1, <1>2, <1>3
<1>5. \A r \in 1..Count : Log'[r] = Log[r]
  BY <1>1, <1>2, <1>3 DEF Files
<1>6. CL!IsPrefix(Log, Log')
  <2>1. SubSeq(Log, 1, Count) = [r \in 1..Count |-> Log[r]]
    BY <1>1, <1>2
  <2>2. SubSeq(Log', 1, Count) = [r \in 1..Count |-> Log'[r]]
    BY <1>1, <1>3
  <2>3. SubSeq(Log, 1, Count) = SubSeq(Log', 1, Count)
    BY <2>1, <2>2, <1>5
  <2>4. QED
    BY <1>4, <2>3 DEF CL!IsPrefix
<1>7. ASSUME NEW r \in 1..Count'
      PROVE  Data("indices")'[r] \in Cells /\ Data("distances")'[r] = Data("indices")'[r]
  <2>1. CASE Published'
    BY <1>1, <1>7, <2>1 DEF Inductive, Whole, Complete, Agree, Count
  <2>2. CASE ~Published'
    <3>1. sidecar' # Missing /\ Count' = sidecar'.completed_rows
      BY <1>7, <2>2 DEF Count
    <3>2. sidecar'.completed_rows > 0
      BY <1>1, <1>7, <3>1
    <3>3. QED
      BY <1>7, <3>1, <3>2 DEF Inductive, CommittedRowsDurable, Agree
  <2>3. QED
    BY <2>1, <2>2
<1>8. Paired(Log')
  <2>1. ASSUME NEW r \in DOMAIN Log'
        PROVE  Log'[r][1] # Hole /\ Log'[r][1] = Log'[r][2]
    <3>1. r \in 1..Count'
      BY <2>1, <1>3
    <3>2. Log'[r] = <<Data("indices")'[r], Data("distances")'[r]>>
      BY <1>3, <3>1
    <3>3. QED
      BY <1>7, <3>1, <3>2, DisjointTypes
  <2>2. QED
    BY <2>1 DEF Paired
<1>9. QED
  BY <1>1, <1>4, <1>6, <1>8

-----------------------------------------------------------------------------
(* Steps that leave the log as it is.                                      *)

(* A step that moves no file and touches no sidecar keeps the log if the   *)
(* partial files keep their committed rows.                                *)
LEMMA PartLog ==
  ASSUME TypeInv, Inductive, UNCHANGED <<final, sidecar>>,
         sidecar # Missing /\ sidecar.completed_rows > 0 =>
            \A f \in Files : final[f] = Missing =>
               /\ part'[f] # Missing
               /\ \A r \in 1..sidecar.completed_rows : part'[f][r] = part[f][r]
  PROVE  UNCHANGED <<Log, Published>>
<1>1. Published' = Published
  BY DEF Published
<1>2. Count' = Count
  BY <1>1 DEF Count
<1>3. ASSUME NEW f \in Files, NEW r \in 1..Count
      PROVE  Data(f)'[r] = Data(f)[r]
  <2>1. CASE final[f] # Missing
    BY <2>1 DEF Data
  <2>2. CASE final[f] = Missing
    <3>1. ~Published
      BY <2>2 DEF Published
    <3>2. sidecar # Missing /\ Count = sidecar.completed_rows
      BY <1>3, <3>1 DEF Count
    <3>3. sidecar.completed_rows > 0
      BY <1>3, <3>2, CountType, NRowType
    <3>4. QED
      BY <1>3, <2>2, <3>2, <3>3 DEF Data
  <2>3. QED
    BY <2>1, <2>2
<1>4. QED
  BY <1>1, <1>2, <1>3, SameLog

(* A step that changes none of the files.                                  *)
LEMMA DiskLog ==
  ASSUME UNCHANGED <<part, final, sidecar>>
  PROVE  UNCHANGED <<Log, Published>>
<1>1. Published' = Published /\ Count' = Count /\ \A f \in Files : Data(f)' = Data(f)
  BY DEF Published, Count, Data
<1>2. QED
  BY <1>1, SameLog

LEMMA CreateLog ==
  ASSUME TypeInv, Inductive, CreateSidecar
  PROVE  UNCHANGED <<Log, Published>>
<1>1. pc = "create" /\ UNCHANGED <<part, final>>
  BY DEF CreateSidecar
<1>2. CASE sidecar = Missing
  <2>1. sidecar' \in Sidecars /\ sidecar'.completed_rows = 0
    BY <1>2, NRowType DEF CreateSidecar, TypeInv, TypeOK, Sidecars
  <2>2. sidecar' # Missing
    BY <2>1, DisjointTypes
  <2>3. ~Published /\ ~Published'
    BY <1>1 DEF Inductive, Names, Published, Files
  <2>4. Count = 0 /\ Count' = 0
    BY <1>2, <2>1, <2>2, <2>3 DEF Count
  <2>5. \A f \in Files : \A r \in 1..Count : Data(f)'[r] = Data(f)[r]
    BY <2>4
  <2>6. QED
    BY <2>3, <2>4, <2>5, SameLog
<1>3. CASE sidecar # Missing
  <2>1. sidecar' = sidecar
    BY <1>3 DEF CreateSidecar
  <2>2. QED
    BY <1>1, <2>1, DiskLog
<1>4. QED
  BY <1>2, <1>3

LEMMA OpenLog ==
  ASSUME TypeInv, Inductive, OpenIndices \/ OpenDistances
  PROVE  UNCHANGED <<Log, Published>>
<1>1. pc \in {"open_i", "open_d"} /\ UNCHANGED <<final, sidecar>>
  BY DEF OpenIndices, OpenDistances
<1>2. ASSUME sidecar # Missing, sidecar.completed_rows > 0, NEW f \in Files,
             final[f] = Missing
      PROVE  part'[f] # Missing /\ part'[f] = part[f]
  <2>1. Completed > 0
    BY <1>1, <1>2, Continues
  <2>2. part' = part
    BY <2>1 DEF OpenIndices, OpenDistances, Opened, TypeInv, TypeOK, Files
  <2>3. part[f] # Missing
    BY <1>2 DEF Inductive, CommittedRowsDurable, Data
  <2>4. QED
    BY <2>2, <2>3
<1>3. QED
  BY <1>1, <1>2, PartLog

LEMMA FlushLog ==
  ASSUME TypeInv, Inductive, FlushIndices \/ FlushDistances
  PROVE  UNCHANGED <<Log, Published>>
<1>1. pc \in Loop /\ pc # "idle" /\ UNCHANGED <<final, sidecar>>
  BY DEF FlushIndices, FlushDistances, Loop
<1>2. \A f \in Files : part'[f] = part[f] \/ part'[f] = Flushed(part[f], NRow)
  BY DEF FlushIndices, FlushDistances, TypeInv, TypeOK, Files
<1>3. ASSUME sidecar # Missing, sidecar.completed_rows > 0, NEW f \in Files
      PROVE  /\ part'[f] # Missing
             /\ \A r \in 1..sidecar.completed_rows : part'[f][r] = part[f][r]
  <2>1. part[f] # Missing
    BY <1>1, LoopFiles
  <2>2. 1 \in 1..sidecar.completed_rows
    BY <1>3 DEF TypeInv, TypeOK, Sidecars
  <2>3. QED
    BY <1>1, <1>2, <1>3, <2>1, <2>2, FlushKeeps, NRowType
<1>4. QED
  BY <1>1, <1>3, PartLog

(* Closing the connections, whether the call stops or the process dies.    *)
LEMMA CloseLog ==
  ASSUME TypeInv, Inductive, pc # "idle", UNCHANGED <<final, sidecar>>,
         NEW reached \in [Files -> Nat],
         Checkpointed => \A f \in Files : part'[f] = Flushed(part[f], reached[f])
  PROVE  UNCHANGED <<Log, Published>>
<1>1. CASE Checkpointed
  BY <1>1, FlushAllKeeps, PartLog
<1>2. CASE ~Checkpointed
  <2>1. ~(sidecar # Missing /\ sidecar.completed_rows > 0)
    BY <1>2, Continues
  <2>2. QED
    BY <2>1, PartLog
<1>3. QED
  BY <1>1, <1>2

LEMMA OnExitLog ==
  ASSUME TypeInv, Inductive, OnExit, pc # "idle"
  PROVE  UNCHANGED <<Log, Published>>
<1>1. [f \in Files |-> NRow] \in [Files -> Nat]
  BY NRowType
<1>2. Checkpointed => \A f \in Files : part'[f] = Flushed(part[f], [g \in Files |-> NRow][f])
  BY DEF OnExit
<1>3. UNCHANGED <<final, sidecar>>
  BY DEF OnExit
<1>4. QED
  BY <1>1, <1>2, <1>3, CloseLog

LEMMA TruncateLog ==
  ASSUME TypeInv, Inductive, Truncate
  PROVE  UNCHANGED <<Log, Published>>
<1>1. [f \in Files |-> NRow] \in [Files -> Nat]
  BY NRowType
<1>2. Checkpointed => \A f \in Files : part'[f] = Flushed(part[f], [g \in Files |-> NRow][f])
  BY DEF Truncate
<1>3. pc # "idle" /\ UNCHANGED <<final, sidecar>>
  BY DEF Truncate
<1>4. QED
  BY <1>1, <1>2, <1>3, CloseLog

LEMMA CrashLog ==
  ASSUME TypeInv, Inductive, Crash
  PROVE  UNCHANGED <<Log, Published>>
<1>1. pc # "idle" /\ UNCHANGED <<final, sidecar>>
  BY DEF Crash
<1>2. PICK reached \in [Files -> 0..NRow] :
         part' = [f \in Files |-> Flushed(part[f], reached[f])]
  BY DEF Crash
<1>3. /\ reached \in [Files -> Nat]
      /\ \A f \in Files : part'[f] = Flushed(part[f], reached[f])
  BY <1>2, NRowType
<1>4. QED
  BY <1>1, <1>3, CloseLog

(* Moving one of the two files, in either direction.                       *)
LEMMA RenameIndicesLog ==
  ASSUME TypeInv, Inductive, RenameIndices
  PROVE  UNCHANGED <<Log, Published>>
<1>1. pc = "rename_i" /\ sidecar' = sidecar
  BY DEF RenameIndices
<1>2. \A f \in Files : final[f] = Missing /\ part[f] # Missing
  BY <1>1 DEF Inductive, Names
<1>3. /\ final'["indices"] = part["indices"] /\ final'["distances"] = Missing
      /\ part'["distances"] = part["distances"]
  BY <1>2 DEF RenameIndices, TypeInv, TypeOK, Files
<1>4. \A f \in Files : Data(f)' = Data(f)
  BY <1>2, <1>3 DEF Data, Files
<1>5. ~Published /\ ~Published'
  BY <1>2, <1>3 DEF Published, Files
<1>6. Count' = Count
  BY <1>1, <1>5 DEF Count
<1>7. QED
  BY <1>4, <1>5, <1>6, SameLog

LEMMA RestoreIndicesLog ==
  ASSUME TypeInv, Inductive, RestoreIndices
  PROVE  UNCHANGED <<Log, Published>>
<1>1. pc = "rename_d" /\ sidecar' = sidecar
  BY DEF RestoreIndices
<1>2. final["indices"] # Missing /\ final["distances"] = Missing
  BY <1>1 DEF Inductive, Names
<1>3. \A f \in Files : final'[f] = Missing
  BY <1>2 DEF RestoreIndices, TypeInv, TypeOK, Files
<1>4. ~Published /\ ~Published'
  BY <1>2, <1>3 DEF Published, Files
<1>5. Count' = Count
  BY <1>1, <1>4 DEF Count
<1>6. ASSUME NEW f \in Files, NEW r \in 1..Count
      PROVE  Data(f)'[r] = Data(f)[r]
  <2>1. sidecar # Missing /\ sidecar.completed_rows > 0
    BY <1>4, <1>6, CountType, NRowType DEF Count
  <2>2. Checkpointed
    BY <1>1, <2>1, Continues
  <2>3. part'["indices"] = final["indices"] /\ part'["distances"] = part["distances"]
    BY <2>2 DEF RestoreIndices, TypeInv, TypeOK, Files
  <2>4. QED
    BY <1>2, <1>3, <2>3 DEF Data, Files
<1>7. QED
  BY <1>4, <1>5, <1>6, SameLog

LEMMA RetireLog ==
  ASSUME TypeInv, Inductive, RetireSidecar
  PROVE  UNCHANGED <<Log, Published>>
<1>1. UNCHANGED <<part, final>>
  BY DEF RetireSidecar
<1>2. Published
  BY DEF RetireSidecar, Inductive, Names, Published
<1>3. Published' /\ Count' = Count /\ \A f \in Files : Data(f)' = Data(f)
  BY <1>1, <1>2 DEF Published, Count, Data
<1>4. QED
  BY <1>2, <1>3, SameLog

-----------------------------------------------------------------------------
(* The two steps of the log.                                               *)

LEMMA SaveCommits ==
  ASSUME TypeInv, Inductive, TypeInv', Inductive', SaveSidecar
  PROVE  CL!Commit
<1>1. pc = "save" /\ pc \in Loop /\ UNCHANGED <<part, final>>
  BY DEF SaveSidecar, Loop
<1>2. ~Published /\ ~Published'
  BY <1>1, LoopFiles DEF Published, Files
<1>3. sidecar \in Sidecars /\ sidecar # Missing /\ Checkpointed
  BY <1>1, ValueAssumption
     DEF HasSidecar, Ready, Checkpointed, TypeInv, TypeOK, Modes
<1>4. sidecar' # Missing /\ sidecar'.completed_rows = first - 1
  <2>1. mode' = mode /\ pc' = "search"
    BY DEF SaveSidecar
  <2>2. sidecar' # Missing
    BY <1>3, <2>1 DEF HasSidecar, Checkpointed, TypeInv, TypeOK, Modes
  <2>3. sidecar'.completed_rows = first - 1
    BY <1>3 DEF SaveSidecar, Sidecars
  <2>4. QED
    BY <2>2, <2>3
<1>5. Count = Completed /\ Count' = first - 1
  BY <1>2, <1>3, <1>4 DEF Count, Completed
<1>6. Count <= Count'
  <2>1. Completed + 1 < first
    BY <1>1 DEF Inductive, Buffered
  <2>2. Completed \in Nat /\ first \in Nat
    BY <1>1, CompletedType, NRowType DEF TypeInv, TypeOK
  <2>3. QED
    BY <1>5, <2>1, <2>2
<1>7. \A f \in Files : Data(f)' = Data(f)
  BY <1>1 DEF Data
<1>8. CL!IsPrefix(Log, Log') /\ Len(Log') <= NRow /\ Paired(Log')
  BY <1>6, <1>7, LongerLog
<1>9. Published' = FALSE
  BY <1>2 DEF Published
<1>10. QED
  BY <1>2, <1>8, <1>9 DEF CL!Commit

LEMMA RenamePublishes ==
  ASSUME TypeInv, Inductive, TypeInv', Inductive', RenameDistances
  PROVE  CL!Publish
<1>1. pc = "rename_d"
  BY DEF RenameDistances
<1>2. /\ final["indices"] # Missing /\ final["distances"] = Missing
      /\ part["distances"] # Missing
  BY <1>1 DEF Inductive, Names
<1>3. final'["indices"] = final["indices"] /\ final'["distances"] = part["distances"]
  BY DEF RenameDistances, TypeInv, TypeOK, Files
<1>4. ~Published /\ Published'
  BY <1>2, <1>3 DEF Published, Files
<1>5. \A f \in Files : Data(f)' = Data(f)
  BY <1>2, <1>3 DEF Data, Files
<1>6. Count' = NRow /\ Count <= Count'
  BY <1>4, CountType, NRowType DEF Count
<1>7. CL!IsPrefix(Log, Log') /\ Len(Log') = NRow /\ Paired(Log')
  BY <1>5, <1>6, LongerLog
<1>8. Published' = TRUE
  BY <1>4 DEF Published
<1>9. QED
  BY <1>4, <1>7, <1>8 DEF CL!Publish

LEMMA InitLog == Init => CL!Init
<1> SUFFICES ASSUME Init PROVE CL!Init
  OBVIOUS
<1>1. ~Published /\ Count = 0
  BY DEF Init, Published, Files, Count
<1>2. Log = <<>>
  BY <1>1, LogIs
<1>3. Published = FALSE
  BY <1>1 DEF Published
<1>4. QED
  BY <1>2, <1>3, SizeAssumption DEF CL!Init

LEMMA NextLog ==
  ASSUME SignedAsIndexed
  PROVE  TypeInv /\ Inductive /\ [Next]_vars => [CL!Next]_CL!vars
<1> SUFFICES ASSUME TypeInv, Inductive, [Next]_vars
             PROVE  CL!Next \/ UNCHANGED <<Log, Published>>
  BY DEF CL!vars
<1>1. TypeInv' /\ Inductive'
  BY NextInductive
<1>2. ASSUME NEW m \in Modes, Start(m)
      PROVE  UNCHANGED <<Log, Published>>
  BY <1>2, DiskLog DEF Start, disk
<1>3. CASE Step
  <2>1. BuildIndex \/ VerifyProbe \/ Search \/ AppendBatch => UNCHANGED <<Log, Published>>
    BY DiskLog DEF BuildIndex, VerifyProbe, Search, AppendBatch, disk
  <2>2. CreateSidecar => UNCHANGED <<Log, Published>>
    BY CreateLog
  <2>3. OpenIndices \/ OpenDistances \/ FlushIndices \/ FlushDistances
          => UNCHANGED <<Log, Published>>
    BY OpenLog, FlushLog
  <2>4. Truncate \/ RenameIndices \/ RetireSidecar => UNCHANGED <<Log, Published>>
    BY TruncateLog, RenameIndicesLog, RetireLog
  <2>5. SourceChanged => UNCHANGED <<Log, Published>>
    BY OnExitLog DEF SourceChanged
  <2>6. SaveSidecar => CL!Next
    BY <1>1, SaveCommits DEF CL!Next
  <2>7. RenameDistances => CL!Next
    BY <1>1, RenamePublishes DEF CL!Next
  <2>8. QED
    BY <1>3, <2>1, <2>2, <2>3, <2>4, <2>5, <2>6, <2>7 DEF Step
<1>4. CASE Environment
  <2>1. Fail => UNCHANGED <<Log, Published>>
    BY OnExitLog DEF Fail
  <2>2. ChangeSource => UNCHANGED <<Log, Published>>
    BY DiskLog DEF ChangeSource
  <2>3. QED
    BY <1>4, <2>1, <2>2, RestoreIndicesLog, CrashLog DEF Environment
<1>5. CASE UNCHANGED vars
  BY <1>5, DiskLog DEF vars, disk
<1>6. QED
  BY <1>2, <1>3, <1>4, <1>5 DEF Next

(* The streamed writer keeps the promise of a committed log: over any      *)
(* number of crashes, errors, resumed calls and rebuilt indexes, the rows  *)
(* a sidecar has counted are never rewritten, and the output gets its two  *)
(* final names once, when every row pairs an answer in both files.         *)
THEOREM ImplementsCommittedLog ==
  ASSUME SignedAsIndexed
  PROVE  Spec => KeepsCommittedLog
<1>1. Init => CL!Init
  BY InitLog
<1>2. TypeInv /\ Inductive /\ [Next]_vars => [CL!Next]_CL!vars
  BY NextLog
<1>3. Spec => []TypeInv
  BY InitType, NextType, PTL DEF Spec
<1>4. Spec => []Inductive
  BY InductiveHolds
<1>5. Spec => CL!Spec
  BY <1>1, <1>2, <1>3, <1>4, PTL DEF Spec, CL!Spec
<1>6. QED
  BY <1>5 DEF KeepsCommittedLog
=============================================================================
