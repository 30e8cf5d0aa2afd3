--------------------------- MODULE GraphSortProofs ---------------------------
(* The external sort, for every graph, block size, commit interval, run    *)
(* size and fan-in, and any number of interruptions and rewritten inputs.  *)
EXTENDS GraphSort, FiniteSetTheorems, WellFoundedInduction, TLAPS

-----------------------------------------------------------------------------
(* What the runs hold.  The parameters o and s are the version the call    *)
(* opened and the one the source has now: an edge may have been read from  *)
(* any version between them.                                               *)

(* The pair records of the first n edges. *)
Exactly(records, n, o, s) ==
    /\ records \subseteq {Pair(i, v) : i \in 1..n, v \in o..s}
    /\ \A i \in 1..n : \E v \in o..s : Pair(i, v) \in records

(* The row records of all of them. *)
Merged(records, o, s) ==
    \E pairs \in SUBSET PairRecords : Exactly(pairs, NEdge, o, s) /\ records = Rows(pairs)

Apart(dir, names) == \A m, n \in names : m # n => dir[m] \cap dir[n] = {}

(* Runs of one kind that are there and have no record in common. *)
RunsOf(dir, names, kind) ==
    /\ names \subseteq DOMAIN dir /\ IsFiniteSet(names)
    /\ \A n \in names : n \in RunNames /\ n.kind = kind
    /\ Apart(dir, names)

(* Runs that hold the whole input. *)
Hold(dir, names, kind, o, s) ==
    /\ RunsOf(dir, names, kind)
    /\ IF kind = "pairs" THEN Exactly(Contents(dir, names), NEdge, o, s)
       ELSE Merged(Contents(dir, names), o, s)

(* Runs as they are spilled one after another. *)
InOrder(names, kind) ==
    names = {RunName(kind, "run", i) : i \in 0..(Cardinality(names) - 1)}

-----------------------------------------------------------------------------
(* The inductive invariant.                                                *)

Csr(records) == [f \in Files |-> records]
Late == {"idle", "clear", "publish", "close", "vouch", "retire"}

SortTypeOK ==
    /\ source \in Versions
    /\ stops \in Nat
    /\ pc \in Points /\ mode \in Modes
    /\ done \in 0..NEdge
    /\ opened \in {Missing} \cup Versions
    /\ work = NoDir \/ DOMAIN work \subseteq RunNames
    /\ part = [f \in Files |-> part[f]] /\ final = [f \in Files |-> final[f]]

(* A running call knows its version; only the end of a call publishes.     *)
CallHolds ==
    /\ pc # "idle" => opened \in 0..source
    /\ pc # "idle" /\ mode = "plain" => sidecar = Missing
    /\ pc \in {"idle", "open"} => done = 0 /\ buffer = {} /\ runs = {} /\ fresh = {}
    /\ pc \in {"scan", "merge", "csr"} => fresh = {}
    /\ pc \notin Late => final = Nothing
    /\ pc = "clear" => final = Nothing
    /\ pc \notin {"idle", "retire"} => manifest = Missing
    /\ pc = "commit" => Checkpointed

(* What a sidecar holds, the source having come to version now. *)
SidecarWhole(s, now) ==
    /\ DOMAIN s = {"signature", "completed", "phase", "runs"}
    /\ s.signature \in 0..now
    /\ s.completed \in 0..NEdge
    /\ s.phase \in Phases
    /\ s.phase = "pairs_input" => InOrder(DOMAIN s.runs, "pairs")
    /\ s.phase # "pairs_input" => s.completed = NEdge
    /\ IF RowPhase(s)
       THEN /\ RunsOf(s.runs, DOMAIN s.runs, "rows")
            /\ Merged(Contents(s.runs, DOMAIN s.runs), s.signature, now)
       ELSE /\ RunsOf(s.runs, DOMAIN s.runs, "pairs")
            /\ Exactly(Contents(s.runs, DOMAIN s.runs), s.completed, s.signature, now)

SidecarHolds ==
    /\ sidecar # Missing => SidecarWhole(sidecar, source)
    /\ pc # "idle" /\ Checkpointed => SidecarWhole(sidecar, source) /\ sidecar.signature = opened
    /\ pc = "open" /\ mode = "new" =>
          ~RowPhase(sidecar) /\ sidecar.completed = 0 /\ DOMAIN sidecar.runs = {}

(* The runs it names are on disk until the CSR files are complete.         *)
SidecarRunsThere ==
    /\ sidecar # Missing => RunsIntact(sidecar) \/ (pc \in Late /\ WholeCsr)
    /\ pc \notin Late /\ Checkpointed => RunsIntact(sidecar)

(* While the input is read, runs and buffer hold the edges read so far.    *)
Scanned ==
    pc = "scan" =>
        /\ work # NoDir
        /\ RunsOf(work, runs, "pairs")
        /\ Contents(work, runs) \cap buffer = {}
        /\ Exactly(Contents(work, runs) \cup buffer, done, opened, source)
        /\ \/ InOrder(runs, "pairs")
           \/ done = NEdge /\ buffer = {} /\ Checkpointed /\ sidecar.completed = NEdge
        /\ Checkpointed =>
              /\ ~RowPhase(sidecar)
              /\ DOMAIN sidecar.runs \subseteq runs
              /\ sidecar.completed <= done
              /\ done = sidecar.completed => buffer = {} /\ runs = DOMAIN sidecar.runs

(* Between merges the runs in hand, and those that replace them, hold all. *)
Reduced ==
    /\ pc \in {"merge", "commit", "csr"} => Hold(work, runs, Kind, opened, source)
    /\ pc = "csr" => Kind = "rows"
    /\ pc = "commit" => Hold(work, fresh, Kind, opened, source)
    /\ pc = "drop" => \E kind \in {"pairs", "rows"} : Hold(work, fresh, kind, opened, source)
    /\ Checkpointed =>
          /\ pc \in {"merge", "commit", "drop", "emit", "csr"} => sidecar.completed = NEdge
          /\ pc \in {"merge", "commit", "emit", "csr"} => DOMAIN sidecar.runs = runs
          /\ pc = "drop" => DOMAIN sidecar.runs = fresh

(* The rows that are spilled and those that are left are the rows of the   *)
(* pairs in hand.                                                          *)
Emitted ==
    pc = "emit" =>
        /\ Hold(work, runs, "pairs", opened, source)
        /\ RunsOf(work, fresh, "rows") /\ InOrder(fresh, "rows")
        /\ Contents(work, fresh) \cap left = {}
        /\ Contents(work, fresh) \cup left = Rows(Contents(work, runs))

(* The three files hold one graph, under the one name or the other.        *)
CsrThere ==
    /\ pc = "clear" =>
          \E records \in {part[f] : f \in Files} :
             Merged(records, opened, source) /\ part = Csr(records)
    /\ pc = "publish" =>
          \E records \in {part[f] : f \in Files} \cup {final[f] : f \in Files} :
             /\ Merged(records, opened, source)
             /\ \A f \in Files : \/ part[f] = records /\ final[f] = Missing
                                 \/ part[f] = Missing /\ final[f] = records
    /\ pc \in {"close", "vouch", "retire"} =>
          \E records \in {final[f] : f \in Files} :
             Merged(records, opened, source) /\ final = Csr(records)

SortIInv ==
    /\ SortTypeOK /\ CallHolds /\ SidecarHolds /\ SidecarRunsThere
    /\ Scanned /\ Reduced /\ Emitted /\ CsrThere /\ ManifestVouches
-----------------------------------------------------------------------------
(* Numbers.                                                                *)

Less == OpToRel(<, Nat)

LEMMA LessWellFounded == IsWellFoundedOn(Less, Nat)
  BY NatLessThanWellFounded DEF Less, OpToRel

LEMMA LessIs == ASSUME NEW m \in Nat, NEW n \in Nat
                PROVE  <<m, n>> \in Less <=> m < n
  BY DEF Less, OpToRel

(* A set of numbers has a least one. *)
LEMMA LeastOf ==
    ASSUME NEW T, T \subseteq Nat, T # {}
    PROVE  \E x \in T : \A y \in T : x <= y
<1>1. PICK x \in T : \A y \in T : ~(<<y, x>> \in Less)
  BY LessWellFounded, WFMin
<1>2. ASSUME NEW y \in T PROVE x <= y
  <2>1. x \in Nat /\ y \in Nat
    BY <1>1
  <2>2. ~(y < x)
    BY <1>1, <2>1, LessIs
  <2> QED
    BY <2>1, <2>2
<1> QED
  BY <1>2

(* Finitely many numbers have a bound. *)
Bounded(n) == \A f \in [1..n -> Nat] : \E b \in Nat : \A i \in 1..n : f[i] <= b

LEMMA BoundedNext ==
    ASSUME NEW n \in Nat, Bounded(n)
    PROVE  Bounded(n + 1)
<1> SUFFICES ASSUME NEW f \in [1..(n + 1) -> Nat]
             PROVE  \E b \in Nat : \A i \in 1..(n + 1) : f[i] <= b
  BY DEF Bounded
<1>1. [i \in 1..n |-> f[i]] \in [1..n -> Nat]
  OBVIOUS
<1>2. PICK b \in Nat : \A i \in 1..n : [j \in 1..n |-> f[j]][i] <= b
  BY <1>1 DEF Bounded
<1>3. \A i \in 1..n : f[i] <= b
  BY <1>2
<1>4. PICK c \in Nat : c = f[n + 1]
  OBVIOUS
<1>5. ASSUME NEW i \in 1..(n + 1) PROVE f[i] <= b + c
  <2>1. f[i] \in Nat
    OBVIOUS
  <2>2. i \in 1..n => f[i] <= b
    BY <1>3
  <2>3. i \in 1..n \/ i = n + 1
    OBVIOUS
  <2> QED
    BY <2>1, <2>2, <2>3, <1>4
<1>6. b + c \in Nat
  OBVIOUS
<1> QED
  BY <1>5, <1>6

LEMMA AlwaysBounded == \A n \in Nat : Bounded(n)
<1> DEFINE T == {n \in Nat : ~Bounded(n)}
<1> SUFFICES ASSUME T # {} PROVE FALSE
  OBVIOUS
<1>1. T \subseteq Nat
  OBVIOUS
<1>2. PICK n \in T : \A m \in T : n <= m
  <2> HIDE DEF T
  <2> QED
    BY <1>1, LeastOf
<1>3. n \in Nat /\ ~Bounded(n)
  OBVIOUS
<1>4. Bounded(0)
  <2> SUFFICES ASSUME NEW f \in [1..0 -> Nat]
               PROVE  \E b \in Nat : \A i \in 1..0 : f[i] <= b
    BY DEF Bounded
  <2>1. \A i \in 1..0 : f[i] <= 0
    OBVIOUS
  <2> QED
    BY <2>1
<1>5. n # 0
  BY <1>3, <1>4
<1>6. n - 1 \in Nat /\ (n - 1) + 1 = n /\ ~(n <= n - 1)
  BY <1>3, <1>5
<1>7. Bounded(n - 1)
  BY <1>2, <1>6
<1>8. Bounded((n - 1) + 1)
  BY <1>6, <1>7, BoundedNext
<1> QED
  BY <1>3, <1>6, <1>8

LEMMA FiniteBounded ==
    ASSUME NEW S, S \subseteq Nat, IsFiniteSet(S)
    PROVE  \E b \in Nat : \A x \in S : x <= b
<1>1. PICK n \in Nat : ExistsBijection(1..n, S)
  BY FS_NatBijection
<1>2. PICK f : f \in Bijection(1..n, S)
  BY <1>1 DEF ExistsBijection
<1>3. f \in [1..n -> S] /\ \A x \in S : \E i \in 1..n : f[i] = x
  BY <1>2 DEF Bijection, Surjection, Injection
<1>4. f \in [1..n -> Nat]
  BY <1>3
<1>5. PICK b \in Nat : \A i \in 1..n : f[i] <= b
  BY <1>4, AlwaysBounded DEF Bounded
<1> QED
  BY <1>3, <1>5

(* The largest of finitely many numbers. *)
LEMMA MaxOfFinite ==
    ASSUME NEW S, S \subseteq Nat, IsFiniteSet(S), S # {}
    PROVE  Max(S) \in S /\ \A x \in S : x <= Max(S)
<1>1. PICK b \in Nat : \A x \in S : x <= b
  BY FiniteBounded
<1>2. {b - x : x \in S} \subseteq Nat
  BY <1>1
<1>3. {b - x : x \in S} # {}
  OBVIOUS
<1>4. PICK m \in {b - x : x \in S} : \A y \in {b - x : x \in S} : m <= y
  BY <1>2, <1>3, LeastOf
<1>5. PICK x \in S : m = b - x
  BY <1>4
<1>6. ASSUME NEW y \in S PROVE x >= y
  <2>1. b - x <= b - y
    BY <1>4, <1>5
  <2>2. x \in Nat /\ y \in Nat
    BY <1>5
  <2> QED
    BY <2>1, <2>2
<1>7. Max(S) \in S /\ \A y \in S : Max(S) >= y
  BY <1>6 DEF Max
<1> QED
  BY <1>7
-----------------------------------------------------------------------------
(* Records.                                                                *)

LEMMA InputHas ==
    /\ NEdge \in Nat /\ NEdge > 0
    /\ DOMAIN Input = 1..NEdge
    /\ \A i \in 1..NEdge : /\ Input[i] \in Nat \X Nat
                           /\ Input[i][1] \in Nat /\ Input[i][2] \in Nat
                           /\ Input[i][1] # Input[i][2]
                           /\ Input[i] = <<Input[i][1], Input[i][2]>>
<1>1. Input \in Seq(Nat \X Nat) /\ Len(Input) > 0
  BY InputAssumption
<1>2. NEdge \in Nat /\ NEdge > 0 /\ DOMAIN Input = 1..NEdge
  BY <1>1 DEF NEdge
<1>3. ASSUME NEW i \in 1..NEdge PROVE Input[i] \in Nat \X Nat
  BY <1>1, <1>2
<1>4. ASSUME NEW i \in 1..NEdge PROVE Input[i][1] # Input[i][2]
  BY <1>2, InputAssumption
<1> QED
  BY <1>2, <1>3, <1>4

(* A pair record tells which edge it is of, and in which version. *)
LEMMA PairsDiffer ==
    ASSUME NEW i \in 1..NEdge, NEW j \in 1..NEdge, NEW v, NEW w, Pair(i, v) = Pair(j, w)
    PROVE  i = j /\ v = w
<1>1. v = w /\ Input[i][1] = Input[j][1]
  BY DEF Pair
<1>2. {Input[i][1], Input[i][2]} = {Input[j][1], Input[j][2]}
  BY DEF Pair
<1>3. Input[i][2] = Input[j][2]
  BY <1>1, <1>2, InputHas
<1>4. Input[i] = Input[j]
  BY <1>1, <1>3, InputHas
<1>5. i = j
  BY <1>4, InputHas, InputAssumption
<1> QED
  BY <1>1, <1>5

LEMMA ExactlyGrows ==
    ASSUME NEW records, NEW n, NEW o \in Nat, NEW s \in Nat, NEW t \in Nat, s <= t,
           Exactly(records, n, o, s)
    PROVE  Exactly(records, n, o, t)
<1>1. o..s \subseteq o..t
  OBVIOUS
<1> QED
  BY <1>1 DEF Exactly

LEMMA MergedGrows ==
    ASSUME NEW records, NEW o \in Nat, NEW s \in Nat, NEW t \in Nat, s <= t,
           Merged(records, o, s)
    PROVE  Merged(records, o, t)
  BY ExactlyGrows DEF Merged

LEMMA HoldGrows ==
    ASSUME NEW dir, NEW names, NEW kind, NEW o \in Nat, NEW s \in Nat, NEW t \in Nat, s <= t,
           Hold(dir, names, kind, o, s)
    PROVE  Hold(dir, names, kind, o, t)
  BY ExactlyGrows, MergedGrows DEF Hold

(* One more edge, as the source has it now. *)
LEMMA ExactlyNext ==
    ASSUME NEW records, NEW n \in Nat, NEW o \in Nat, NEW s \in Nat, o <= s,
           Exactly(records, n, o, s)
    PROVE  Exactly(records \cup {Pair(n + 1, s)}, n + 1, o, s)
<1>1. s \in o..s /\ n + 1 \in 1..(n + 1) /\ 1..n \subseteq 1..(n + 1)
  OBVIOUS
<1>2. \A i \in 1..(n + 1) : i \in 1..n \/ i = n + 1
  OBVIOUS
<1>3. Pair(n + 1, s) \in {Pair(i, v) : i \in 1..(n + 1), v \in o..s}
  BY <1>1
<1>4. {Pair(i, v) : i \in 1..n, v \in o..s} \subseteq {Pair(i, v) : i \in 1..(n + 1), v \in o..s}
  BY <1>1
<1> QED
  BY <1>1, <1>2, <1>3, <1>4 DEF Exactly

LEMMA NextPairIsNew ==
    ASSUME NEW records, NEW n \in Nat, NEW o, NEW s, n < NEdge, Exactly(records, n, o, s), NEW v
    PROVE  Pair(n + 1, v) \notin records
<1>1. n + 1 \in 1..NEdge /\ 1..n \subseteq 1..NEdge /\ n + 1 \notin 1..n
  BY InputHas
<1>2. ASSUME NEW i \in 1..n, NEW w, Pair(n + 1, v) = Pair(i, w) PROVE FALSE
  BY <1>1, <1>2, PairsDiffer
<1> QED
  BY <1>2 DEF Exactly

(* If the source has not changed, the records are those of one version. *)
LEMMA ExactlyNow ==
    ASSUME NEW records, NEW n, NEW v \in Nat, Exactly(records, n, v, v)
    PROVE  records = {Pair(i, v) : i \in 1..n}
<1>1. v..v = {v}
  OBVIOUS
<1> QED
  BY <1>1 DEF Exactly

LEMMA MergedNow ==
    ASSUME NEW records, NEW v \in Nat, Merged(records, v, v)
    PROVE  records = Graph(v)
  BY ExactlyNow DEF Merged, Graph

LEMMA ExactlyPairs ==
    ASSUME NEW records, NEW n \in 0..NEdge, NEW o \in Versions, NEW s \in Versions,
           Exactly(records, n, o, s)
    PROVE  records \subseteq PairRecords
<1>1. 1..n \subseteq 1..NEdge
  BY InputHas
<1>2. o..s \subseteq Versions
  BY BoundAssumption DEF Versions
<1> QED
  BY <1>1, <1>2 DEF Exactly, PairRecords

LEMMA MergedFrom ==
    ASSUME NEW records, NEW o \in Versions, NEW s \in Versions, Exactly(records, NEdge, o, s)
    PROVE  Merged(Rows(records), o, s)
<1>1. NEdge \in 0..NEdge
  BY InputHas
<1> QED
  BY <1>1, ExactlyPairs DEF Merged

(* The edges of exactly the first n are the first n. *)
LEMMA ExactlyEdges ==
    ASSUME NEW records, NEW n \in 0..NEdge, NEW o, NEW s, Exactly(records, n, o, s)
    PROVE  EdgesOf(records) = {Input[i] : i \in 1..n}
<1>1. 1..n \subseteq 1..NEdge
  BY InputHas
<1> DEFINE End(p) == <<p.from, CHOOSE t \in p.edge : t # p.from>>
<1>2. ASSUME NEW i \in 1..n, NEW v PROVE End(Pair(i, v)) = Input[i]
  <2>1. Pair(i, v).from = Input[i][1] /\ Pair(i, v).edge = {Input[i][1], Input[i][2]}
    BY DEF Pair
  <2>2. (CHOOSE t \in {Input[i][1], Input[i][2]} : t # Input[i][1]) = Input[i][2]
    BY <1>1, InputHas
  <2> QED
    BY <2>1, <2>2, <1>1, InputHas
<1>3. \A p \in records : \E i \in 1..n : \E v \in o..s : p = Pair(i, v)
  BY DEF Exactly
<1>4. \A i \in 1..n : \E p \in records : \E v : p = Pair(i, v)
  BY DEF Exactly
<1>5. EdgesOf(records) = {End(p) : p \in records}
  BY DEF EdgesOf
<1> HIDE DEF End
<1> QED
  BY <1>2, <1>3, <1>4, <1>5
-----------------------------------------------------------------------------
(* Rows.                                                                   *)

Ends(rows) == {<<r.source, r.target>> : r \in rows}
EdgeOf(i) == {Input[i][1], Input[i][2]}
Both(edge) == {d \in edge \X edge : d[1] # d[2]}

LEMMA RowsEnds ==
    ASSUME NEW pairs
    PROVE  Ends(Rows(pairs)) = UNION {Both(p.edge) : p \in pairs}
<1> DEFINE E == UNION {Both(p.edge) : p \in pairs}
           Row(e) == [source |-> e[1], target |-> e[2],
                      weight |-> {<<p.from, p.of>> : p \in {q \in pairs : q.edge = {e[1], e[2]}}}]
<1>1. Rows(pairs) = {Row(e) : e \in E}
  BY DEF Rows, Both
<1>2. ASSUME NEW e \in E PROVE <<Row(e).source, Row(e).target>> = e
  BY DEF Both
<1> HIDE DEF E, Row
<1>3. Ends(Rows(pairs)) = {<<Row(e).source, Row(e).target>> : e \in E}
  BY <1>1 DEF Ends
<1>4. Ends(Rows(pairs)) = E
  BY <1>2, <1>3
<1> QED
  BY <1>4 DEF E

LEMMA RowsTyped ==
    ASSUME NEW pairs \in SUBSET PairRecords
    PROVE  Rows(pairs) \subseteq RowRecords
<1>1. ASSUME NEW p \in pairs
      PROVE  p.edge \subseteq Nat /\ p.from \in Nat /\ p.of \in Versions
  <2>1. PICK i \in 1..NEdge, v \in Versions : p = Pair(i, v)
    BY DEF PairRecords
  <2> QED
    BY <2>1, InputHas DEF Pair
<1>2. ASSUME NEW e \in UNION {Both(p.edge) : p \in pairs}
      PROVE  e[1] \in Nat /\ e[2] \in Nat
  BY <1>1 DEF Both
<1>3. \A t : {<<p.from, p.of>> : p \in {q \in pairs : q.edge = t}} \in SUBSET (Nat \X Versions)
  BY <1>1
<1> QED
  BY <1>2, <1>3 DEF Rows, Both, RowRecords

LEMMA ExactlyEnds ==
    ASSUME NEW pairs, NEW o, NEW s, Exactly(pairs, NEdge, o, s)
    PROVE  /\ Ends(Rows(pairs)) = UNION {Both(EdgeOf(i)) : i \in 1..NEdge}
           /\ Ends(Rows(pairs)) # {}
<1>1. \A i, v : Pair(i, v).edge = EdgeOf(i)
  BY DEF Pair, EdgeOf
<1>2. \A p \in pairs : \E i \in 1..NEdge : p.edge = EdgeOf(i)
  BY <1>1 DEF Exactly
<1>3. \A i \in 1..NEdge : \E p \in pairs : p.edge = EdgeOf(i)
  BY <1>1 DEF Exactly
<1>4. UNION {Both(p.edge) : p \in pairs} = UNION {Both(EdgeOf(i)) : i \in 1..NEdge}
  BY <1>2, <1>3
<1>5. 1 \in 1..NEdge
  BY InputHas
<1>6. <<Input[1][1], Input[1][2]>> \in Both(EdgeOf(1))
  BY <1>5, InputHas DEF Both, EdgeOf
<1>7. <<Input[1][1], Input[1][2]>> \in UNION {Both(EdgeOf(i)) : i \in 1..NEdge}
  BY <1>5, <1>6
<1> QED
  BY <1>4, <1>7, RowsEnds

LEMMA GraphEnds ==
    ASSUME NEW v \in Versions
    PROVE  Ends(Graph(v)) = UNION {Both(EdgeOf(i)) : i \in 1..NEdge}
<1>1. v \in v..v
  BY BoundAssumption DEF Versions
<1>2. Exactly({Pair(i, v) : i \in 1..NEdge}, NEdge, v, v)
  BY <1>1 DEF Exactly
<1> QED
  BY <1>2, ExactlyEnds DEF Graph

(* What is merged is a file, with a row for either direction of an edge.   *)
LEMMA MergedIsFile ==
    ASSUME NEW records, NEW o, NEW s, Merged(records, o, s)
    PROVE  /\ records # {} /\ records # Missing /\ records # Torn
           /\ records \subseteq RowRecords
           /\ Ends(records) = Ends(Graph(0))
<1>1. PICK pairs \in SUBSET PairRecords : Exactly(pairs, NEdge, o, s) /\ records = Rows(pairs)
  BY DEF Merged
<1>2. records # Missing
  BY <1>1, MissingAssumption
<1>3. records \subseteq RowRecords
  BY <1>1, RowsTyped
<1>4. records # Torn
  BY <1>3, MissingAssumption DEF Torn
<1>5. 0 \in Versions
  BY BoundAssumption DEF Versions
<1>6. Ends(records) = Ends(Graph(0)) /\ Ends(records) # {}
  BY <1>1, <1>5, ExactlyEnds, GraphEnds
<1>7. records # {}
  BY <1>6 DEF Ends
<1> QED
  BY <1>2, <1>3, <1>4, <1>6, <1>7

-----------------------------------------------------------------------------
(* Runs and directories.                                                   *)

LEMMA RecordHas ==
    ASSUME NEW dir, NEW names
    PROVE  /\ DOMAIN Record(dir, names) = names
           /\ \A n \in names : Record(dir, names)[n] = dir[n]
  BY DEF Record

(* A directory is not the missing one. *)
LEMMA DirIsThere ==
    ASSUME NEW dir, DOMAIN dir \subseteq RunNames
    PROVE  dir # NoDir
<1>1. DOMAIN NoDir = {Missing}
  BY DEF NoDir
<1> QED
  BY <1>1, MissingAssumption

(* Two directories that agree on some runs. *)
LEMMA SameRuns ==
    ASSUME NEW dir, NEW d, NEW names, names \subseteq DOMAIN d, \A n \in names : d[n] = dir[n]
    PROVE  /\ Contents(d, names) = Contents(dir, names)
           /\ \A kind : RunsOf(dir, names, kind) => RunsOf(d, names, kind)
           /\ \A kind, o, s : Hold(dir, names, kind, o, s) => Hold(d, names, kind, o, s)
<1>1. {d[n] : n \in names} = {dir[n] : n \in names}
  OBVIOUS
<1>2. Contents(d, names) = Contents(dir, names)
  BY <1>1 DEF Contents
<1>3. Apart(dir, names) => Apart(d, names)
  BY DEF Apart
<1>4. ASSUME NEW kind, RunsOf(dir, names, kind) PROVE RunsOf(d, names, kind)
  BY <1>3, <1>4 DEF RunsOf
<1>5. ASSUME NEW kind, NEW o, NEW s, Hold(dir, names, kind, o, s) PROVE Hold(d, names, kind, o, s)
  BY <1>2, <1>4, <1>5 DEF Hold
<1> QED
  BY <1>2, <1>4, <1>5

LEMMA AddedContents ==
    ASSUME NEW dir, NEW names, NEW name, NEW records, names \subseteq DOMAIN dir, name \notin names
    PROVE  Contents(Add(dir, name, records), names \cup {name}) = Contents(dir, names) \cup records
<1> DEFINE d == Add(dir, name, records)
<1>1. d[name] = records /\ \A n \in names : d[n] = dir[n]
  BY DEF Add
<1> HIDE DEF d
<1>2. Contents(d, names \cup {name}) = Contents(dir, names) \cup records
  BY <1>1 DEF Contents
<1> QED
  BY <1>2 DEF d

(* One more run, of other records. *)
LEMMA OneMoreRun ==
    ASSUME NEW dir, NEW names, NEW kind, NEW name \in RunNames, NEW records,
           RunsOf(dir, names, kind), name \notin names, name.kind = kind,
           Contents(dir, names) \cap records = {}
    PROVE  /\ RunsOf(Add(dir, name, records), names \cup {name}, kind)
           /\ Contents(Add(dir, name, records), names \cup {name})
                 = Contents(dir, names) \cup records
<1> DEFINE d == Add(dir, name, records)
<1>0. /\ DOMAIN d = DOMAIN dir \cup {name} /\ d[name] = records
      /\ \A n \in DOMAIN dir : n # name => d[n] = dir[n]
  BY DEF Add
<1> HIDE DEF d
<1>1. /\ DOMAIN d = DOMAIN dir \cup {name} /\ d[name] = records
      /\ \A n \in names : n \in DOMAIN dir /\ d[n] = dir[n]
  BY <1>0 DEF RunsOf
<1>2. Contents(d, names \cup {name}) = Contents(dir, names) \cup records
  BY AddedContents DEF RunsOf, d
<1>3. \A n \in names : d[n] \cap records = {}
  BY <1>1 DEF Contents
<1>4. Apart(d, names \cup {name})
  BY <1>1, <1>3 DEF Apart, RunsOf
<1>5. IsFiniteSet(names \cup {name})
  BY FS_AddElement DEF RunsOf
<1>6. RunsOf(d, names \cup {name}, kind)
  BY <1>1, <1>4, <1>5 DEF RunsOf
<1> QED
  BY <1>2, <1>6 DEF d

(* Some runs are merged into one. *)
LEMMA OneForGroup ==
    ASSUME NEW dir, NEW names, NEW kind, NEW name \in RunNames, NEW group \in SUBSET names,
           NEW o, NEW s,
           Hold(dir, names, kind, o, s), name \notin names, name.kind = kind
    PROVE  LET d == Add(dir, name, Contents(dir, group))
           IN  Hold(d, names, kind, o, s) /\ Hold(d, (names \ group) \cup {name}, kind, o, s)
<1> DEFINE moved == Contents(dir, group)
           d == Add(dir, name, moved)
           rest == names \ group
<1>1. RunsOf(dir, names, kind)
  BY DEF Hold
<1>0. /\ DOMAIN d = DOMAIN dir \cup {name}
      /\ \A n \in DOMAIN dir : n # name => d[n] = dir[n]
  BY DEF Add
<1>2. names \subseteq DOMAIN d /\ \A n \in names : d[n] = dir[n]
  <2> HIDE DEF d
  <2> QED
    BY <1>1, <1>0 DEF RunsOf
<1>3. Hold(d, names, kind, o, s)
  BY <1>2, SameRuns
<1>4. IsFiniteSet(rest)
  BY <1>1, FS_Subset DEF RunsOf
<1>5. RunsOf(dir, rest, kind)
  BY <1>1, <1>4 DEF RunsOf, Apart
<1>6. Contents(dir, rest) \cap moved = {}
  BY <1>1 DEF RunsOf, Apart, Contents
<1>7. /\ RunsOf(d, rest \cup {name}, kind)
      /\ Contents(d, rest \cup {name}) = Contents(dir, rest) \cup moved
  <2>1. name \notin rest
    OBVIOUS
  <2> HIDE DEF rest, moved
  <2> QED
    BY <1>5, <1>6, <2>1, OneMoreRun
<1>8. Contents(dir, rest) \cup moved = Contents(dir, names)
  BY DEF Contents
<1>9. Hold(d, rest \cup {name}, kind, o, s)
  BY <1>7, <1>8 DEF Hold
<1> QED
  BY <1>3, <1>9
(* A merge writes a run that no run in hand is. *)
LEMMA RoundIsNew ==
    ASSUME NEW dir, NEW kind, RunsOf(dir, runs, kind)
    PROVE  Round \in Nat /\ \A k : RunName(k, "merge", Round) \notin runs
<1> DEFINE G == {m \in runs : m.op = "merge"}
           S == {n.number + 1 : n \in G}
<1>1. IsFiniteSet(G) /\ \A n \in G : n \in runs /\ n.op = "merge" /\ n.number \in Nat
  <2>1. IsFiniteSet(G)
    BY FS_Subset DEF RunsOf
  <2>2. \A n \in runs : n.number \in Nat
    BY DEF RunsOf, RunNames
  <2> QED
    BY <2>1, <2>2
<1>2. \A n \in runs : n.op = "merge" => n \in G
  OBVIOUS
<1> HIDE DEF G
<1>3. [n \in G |-> n.number + 1] \in Surjection(G, S)
  BY DEF Surjection
<1>4. IsFiniteSet(S)
  BY <1>1, <1>3, FS_Surjection
<1>5. IsFiniteSet(S \cup {0})
  BY <1>4, FS_AddElement
<1>6. {0} \cup S \subseteq Nat
  BY <1>1
<1>7. {0} \cup S = S \cup {0} /\ {0} \cup S # {}
  OBVIOUS
<1>8. Max({0} \cup S) \in {0} \cup S /\ \A x \in {0} \cup S : x <= Max({0} \cup S)
  BY <1>5, <1>6, <1>7, MaxOfFinite
<1>9. Round = Max({0} \cup S)
  BY DEF Round, G
<1>10. ASSUME NEW k, RunName(k, "merge", Round) \in runs PROVE FALSE
  <2>1. RunName(k, "merge", Round) \in G /\ RunName(k, "merge", Round).number = Round
    BY <1>2, <1>10 DEF RunName
  <2>2. Round + 1 \in S
    BY <2>1
  <2>3. Round + 1 <= Round /\ Round \in Nat
    BY <2>2, <1>8, <1>9, <1>6
  <2> QED
    BY <2>3
<1> QED
  BY <1>6, <1>8, <1>9, <1>10

(* A spill writes a run of its own. *)
LEMMA NextIsNew ==
    ASSUME NEW names, NEW kind, IsFiniteSet(names), InOrder(names, kind)
    PROVE  LET name == RunName(kind, "run", Cardinality(names))
           IN  /\ Cardinality(names) \in Nat /\ name \notin names
               /\ InOrder(names \cup {name}, kind)
<1> DEFINE c == Cardinality(names)
           name == RunName(kind, "run", c)
<1>1. c \in Nat
  BY FS_CardinalityType
<1>2. names = {RunName(kind, "run", i) : i \in 0..(c - 1)}
  BY DEF InOrder
<1>3. ASSUME NEW i \in 0..(c - 1), RunName(kind, "run", i) = name PROVE FALSE
  <2>1. i = c
    BY <1>3 DEF RunName
  <2> QED
    BY <2>1, <1>1
<1>4. name \notin names
  BY <1>2, <1>3
<1>5. Cardinality(names \cup {name}) = c + 1
  BY <1>4, FS_AddElement
<1> HIDE DEF c
<1>6. 0..((c + 1) - 1) = 0..(c - 1) \cup {c}
  BY <1>1
<1>7. names \cup {name} = {RunName(kind, "run", i) : i \in 0..((c + 1) - 1)}
  BY <1>2, <1>6
<1>8. InOrder(names \cup {name}, kind)
  BY <1>5, <1>7 DEF InOrder
<1> QED
  BY <1>1, <1>4, <1>8 DEF c

LEMMA NoneInOrder == \A kind : InOrder({}, kind)
<1>1. Cardinality({}) = 0 /\ 0..(0 - 1) = {}
  BY FS_EmptySet
<1> QED
  BY <1>1 DEF InOrder

LEMMA NoRuns == \A dir, kind : RunsOf(dir, {}, kind) /\ Contents(dir, {}) = {}
  BY FS_EmptySet DEF RunsOf, Apart, Contents

(* The kind of runs that hold the input can be told from their names. *)
RunsKind(names) == IF \E n \in names : n.kind = "rows" THEN "rows" ELSE "pairs"

LEMMA KindTold ==
    ASSUME NEW dir, NEW names, NEW kind \in {"pairs", "rows"}, NEW o, NEW s,
           Hold(dir, names, kind, o, s)
    PROVE  RunsKind(names) = kind
<1>1. \A n \in names : n.kind = kind
  BY DEF Hold, RunsOf
<1>2. CASE kind = "pairs"
  BY <1>1, <1>2 DEF RunsKind
<1>3. CASE kind = "rows"
  <2>1. Contents(dir, names) # {}
    BY <1>3, MergedIsFile DEF Hold
  <2>2. names # {}
    BY <2>1 DEF Contents
  <2> QED
    BY <1>1, <1>3, <2>2 DEF RunsKind
<1> QED
  BY <1>2, <1>3

LEMMA KindIs == Kind = RunsKind(runs) /\ Kind \in {"pairs", "rows"}
  BY DEF Kind, RunsKind

LEMMA NameTyped ==
    ASSUME NEW kind \in {"pairs", "rows"}, NEW op \in {"run", "merge"}, NEW number \in Nat
    PROVE  RunName(kind, op, number) \in RunNames /\ RunName(kind, op, number).kind = kind
  BY DEF RunName, RunNames

LEMMA FilesAre == /\ Files = {"offsets", "indices", "weights"}
                  /\ \A f \in Files : \E i \in 1..3 : f = CsrFiles[i]
                  /\ \A i \in 1..3 : CsrFiles[i] \in Files
                  /\ \A i, j \in 1..3 : CsrFiles[i] = CsrFiles[j] => i = j
<1>1. 1..3 = {1, 2, 3} /\ DOMAIN CsrFiles = 1..3
  BY DEF CsrFiles
<1>2. Files = {CsrFiles[i] : i \in 1..3}
  BY <1>1 DEF Files, Range
<1>3. CsrFiles[1] = "offsets" /\ CsrFiles[2] = "indices" /\ CsrFiles[3] = "weights"
  BY DEF CsrFiles
<1>4. Files = {CsrFiles[1], CsrFiles[2], CsrFiles[3]}
  BY <1>1, <1>2
<1>5. Files = {"offsets", "indices", "weights"}
  BY <1>3, <1>4
<1> QED
  BY <1>1, <1>2, <1>3, <1>5
-----------------------------------------------------------------------------
(* The steps.                                                              *)

LEMMA NewSidecarWhole ==
    ASSUME NEW v \in Nat, NEW s,
           s = [signature |-> v, completed |-> 0, phase |-> "pairs_input", runs |-> Empty]
    PROVE  /\ SidecarWhole(s, v) /\ s.signature = v
           /\ ~RowPhase(s) /\ s.completed = 0 /\ DOMAIN s.runs = {}
<1>1. DOMAIN Empty = {}
  BY DEF Empty
<1>2. /\ DOMAIN s = {"signature", "completed", "phase", "runs"}
      /\ s.signature = v /\ s.completed = 0 /\ s.phase = "pairs_input" /\ s.runs = Empty
  OBVIOUS
<1>3. /\ InOrder({}, "pairs") /\ RunsOf(Empty, {}, "pairs") /\ Contents(Empty, {}) = {}
  BY NoneInOrder, NoRuns
<1>4. Exactly({}, 0, v, v)
  BY DEF Exactly
<1>5. ~RowPhase(s) /\ s.phase \in Phases
  BY <1>2 DEF RowPhase, Phases
<1>6. 0 \in 0..NEdge /\ v \in 0..v
  BY InputHas
<1> QED
  BY <1>1, <1>2, <1>3, <1>4, <1>5, <1>6 DEF SidecarWhole

LEMMA SidecarWholeGrows ==
    ASSUME NEW s, NEW v \in Nat, NEW w \in Nat, v <= w, SidecarWhole(s, v)
    PROVE  SidecarWhole(s, w)
<1>1. s.signature \in 0..w /\ s.signature \in Nat
  BY DEF SidecarWhole
<1>2. RowPhase(s) => Merged(Contents(s.runs, DOMAIN s.runs), s.signature, w)
  BY <1>1, MergedGrows DEF SidecarWhole
<1>3. ~RowPhase(s) => Exactly(Contents(s.runs, DOMAIN s.runs), s.completed, s.signature, w)
  BY <1>1, ExactlyGrows DEF SidecarWhole
<1> QED
  BY <1>1, <1>2, <1>3 DEF SidecarWhole

LEMMA VersionsAre ==
    ASSUME SortTypeOK
    PROVE  /\ source \in Nat /\ 0..source \subseteq Versions /\ 0..source \subseteq Nat
           /\ 0 \in Versions /\ Versions \subseteq Nat
  BY BoundAssumption DEF SortTypeOK, Versions

LEMMA StartKeeps ==
    ASSUME SortIInv, NEW m \in Modes, Start(m)
    PROVE  SortIInv'
<1>1. /\ pc = "idle" /\ pc' = "open" /\ mode' = m /\ opened' = source
      /\ UNCHANGED <<source, work, part, final, manifest, stops, done, buffer, runs, fresh, left>>
      /\ final = Nothing /\ manifest = Missing
  BY DEF Start, CanResume, Preflight
<1>2. source \in Nat /\ 0..source \subseteq Versions
  BY VersionsAre DEF SortIInv
<1>3. CASE m = "new"
  <2>1. sidecar' = [signature |-> source, completed |-> 0, phase |-> "pairs_input", runs |-> Empty]
    BY <1>3 DEF Start
  <2>2. /\ SidecarWhole(sidecar', source) /\ sidecar'.signature = source
        /\ ~RowPhase(sidecar') /\ sidecar'.completed = 0 /\ DOMAIN sidecar'.runs = {}
    BY <1>2, <2>1, NewSidecarWhole
  <2>3. SidecarHolds'
    BY <1>1, <2>2 DEF SidecarHolds
  <2>4. SidecarRunsThere'
    BY <2>2 DEF SidecarRunsThere, RunsIntact
  <2>5. CallHolds'
    BY <1>1, <1>2, <1>3 DEF SortIInv, CallHolds, Late
  <2> QED
    BY <1>1, <1>2, <2>3, <2>4, <2>5 DEF SortIInv, SortTypeOK, Scanned, Reduced, Emitted,
       CsrThere, ManifestVouches, Points
<1>4. CASE m = "resume"
  <2>1. sidecar' = sidecar /\ sidecar # Missing /\ sidecar.signature = source /\ RunsIntact(sidecar)
    BY <1>4 DEF Start, CanResume, Preflight, StateFits
  <2>2. SidecarHolds'
    BY <1>1, <1>4, <2>1 DEF SortIInv, SidecarHolds
  <2>3. SidecarRunsThere'
    BY <1>1, <2>1 DEF SidecarRunsThere, RunsIntact
  <2>4. CallHolds'
    BY <1>1, <1>2, <1>4 DEF SortIInv, CallHolds, Late
  <2> QED
    BY <1>1, <1>2, <2>2, <2>3, <2>4 DEF SortIInv, SortTypeOK, Scanned, Reduced, Emitted,
       CsrThere, ManifestVouches, Points
<1>5. CASE m = "plain"
  <2>1. sidecar' = Missing /\ sidecar = Missing
    BY <1>5 DEF Start, Preflight
  <2>2. SidecarHolds' /\ SidecarRunsThere'
    BY <1>1, <1>5, <2>1 DEF SidecarHolds, SidecarRunsThere, Checkpointed
  <2>3. CallHolds'
    BY <1>1, <1>2, <2>1 DEF SortIInv, CallHolds, Late
  <2> QED
    BY <1>1, <1>2, <2>2, <2>3 DEF SortIInv, SortTypeOK, Scanned, Reduced, Emitted,
       CsrThere, ManifestVouches, Points
<1> QED
  BY <1>3, <1>4, <1>5 DEF Modes
(* A step that leaves the sidecar, or ends the call. *)
LEMMA SidecarSame ==
    ASSUME SidecarHolds, UNCHANGED <<source, sidecar>>, pc' # "open",
           pc' = "idle" \/ (pc # "idle" /\ UNCHANGED <<mode, opened>>)
    PROVE  SidecarHolds'
  BY DEF SidecarHolds, Checkpointed

(* The files of the graph, and what vouches for them, are left alone. *)
LEMMA VouchedSame ==
    ASSUME ManifestVouches, UNCHANGED <<final, manifest>>
    PROVE  ManifestVouches'
  BY DEF ManifestVouches

LEMMA EmptyIs == DOMAIN Empty = {} /\ Empty # NoDir
<1>1. DOMAIN Empty = {}
  BY DEF Empty
<1> QED
  BY <1>1, DirIsThere

(* What a resumed call finds in the work directory. *)
LEMMA RetainedHolds ==
    ASSUME SortTypeOK, SidecarWhole(sidecar, source), RunsIntact(sidecar),
           NEW d, d = IF work = NoDir THEN Empty ELSE Retained
    PROVE  /\ DOMAIN d = DOMAIN sidecar.runs /\ DOMAIN d \subseteq RunNames
           /\ \A n \in DOMAIN sidecar.runs : d[n] = sidecar.runs[n]
<1> DEFINE D == DOMAIN sidecar.runs
<1>1. D \subseteq RunNames
  BY DEF SidecarWhole, RunsOf
<1>2. \A n \in D : n \in DOMAIN work /\ work[n] = sidecar.runs[n]
  BY DEF RunsIntact
<1>3. CASE work = NoDir
  <2>1. DOMAIN work = {Missing}
    BY <1>3 DEF NoDir
  <2>2. D = {}
    BY <1>1, <1>2, <2>1, MissingAssumption
  <2> QED
    BY <1>3, <2>2, EmptyIs
<1>4. CASE work # NoDir
  <2>1. d = Unlinked(work, DOMAIN work \ D)
    BY <1>4 DEF Retained
  <2>2. DOMAIN d = DOMAIN work \ (DOMAIN work \ D)
        /\ \A n \in DOMAIN work \ (DOMAIN work \ D) : d[n] = work[n]
    BY <2>1 DEF Unlinked
  <2> QED
    BY <1>1, <1>2, <2>2
<1> QED
  BY <1>3, <1>4

LEMMA OpenWorkKeeps ==
    ASSUME SortIInv, OpenWork
    PROVE  SortIInv'
<1>1. /\ pc = "open" /\ pc' \in {"scan", "merge"}
      /\ UNCHANGED <<source, final, manifest, sidecar, stops, mode, opened, buffer, fresh, left>>
      /\ done = 0 /\ buffer = {} /\ runs = {} /\ fresh = {}
      /\ final = Nothing /\ manifest = Missing /\ opened \in 0..source
  BY DEF OpenWork, SortIInv, CallHolds, Late
<1>2. source \in Nat /\ 0..source \subseteq Versions /\ 0..source \subseteq Nat
  BY VersionsAre DEF SortIInv
<1>3. SidecarHolds' /\ ManifestVouches'
  BY <1>1, SidecarSame, VouchedSame DEF SortIInv
<1>4. Checkpointed => /\ SidecarWhole(sidecar, source) /\ sidecar.signature = opened
                      /\ RunsIntact(sidecar)
  BY <1>1 DEF SortIInv, SidecarHolds, SidecarRunsThere, Late
<1>5. mode = "plain" => sidecar = Missing
  BY <1>1 DEF SortIInv, CallHolds
<1>6. CallHolds'
  BY <1>1, <1>5 DEF CallHolds, Late
<1>7. CASE mode = "resume"
  <2>1. SidecarWhole(sidecar, source) /\ sidecar.signature = opened /\ RunsIntact(sidecar)
    BY <1>4, <1>7 DEF Checkpointed
  <2>2. /\ work' = IF work = NoDir THEN Empty ELSE Retained
        /\ part' = Nothing /\ runs' = DOMAIN sidecar.runs /\ done' = sidecar.completed
        /\ pc' = IF RowPhase(sidecar) THEN "merge" ELSE "scan"
    BY <1>7 DEF OpenWork
  <2>3. /\ DOMAIN work' = DOMAIN sidecar.runs /\ DOMAIN work' \subseteq RunNames
        /\ \A n \in DOMAIN sidecar.runs : work'[n] = sidecar.runs[n]
    BY <2>1, <2>2, RetainedHolds DEF SortIInv
  <2>4. work' # NoDir
    BY <2>3, DirIsThere
  <2>5. SidecarRunsThere'
    BY <1>1, <2>3 DEF SidecarRunsThere, RunsIntact
  <2>6. SortTypeOK'
    BY <1>1, <2>1, <2>2, <2>3 DEF SortIInv, SortTypeOK, SidecarWhole, Nothing, Points
  <2>7. CASE RowPhase(sidecar)
    <3>1. Hold(sidecar.runs, runs', "rows", opened, source)
      BY <2>1, <2>2, <2>7 DEF SidecarWhole, Hold
    <3>2. Hold(work', runs', "rows", opened, source)
      BY <2>2, <2>3, <3>1, SameRuns
    <3>3. RunsKind(runs') = "rows"
      BY <3>2, KindTold
    <3>4. Kind' = "rows"
      BY <3>3 DEF Kind, RunsKind
    <3>5. pc' = "merge" /\ sidecar.completed = NEdge
      BY <2>1, <2>2, <2>7 DEF SidecarWhole, RowPhase
    <3> QED
      BY <1>1, <1>3, <1>6, <2>2, <2>5, <2>6, <3>2, <3>4, <3>5 DEF SortIInv, Scanned, Reduced, Emitted, CsrThere
  <2>8. CASE ~RowPhase(sidecar)
    <3>1. RunsOf(sidecar.runs, runs', "pairs")
          /\ Exactly(Contents(sidecar.runs, runs'), done', opened, source)
      BY <2>1, <2>2, <2>8 DEF SidecarWhole
    <3>2. RunsOf(work', runs', "pairs") /\ Exactly(Contents(work', runs'), done', opened, source)
      <4>1. PICK d, dir, names : d = work' /\ dir = sidecar.runs /\ names = runs'
        OBVIOUS
      <4>2. names \subseteq DOMAIN d /\ \A n \in names : d[n] = dir[n]
        BY <2>2, <2>3, <4>1
      <4>3. Contents(d, names) = Contents(dir, names)
            /\ \A kind : RunsOf(dir, names, kind) => RunsOf(d, names, kind)
        BY <4>2, SameRuns
      <4> QED
        BY <3>1, <4>1, <4>3
    <3>3. \/ InOrder(runs', "pairs")
          \/ done' = NEdge /\ sidecar.completed = NEdge
      BY <2>1, <2>2 DEF SidecarWhole
    <3>4. sidecar.completed \in Nat
      BY <2>1, InputHas DEF SidecarWhole
    <3>5. Scanned'
      BY <1>1, <1>7, <2>2, <2>4, <2>8, <3>2, <3>3, <3>4 DEF Scanned, Checkpointed
    <3>6. pc' = "scan"
      BY <2>2, <2>8
    <3> QED
      BY <1>1, <1>3, <1>6, <2>5, <2>6, <3>5, <3>6 DEF SortIInv, Reduced, Emitted, CsrThere
  <2> QED
    BY <2>7, <2>8
<1>8. CASE mode # "resume"
  <2>1. work' = Empty /\ pc' = "scan" /\ UNCHANGED <<part, runs, done>>
    BY <1>8 DEF OpenWork
  <2>2. work' # NoDir /\ DOMAIN work' = {}
    BY <2>1, EmptyIs
  <2>3. RunsOf(work', {}, "pairs") /\ Contents(work', {}) = {} /\ InOrder({}, "pairs")
    BY NoRuns, NoneInOrder
  <2>4. Exactly({}, 0, opened, source)
    BY DEF Exactly
  <2>5. Checkpointed => mode = "new"
    BY <1>8 DEF SortIInv, SortTypeOK, Modes, Checkpointed
  <2>6. Checkpointed => ~RowPhase(sidecar) /\ sidecar.completed = 0 /\ DOMAIN sidecar.runs = {}
    BY <1>1, <2>5 DEF SortIInv, SidecarHolds
  <2>7. Scanned'
    <3>1. /\ work' # NoDir /\ RunsOf(work', runs', "pairs") /\ Contents(work', runs') = {}
          /\ buffer' = {} /\ done' = 0 /\ runs' = {} /\ InOrder(runs', "pairs")
          /\ sidecar' = sidecar /\ (Checkpointed' <=> Checkpointed)
      BY <1>1, <2>1, <2>2, <2>3 DEF Checkpointed
    <3>2. Exactly(Contents(work', runs') \cup buffer', done', opened', source')
      BY <1>1, <2>4, <3>1
    <3>3. RowPhase(sidecar)' <=> RowPhase(sidecar)
      BY <3>1 DEF RowPhase
    <3> QED
      BY <2>6, <3>1, <3>2, <3>3 DEF Scanned
  <2>8. SidecarRunsThere'
    BY <1>1, <1>4, <1>5, <2>6 DEF SidecarRunsThere, RunsIntact, Checkpointed
  <2>9. SortTypeOK'
    BY <1>1, <2>1, <2>2 DEF SortIInv, SortTypeOK, Points
  <2> QED
    BY <1>1, <1>3, <1>6, <2>1, <2>7, <2>8, <2>9 DEF SortIInv, Reduced, Emitted, CsrThere
<1> QED
  BY <1>7, <1>8
(* GraphRunSorter::spill, whatever is in the buffer. *)
LEMMA SpillHolds ==
    ASSUME work # NoDir, DOMAIN work \subseteq RunNames,
           RunsOf(work, runs, "pairs"), InOrder(runs, "pairs"),
           NEW records, Contents(work, runs) \cap records = {},
           NEW w, w = Spilled(records), NEW r, r = SpilledRuns(records)
    PROVE  /\ w # NoDir /\ DOMAIN w \subseteq RunNames
           /\ RunsOf(w, r, "pairs") /\ InOrder(r, "pairs")
           /\ Contents(w, r) = Contents(work, runs) \cup records
           /\ runs \subseteq r
           /\ \A n \in runs : n \in DOMAIN w /\ w[n] = work[n]
<1>1. CASE records = {}
  BY <1>1 DEF Spilled, SpilledRuns, RunsOf
<1>2. CASE records # {}
  <2>1. w = Add(work, NextPairRun, records) /\ r = runs \cup {NextPairRun}
    BY <1>2 DEF Spilled, SpilledRuns
  <2>2. IsFiniteSet(runs) /\ runs \subseteq DOMAIN work
    BY DEF RunsOf
  <2>3. /\ Cardinality(runs) \in Nat /\ NextPairRun \notin runs
        /\ InOrder(runs \cup {NextPairRun}, "pairs")
    BY <2>2, NextIsNew DEF NextPairRun
  <2>4. NextPairRun \in RunNames /\ NextPairRun.kind = "pairs"
    BY <2>3, NameTyped DEF NextPairRun
  <2>5. RunsOf(w, r, "pairs") /\ Contents(w, r) = Contents(work, runs) \cup records
    BY <2>1, <2>3, <2>4, OneMoreRun
  <2>6. DOMAIN w = DOMAIN work \cup {NextPairRun}
        /\ \A n \in DOMAIN work : n # NextPairRun => w[n] = work[n]
    BY <2>1 DEF Add
  <2>7. DOMAIN w \subseteq RunNames /\ w # NoDir
    BY <2>4, <2>6, DirIsThere
  <2> QED
    BY <2>1, <2>2, <2>3, <2>5, <2>6, <2>7
<1> QED
  BY <1>1, <1>2

LEMMA PushKeeps ==
    ASSUME SortIInv, Push
    PROVE  SortIInv'
<1> DEFINE filled == buffer \cup {Pair(done + 1, source)}
           spilling == IF Full(filled) THEN filled ELSE {}
<1>1. /\ pc = "scan" /\ done < NEdge
      /\ UNCHANGED <<source, part, final, manifest, sidecar, stops, pc, mode, opened, fresh, left>>
      /\ done' = done + 1 /\ buffer' = filled \ spilling
      /\ work' = Spilled(spilling) /\ runs' = SpilledRuns(spilling)
  BY DEF Push
<1>2. source \in Nat /\ 0..source \subseteq Versions /\ 0..source \subseteq Nat
  BY VersionsAre DEF SortIInv
<1>3. opened \in 0..source /\ done \in 0..NEdge /\ done \in Nat /\ NEdge \in Nat
  BY <1>1, InputHas DEF SortIInv, SortTypeOK, CallHolds
<1>4. /\ work # NoDir /\ DOMAIN work \subseteq RunNames
      /\ RunsOf(work, runs, "pairs") /\ Contents(work, runs) \cap buffer = {}
      /\ Exactly(Contents(work, runs) \cup buffer, done, opened, source)
  BY <1>1 DEF SortIInv, SortTypeOK, Scanned
<1>5. InOrder(runs, "pairs")
  BY <1>1, <1>3 DEF SortIInv, Scanned
<1>6. Checkpointed => /\ ~RowPhase(sidecar) /\ DOMAIN sidecar.runs \subseteq runs
                      /\ sidecar.completed <= done /\ sidecar.completed \in Nat
                      /\ RunsIntact(sidecar)
  BY <1>1, <1>3, InputHas DEF SortIInv, Scanned, SidecarRunsThere, SidecarHolds, SidecarWhole, Late
<1>7. Pair(done + 1, source) \notin Contents(work, runs) \cup buffer
  BY <1>1, <1>3, <1>4, NextPairIsNew
<1>8. Exactly((Contents(work, runs) \cup buffer) \cup {Pair(done + 1, source)}, done + 1, opened, source)
  BY <1>2, <1>3, <1>4, ExactlyNext
<1>9. Contents(work, runs) \cap filled = {} /\ spilling \subseteq filled
  BY <1>4, <1>7
<1>10. (Contents(work, runs) \cup buffer) \cup {Pair(done + 1, source)} = Contents(work, runs) \cup filled
  OBVIOUS
<1> HIDE DEF filled, spilling
<1>11. Contents(work, runs) \cap spilling = {}
  BY <1>9
<1>12. /\ work' # NoDir /\ DOMAIN work' \subseteq RunNames
       /\ RunsOf(work', runs', "pairs") /\ InOrder(runs', "pairs")
       /\ Contents(work', runs') = Contents(work, runs) \cup spilling
       /\ runs \subseteq runs'
       /\ \A n \in runs : n \in DOMAIN work' /\ work'[n] = work[n]
  BY <1>1, <1>4, <1>5, <1>11, SpillHolds
<1>13. Contents(work', runs') \cup buffer' = Contents(work, runs) \cup filled
  BY <1>1, <1>9, <1>12
<1>14. Contents(work', runs') \cap buffer' = {}
  BY <1>1, <1>9, <1>12
<1>15. Scanned'
  <2>1. Checkpointed => done' # sidecar.completed /\ sidecar.completed <= done'
    BY <1>1, <1>3, <1>6
  <2>2. Exactly(Contents(work', runs') \cup buffer', done', opened, source)
    BY <1>1, <1>8, <1>10, <1>13
  <2> QED
    BY <1>1, <1>6, <1>12, <1>14, <2>1, <2>2 DEF Scanned, Checkpointed
<1>16. SidecarRunsThere'
  BY <1>1, <1>6, <1>12 DEF SortIInv, SidecarRunsThere, RunsIntact, Checkpointed, CallHolds, Late, SortTypeOK, Modes
<1>17. SidecarHolds' /\ ManifestVouches'
  BY <1>1, SidecarSame, VouchedSame DEF SortIInv
<1>18. SortTypeOK'
  <2>1. done' \in 0..NEdge
    BY <1>1, <1>3
  <2> QED
    BY <1>1, <1>12, <2>1 DEF SortIInv, SortTypeOK
<1>19. CallHolds'
  BY <1>1 DEF SortIInv, CallHolds, Checkpointed
<1> QED
  BY <1>1, <1>15, <1>16, <1>17, <1>18, <1>19 DEF SortIInv, Reduced, Emitted, CsrThere

LEMMA CommitPairsKeeps ==
    ASSUME SortIInv, CommitPairs
    PROVE  SortIInv'
<1>1. /\ pc = "scan" /\ Checkpointed /\ done # sidecar.completed
      /\ UNCHANGED <<source, part, final, manifest, stops, pc, mode, opened, done, fresh, left>>
      /\ work' = Spilled(buffer) /\ runs' = SpilledRuns(buffer) /\ buffer' = {}
      /\ sidecar' = [sidecar EXCEPT !.completed = done, !.runs = Record(work', runs')]
  BY DEF CommitPairs, Due
<1>2. /\ opened \in 0..source /\ done \in 0..NEdge /\ done \in Nat /\ NEdge \in Nat
      /\ SidecarWhole(sidecar, source) /\ sidecar.signature = opened
  BY <1>1, InputHas DEF SortIInv, SortTypeOK, CallHolds, SidecarHolds
<1>3. /\ work # NoDir /\ DOMAIN work \subseteq RunNames
      /\ RunsOf(work, runs, "pairs") /\ Contents(work, runs) \cap buffer = {}
      /\ Exactly(Contents(work, runs) \cup buffer, done, opened, source)
      /\ ~RowPhase(sidecar) /\ sidecar.completed <= done
      /\ InOrder(runs, "pairs") \/ done = sidecar.completed
  BY <1>1 DEF SortIInv, SortTypeOK, Scanned
<1>4. sidecar.completed \in 0..NEdge
      /\ (sidecar.phase = "pairs_input" \/ sidecar.completed = NEdge)
  BY <1>2 DEF SidecarWhole
<1>5. sidecar.phase = "pairs_input"
  BY <1>1, <1>2, <1>3, <1>4
<1>6. /\ work' # NoDir /\ DOMAIN work' \subseteq RunNames
      /\ RunsOf(work', runs', "pairs") /\ InOrder(runs', "pairs")
      /\ Contents(work', runs') = Contents(work, runs) \cup buffer
  BY <1>1, <1>3, SpillHolds
<1>7. /\ DOMAIN sidecar' = {"signature", "completed", "phase", "runs"}
      /\ sidecar'.signature = opened /\ sidecar'.completed = done
      /\ sidecar'.phase = "pairs_input" /\ sidecar'.runs = Record(work', runs')
  BY <1>1, <1>2, <1>5 DEF SidecarWhole
<1>8. /\ DOMAIN sidecar'.runs = runs'
      /\ \A n \in runs' : n \in DOMAIN work' /\ sidecar'.runs[n] = work'[n]
  BY <1>6, <1>7, RecordHas DEF RunsOf
<1>9. /\ RunsOf(sidecar'.runs, runs', "pairs")
      /\ Contents(sidecar'.runs, runs') = Contents(work', runs')
  BY <1>6, <1>8, SameRuns
<1>10. ~RowPhase(sidecar') /\ sidecar'.phase \in Phases
  BY <1>7 DEF RowPhase, Phases
<1>11. SidecarWhole(sidecar', source)
  BY <1>2, <1>3, <1>6, <1>7, <1>8, <1>9, <1>10 DEF SidecarWhole
<1>12. SidecarHolds'
  BY <1>1, <1>2, <1>7, <1>11 DEF SidecarHolds
<1>13. SidecarRunsThere'
  BY <1>8 DEF SidecarRunsThere, RunsIntact
<1>14. Scanned'
  BY <1>1, <1>2, <1>3, <1>6, <1>7, <1>8, <1>10 DEF Scanned
<1>15. SortTypeOK'
  BY <1>1, <1>6 DEF SortIInv, SortTypeOK
<1>16. CallHolds'
  BY <1>1 DEF SortIInv, CallHolds, Checkpointed
<1>17. ManifestVouches'
  BY <1>1, VouchedSame DEF SortIInv
<1> QED
  BY <1>1, <1>12, <1>13, <1>14, <1>15, <1>16, <1>17 DEF SortIInv, Reduced, Emitted, CsrThere

LEMMA EndScanKeeps ==
    ASSUME SortIInv, EndScan
    PROVE  SortIInv'
<1>1. /\ pc = "scan" /\ done = NEdge /\ pc' = "merge"
      /\ UNCHANGED <<source, part, final, manifest, stops, mode, opened, done, fresh, left>>
      /\ work' = Spilled(buffer) /\ runs' = SpilledRuns(buffer) /\ buffer' = {}
      /\ sidecar' = IF Checkpointed THEN [sidecar EXCEPT !.phase = PhaseKept] ELSE sidecar
      /\ Checkpointed => done = sidecar.completed
  BY DEF EndScan, Due
<1>2. /\ work # NoDir /\ DOMAIN work \subseteq RunNames
      /\ RunsOf(work, runs, "pairs") /\ Contents(work, runs) \cap buffer = {}
      /\ Exactly(Contents(work, runs) \cup buffer, NEdge, opened, source)
      /\ Checkpointed => buffer = {} /\ runs = DOMAIN sidecar.runs /\ ~RowPhase(sidecar)
      /\ ~Checkpointed => InOrder(runs, "pairs")
  BY <1>1 DEF SortIInv, SortTypeOK, Scanned
<1>3. /\ work' # NoDir /\ DOMAIN work' \subseteq RunNames
      /\ Hold(work', runs', "pairs", opened, source)
      /\ Checkpointed => work' = work /\ runs' = runs
  <2>1. CASE Checkpointed
    <3>1. work' = work /\ runs' = runs
      BY <1>1, <1>2, <2>1 DEF Spilled, SpilledRuns
    <3>2. Contents(work, runs) \cup buffer = Contents(work, runs)
      BY <1>2, <2>1
    <3> QED
      BY <1>2, <3>1, <3>2 DEF Hold
  <2>2. CASE ~Checkpointed
    <3>1. /\ work' # NoDir /\ DOMAIN work' \subseteq RunNames
          /\ RunsOf(work', runs', "pairs")
          /\ Contents(work', runs') = Contents(work, runs) \cup buffer
      BY <1>1, <1>2, <2>2, SpillHolds
    <3> QED
      BY <1>2, <2>2, <3>1 DEF Hold
  <2> QED
    BY <2>1, <2>2
<1>4. Kind' = "pairs"
  <2>1. RunsKind(runs') = "pairs"
    BY <1>3, KindTold
  <2> QED
    BY <2>1 DEF Kind, RunsKind
<1>5. CASE Checkpointed
  <2>1. SidecarWhole(sidecar, source) /\ sidecar.signature = opened /\ RunsIntact(sidecar)
    BY <1>1, <1>5 DEF SortIInv, SidecarHolds, SidecarRunsThere, Late
  <2>2. /\ DOMAIN sidecar' = DOMAIN sidecar
        /\ sidecar'.signature = sidecar.signature /\ sidecar'.completed = sidecar.completed
        /\ sidecar'.phase = sidecar.phase /\ sidecar'.runs = sidecar.runs
    BY <1>1, <1>5, <2>1 DEF SidecarWhole, PhaseKept
  <2>3. RowPhase(sidecar') <=> RowPhase(sidecar)
    BY <2>2 DEF RowPhase
  <2>4. SidecarWhole(sidecar', source)
    BY <2>1, <2>2, <2>3 DEF SidecarWhole
  <2>5. SidecarHolds'
    BY <1>1, <2>1, <2>2, <2>4 DEF SidecarHolds
  <2>6. SidecarRunsThere'
    BY <1>3, <1>5, <2>1, <2>2 DEF SidecarRunsThere, RunsIntact
  <2>7. Reduced'
    BY <1>1, <1>2, <1>3, <1>4, <1>5, <2>2 DEF Reduced
  <2>8. CallHolds'
    BY <1>1, <1>5 DEF SortIInv, CallHolds, Checkpointed, Late
  <2> QED
    BY <1>1, <1>3, <2>5, <2>6, <2>7, <2>8, VouchedSame
    DEF SortIInv, SortTypeOK, Points, Scanned, Emitted, CsrThere
<1>6. CASE ~Checkpointed
  <2>1. sidecar = Missing /\ sidecar' = Missing /\ mode = "plain"
    BY <1>1, <1>6 DEF SortIInv, CallHolds, Checkpointed
  <2>2. SidecarHolds' /\ SidecarRunsThere'
    BY <1>1, <2>1 DEF SidecarHolds, SidecarRunsThere, Checkpointed
  <2>3. Reduced'
    BY <1>1, <1>3, <1>4, <2>1 DEF Reduced, Checkpointed
  <2>4. CallHolds'
    BY <1>1, <2>1 DEF SortIInv, CallHolds, Checkpointed, Late
  <2> QED
    BY <1>1, <1>3, <2>2, <2>3, <2>4, VouchedSame
    DEF SortIInv, SortTypeOK, Points, Scanned, Emitted, CsrThere
<1> QED
  BY <1>5, <1>6
(* Runs that hold the input are there. *)
LEMMA HoldThere ==
    ASSUME SortTypeOK, NEW names, NEW kind, NEW o, NEW s, Hold(work, names, kind, o, s)
    PROVE  names # {} /\ work # NoDir /\ DOMAIN work \subseteq RunNames
<1>1. Contents(work, names) # {}
  <2>1. CASE kind = "pairs"
    <3>1. 1 \in 1..NEdge
      BY InputHas
    <3> QED
      BY <2>1, <3>1 DEF Hold, Exactly
  <2>2. CASE kind # "pairs"
    BY <2>2, MergedIsFile DEF Hold
  <2> QED
    BY <2>1, <2>2
<1>2. PICK n \in names : n \in DOMAIN work /\ n \in RunNames
  BY <1>1 DEF Contents, Hold, RunsOf
<1>3. work # NoDir
  BY <1>2, MissingAssumption DEF NoDir
<1> QED
  BY <1>2, <1>3 DEF SortTypeOK

(* A run that the sidecar does not name is added. *)
LEMMA IntactAfterAdd ==
    ASSUME NEW name, NEW records, work' = Add(work, name, records), UNCHANGED sidecar,
           name \notin DOMAIN sidecar.runs, RunsIntact(sidecar)
    PROVE  RunsIntact(sidecar)'
<1>1. DOMAIN work' = DOMAIN work \cup {name}
      /\ \A n \in DOMAIN work : n # name => work'[n] = work[n]
  BY DEF Add
<1> QED
  BY <1>1 DEF RunsIntact

LEMMA MergeGroupKeeps ==
    ASSUME SortIInv, MergeGroup
    PROVE  SortIInv'
<1> DEFINE name == RunName(Kind, "merge", Round)
<1>1. /\ pc = "merge" /\ pc' = IF Checkpointed THEN "commit" ELSE "drop"
      /\ UNCHANGED <<source, part, final, manifest, sidecar, stops, mode, opened, done, buffer, runs, left>>
  BY DEF MergeGroup
<1>2. PICK group \in SUBSET runs : /\ work' = Add(work, name, Contents(work, group))
                                   /\ fresh' = (runs \ group) \cup {name}
  BY DEF MergeGroup
<1>3. Hold(work, runs, Kind, opened, source) /\ Kind \in {"pairs", "rows"}
  BY <1>1, KindIs DEF SortIInv, Reduced
<1>4. Round \in Nat /\ name \notin runs
  BY <1>3, RoundIsNew DEF Hold
<1>5. name \in RunNames /\ name.kind = Kind
  BY <1>3, <1>4, NameTyped
<1> HIDE DEF name
<1>6. Hold(work', runs, Kind, opened, source) /\ Hold(work', fresh', Kind, opened, source)
  BY <1>2, <1>3, <1>4, <1>5, OneForGroup
<1>7. Kind' = Kind
  BY <1>1 DEF Kind
<1>8. SortTypeOK'
  <2>1. DOMAIN work' = DOMAIN work \cup {name}
    BY <1>2 DEF Add
  <2>2. DOMAIN work \subseteq RunNames
    BY <1>3, HoldThere DEF SortIInv
  <2> QED
    BY <1>1, <1>5, <2>1, <2>2 DEF SortIInv, SortTypeOK, Points
<1>9. Checkpointed => DOMAIN sidecar.runs = runs /\ RunsIntact(sidecar) /\ sidecar.completed = NEdge
  BY <1>1 DEF SortIInv, Reduced, SidecarRunsThere, Late
<1>10. Reduced'
  BY <1>1, <1>3, <1>6, <1>7, <1>9 DEF Reduced, Checkpointed
<1>11. ~Checkpointed => sidecar = Missing
  BY <1>1 DEF SortIInv, CallHolds, Checkpointed
<1>12. SidecarRunsThere'
  <2>1. Checkpointed => RunsIntact(sidecar)'
    BY <1>1, <1>2, <1>4, <1>9, IntactAfterAdd
  <2> QED
    BY <1>1, <1>11, <2>1 DEF SidecarRunsThere, Checkpointed
<1>13. SidecarHolds' /\ ManifestVouches'
  BY <1>1, SidecarSame, VouchedSame DEF SortIInv
<1>14. CallHolds'
  BY <1>1, <1>11 DEF SortIInv, CallHolds, Checkpointed, Late
<1> QED
  BY <1>1, <1>8, <1>10, <1>12, <1>13, <1>14 DEF SortIInv, Scanned, Emitted, CsrThere

(* massive_graph_sort_phase_progress: runs that hold everything. *)
LEMMA RecordedHolds ==
    ASSUME SidecarWhole(sidecar, source), sidecar.completed = NEdge, sidecar.signature = opened,
           NEW kind \in {"pairs", "rows"}, Hold(work, fresh, kind, opened, source),
           NEW phase \in Phases \ {"pairs_input"},
           phase \in {"rows_generated", "rows_reduced"} <=> kind = "rows",
           Recorded(phase)
    PROVE  /\ SidecarWhole(sidecar', source)
           /\ sidecar'.signature = opened /\ sidecar'.completed = NEdge
           /\ DOMAIN sidecar'.runs = fresh
           /\ \A n \in fresh : n \in DOMAIN work /\ work[n] = sidecar'.runs[n]
<1>1. sidecar' = [sidecar EXCEPT !.phase = phase, !.runs = Record(work, fresh)]
  BY DEF Recorded
<1>2. /\ DOMAIN sidecar' = {"signature", "completed", "phase", "runs"}
      /\ sidecar'.signature = opened /\ sidecar'.completed = NEdge
      /\ sidecar'.phase = phase /\ sidecar'.runs = Record(work, fresh)
  BY <1>1 DEF SidecarWhole
<1>3. /\ DOMAIN sidecar'.runs = fresh
      /\ \A n \in fresh : n \in DOMAIN work /\ work[n] = sidecar'.runs[n]
  BY <1>2, RecordHas DEF Hold, RunsOf
<1>4. Hold(sidecar'.runs, fresh, kind, opened, source)
  BY <1>3, SameRuns
<1>5. RowPhase(sidecar') <=> kind = "rows"
  BY <1>2 DEF RowPhase
<1>6. opened \in 0..source /\ NEdge \in 0..NEdge
  BY InputHas DEF SidecarWhole
<1>7. SidecarWhole(sidecar', source)
  BY <1>2, <1>3, <1>4, <1>5, <1>6 DEF SidecarWhole, Hold
<1> QED
  BY <1>2, <1>3, <1>7

LEMMA CommitMergeKeeps ==
    ASSUME SortIInv, CommitMerge
    PROVE  SortIInv'
<1> DEFINE phase == IF Kind = "pairs" THEN "pairs_reduced" ELSE "rows_reduced"
<1>1. /\ pc = "commit" /\ pc' = "drop" /\ Recorded(phase)
      /\ UNCHANGED <<source, work, part, final, manifest, stops, mode, opened, done, buffer, runs, fresh, left>>
  BY DEF CommitMerge
<1>2. Checkpointed /\ Hold(work, fresh, Kind, opened, source) /\ sidecar.completed = NEdge
  BY <1>1 DEF SortIInv, Reduced, CallHolds
<1>3. SidecarWhole(sidecar, source) /\ sidecar.signature = opened
  BY <1>1, <1>2 DEF SortIInv, SidecarHolds
<1>4. /\ Kind \in {"pairs", "rows"} /\ phase \in Phases \ {"pairs_input"}
      /\ phase \in {"rows_generated", "rows_reduced"} <=> Kind = "rows"
  BY KindIs DEF Phases
<1> HIDE DEF phase
<1>5. /\ SidecarWhole(sidecar', source)
      /\ sidecar'.signature = opened /\ sidecar'.completed = NEdge
      /\ DOMAIN sidecar'.runs = fresh
      /\ \A n \in fresh : n \in DOMAIN work /\ work[n] = sidecar'.runs[n]
  BY <1>1, <1>2, <1>3, <1>4, RecordedHolds
<1>6. SidecarHolds'
  BY <1>1, <1>5 DEF SidecarHolds
<1>7. SidecarRunsThere'
  BY <1>1, <1>5 DEF SidecarRunsThere, RunsIntact
<1>8. Reduced'
  BY <1>1, <1>2, <1>4, <1>5 DEF Reduced
<1>9. CallHolds'
  BY <1>1, <1>2 DEF SortIInv, CallHolds, Checkpointed, Late
<1> QED
  BY <1>1, <1>6, <1>7, <1>8, <1>9, VouchedSame
  DEF SortIInv, SortTypeOK, Points, Scanned, Emitted, CsrThere

LEMMA DropReplacedKeeps ==
    ASSUME SortIInv, DropReplaced
    PROVE  SortIInv'
<1>1. /\ pc = "drop" /\ pc' = "merge"
      /\ work' = Unlinked(work, runs \ fresh) /\ runs' = fresh /\ fresh' = {}
      /\ UNCHANGED <<source, part, final, manifest, sidecar, stops, mode, opened, done, buffer, left>>
  BY DEF DropReplaced
<1>2. PICK kind \in {"pairs", "rows"} : Hold(work, fresh, kind, opened, source)
  BY <1>1 DEF SortIInv, Reduced
<1>3. DOMAIN work' = DOMAIN work \ (runs \ fresh)
      /\ \A n \in DOMAIN work \ (runs \ fresh) : work'[n] = work[n]
  BY <1>1 DEF Unlinked
<1>4. fresh \subseteq DOMAIN work' /\ \A n \in fresh : work'[n] = work[n]
  BY <1>2, <1>3 DEF Hold, RunsOf
<1>5. Hold(work', fresh, kind, opened, source)
  BY <1>2, <1>4, SameRuns
<1>6. Kind' = kind
  <2>1. RunsKind(runs') = kind
    BY <1>1, <1>5, KindTold
  <2> QED
    BY <2>1 DEF Kind, RunsKind
<1>7. Checkpointed => DOMAIN sidecar.runs = fresh /\ RunsIntact(sidecar) /\ sidecar.completed = NEdge
  BY <1>1 DEF SortIInv, Reduced, SidecarRunsThere, Late
<1>8. ~Checkpointed => sidecar = Missing
  BY <1>1 DEF SortIInv, CallHolds, Checkpointed
<1>9. SidecarRunsThere'
  BY <1>1, <1>4, <1>7, <1>8 DEF SidecarRunsThere, RunsIntact, Checkpointed
<1>10. Reduced'
  BY <1>1, <1>5, <1>6, <1>7 DEF Reduced, Checkpointed
<1>11. SidecarHolds' /\ ManifestVouches'
  BY <1>1, SidecarSame, VouchedSame DEF SortIInv
<1>12. SortTypeOK'
  <2>1. DOMAIN work \subseteq RunNames
    BY <1>2, HoldThere DEF SortIInv
  <2> QED
    BY <1>1, <1>3, <2>1 DEF SortIInv, SortTypeOK, Points
<1>13. CallHolds'
  BY <1>1, <1>8 DEF SortIInv, CallHolds, Checkpointed, Late
<1> QED
  BY <1>1, <1>9, <1>10, <1>11, <1>12, <1>13 DEF SortIInv, Scanned, Emitted, CsrThere
LEMMA SymmetrizePairsKeeps ==
    ASSUME SortIInv, SymmetrizePairs
    PROVE  SortIInv'
<1>1. /\ pc = "merge" /\ pc' = "emit" /\ Kind = "pairs" /\ left' = Rows(Contents(work, runs))
      /\ UNCHANGED <<source, work, part, final, manifest, sidecar, stops, mode, opened, done, buffer, runs, fresh>>
  BY DEF SymmetrizePairs, disk
<1>2. Hold(work, runs, "pairs", opened, source) /\ fresh = {}
  BY <1>1 DEF SortIInv, Reduced, CallHolds
<1>3. RunsOf(work, {}, "rows") /\ Contents(work, {}) = {} /\ InOrder({}, "rows")
  BY NoRuns, NoneInOrder
<1>4. Emitted'
  BY <1>1, <1>2, <1>3 DEF Emitted
<1>5. Reduced'
  BY <1>1 DEF SortIInv, Reduced, Checkpointed
<1>6. SidecarRunsThere'
  BY <1>1 DEF SortIInv, SidecarRunsThere, RunsIntact, Checkpointed, Late
<1>7. SidecarHolds' /\ ManifestVouches'
  BY <1>1, SidecarSame, VouchedSame DEF SortIInv
<1>8. CallHolds'
  BY <1>1 DEF SortIInv, CallHolds, Checkpointed, Late
<1> QED
  BY <1>1, <1>4, <1>5, <1>6, <1>7, <1>8 DEF SortIInv, SortTypeOK, Points, Scanned, CsrThere

LEMMA SpillRowsKeeps ==
    ASSUME SortIInv, SpillRows
    PROVE  SortIInv'
<1> DEFINE name == RunName("rows", "run", Cardinality(fresh))
<1>1. /\ pc = "emit"
      /\ UNCHANGED <<source, part, final, manifest, sidecar, stops, pc, mode, opened, done, buffer, runs>>
  BY DEF SpillRows
<1>2. PICK run \in SUBSET left : /\ work' = Add(work, name, run)
                                 /\ fresh' = fresh \cup {name} /\ left' = left \ run
  BY DEF SpillRows
<1>3. /\ Hold(work, runs, "pairs", opened, source)
      /\ RunsOf(work, fresh, "rows") /\ InOrder(fresh, "rows")
      /\ Contents(work, fresh) \cap left = {}
      /\ Contents(work, fresh) \cup left = Rows(Contents(work, runs))
  BY <1>1 DEF SortIInv, Emitted
<1>4. Cardinality(fresh) \in Nat /\ name \notin fresh /\ InOrder(fresh \cup {name}, "rows")
  BY <1>3, NextIsNew DEF RunsOf
<1>5. name \in RunNames /\ name.kind = "rows"
  BY <1>4, NameTyped
<1> HIDE DEF name
<1>6. name \notin runs
  BY <1>3, <1>5 DEF Hold, RunsOf
<1>7. Contents(work, fresh) \cap run = {}
  BY <1>2, <1>3
<1>8. RunsOf(work', fresh', "rows") /\ Contents(work', fresh') = Contents(work, fresh) \cup run
  <2>1. RunsOf(work, fresh, "rows")
    BY <1>3
  <2>2. name \in RunNames /\ name \notin fresh /\ name.kind = "rows"
    BY <1>4, <1>5
  <2>3. RunsOf(Add(work, name, run), fresh \cup {name}, "rows")
    BY <1>7, <2>1, <2>2, OneMoreRun
  <2>4. Contents(Add(work, name, run), fresh \cup {name}) = Contents(work, fresh) \cup run
    BY <2>1, <2>2, AddedContents DEF RunsOf
  <2> QED
    BY <1>2, <2>3, <2>4
<1>9. DOMAIN work' = DOMAIN work \cup {name}
      /\ \A n \in DOMAIN work : n # name => work'[n] = work[n]
  BY <1>2 DEF Add
<1>10. runs \subseteq DOMAIN work' /\ \A n \in runs : work'[n] = work[n]
  BY <1>3, <1>6, <1>9 DEF Hold, RunsOf
<1>11. Hold(work', runs, "pairs", opened, source) /\ Contents(work', runs) = Contents(work, runs)
  BY <1>3, <1>10, SameRuns
<1>12. Contents(work', fresh') \cap left' = {} /\ Contents(work', fresh') \cup left' = Rows(Contents(work', runs))
  BY <1>2, <1>3, <1>8, <1>11
<1>13. Emitted'
  BY <1>1, <1>2, <1>4, <1>8, <1>11, <1>12 DEF Emitted
<1>14. Reduced'
  BY <1>1 DEF SortIInv, Reduced, Checkpointed
<1>15. Checkpointed => DOMAIN sidecar.runs = runs /\ RunsIntact(sidecar)
  BY <1>1 DEF SortIInv, Reduced, SidecarRunsThere, Late
<1>16. ~Checkpointed => sidecar = Missing
  BY <1>1 DEF SortIInv, CallHolds, Checkpointed
<1>17. SidecarRunsThere'
  <2>1. Checkpointed => RunsIntact(sidecar)'
    BY <1>1, <1>2, <1>6, <1>15, IntactAfterAdd
  <2> QED
    BY <1>1, <1>16, <2>1 DEF SidecarRunsThere, Checkpointed
<1>18. SidecarHolds' /\ ManifestVouches'
  BY <1>1, SidecarSame, VouchedSame DEF SortIInv
<1>19. SortTypeOK'
  <2>1. DOMAIN work \subseteq RunNames
    BY <1>3, HoldThere DEF SortIInv
  <2> QED
    BY <1>1, <1>5, <1>9, <2>1 DEF SortIInv, SortTypeOK
<1>20. CallHolds'
  BY <1>1 DEF SortIInv, CallHolds, Checkpointed, Late
<1> QED
  BY <1>1, <1>13, <1>14, <1>17, <1>18, <1>19, <1>20 DEF SortIInv, Scanned, CsrThere

LEMMA CommitRowsKeeps ==
    ASSUME SortIInv, CommitRows
    PROVE  SortIInv'
<1>1. /\ pc = "emit" /\ pc' = "drop" /\ left = {}
      /\ IF Checkpointed THEN Recorded("rows_generated") ELSE UNCHANGED sidecar
      /\ UNCHANGED <<source, work, part, final, manifest, stops, mode, opened, done, buffer, runs, fresh, left>>
  BY DEF CommitRows
<1>2. /\ Exactly(Contents(work, runs), NEdge, opened, source)
      /\ RunsOf(work, fresh, "rows") /\ Contents(work, fresh) = Rows(Contents(work, runs))
  BY <1>1 DEF SortIInv, Emitted, Hold
<1>3. source \in Versions /\ opened \in Versions
  BY <1>1, VersionsAre DEF SortIInv, SortTypeOK, CallHolds
<1>4. Hold(work, fresh, "rows", opened, source)
  BY <1>2, <1>3, MergedFrom DEF Hold
<1>5. CASE Checkpointed
  <2>1. /\ SidecarWhole(sidecar, source) /\ sidecar.signature = opened /\ sidecar.completed = NEdge
    BY <1>1, <1>5 DEF SortIInv, SidecarHolds, Reduced
  <2>2. Recorded("rows_generated") /\ "rows_generated" \in Phases \ {"pairs_input"}
    BY <1>1, <1>5 DEF Phases
  <2>3. /\ SidecarWhole(sidecar', source)
        /\ sidecar'.signature = opened /\ sidecar'.completed = NEdge
        /\ DOMAIN sidecar'.runs = fresh
        /\ \A n \in fresh : n \in DOMAIN work /\ work[n] = sidecar'.runs[n]
    BY <1>4, <2>1, <2>2, RecordedHolds
  <2>4. SidecarHolds'
    BY <1>1, <2>3 DEF SidecarHolds
  <2>5. SidecarRunsThere'
    BY <1>1, <2>3 DEF SidecarRunsThere, RunsIntact
  <2>6. Reduced'
    BY <1>1, <1>4, <2>3 DEF Reduced
  <2>7. CallHolds'
    BY <1>1, <1>5 DEF SortIInv, CallHolds, Checkpointed, Late
  <2> QED
    BY <1>1, <2>4, <2>5, <2>6, <2>7, VouchedSame
    DEF SortIInv, SortTypeOK, Points, Scanned, Emitted, CsrThere
<1>6. CASE ~Checkpointed
  <2>1. sidecar = Missing /\ sidecar' = Missing /\ mode = "plain"
    BY <1>1, <1>6 DEF SortIInv, CallHolds, Checkpointed
  <2>2. SidecarHolds' /\ SidecarRunsThere'
    BY <1>1, <2>1 DEF SidecarHolds, SidecarRunsThere, Checkpointed
  <2>3. Reduced'
    BY <1>1, <1>4, <2>1 DEF Reduced, Checkpointed
  <2>4. CallHolds'
    BY <1>1, <2>1 DEF SortIInv, CallHolds, Checkpointed, Late
  <2> QED
    BY <1>1, <2>2, <2>3, <2>4, VouchedSame
    DEF SortIInv, SortTypeOK, Points, Scanned, Emitted, CsrThere
<1> QED
  BY <1>5, <1>6

(* Three files of one graph, under whichever names, are whole. *)
LEMMA WholeBy ==
    ASSUME NEW p, NEW q, NEW records, NEW o, NEW s, Merged(records, o, s),
           \A f \in Files : p[f] = records \/ q[f] = records
    PROVE  \A f \in Files : \E r \in {p[f], q[f]} \ {Missing, Torn} : Ends(r) = Ends(Graph(0))
  BY MergedIsFile

LEMMA WholeCsrIs ==
    WholeCsr <=> \A f \in Files : \E r \in {part[f], final[f]} \ {Missing, Torn} : Ends(r) = Ends(Graph(0))
  BY DEF WholeCsr, Whole, Ends

LEMMA CsrIsWhole ==
    ASSUME CsrThere, pc \in Late \ {"idle"}
    PROVE  WholeCsr
<1>1. PICK records : /\ Merged(records, opened, source)
                     /\ \A f \in Files : part[f] = records \/ final[f] = records
  BY DEF CsrThere, Csr, Late
<1> QED
  BY <1>1, WholeBy, WholeCsrIs

LEMMA OpenCsrKeeps ==
    ASSUME SortIInv, OpenCsr
    PROVE  SortIInv'
<1>1. /\ pc = "merge" /\ pc' = "csr" /\ Kind = "rows" /\ part' = [f \in Files |-> Torn]
      /\ UNCHANGED <<source, work, final, manifest, sidecar, stops, mode, opened, done, buffer, runs, fresh, left>>
  BY DEF OpenCsr
<1>2. Kind' = Kind
  BY <1>1 DEF Kind
<1>3. Reduced'
  BY <1>1, <1>2 DEF SortIInv, Reduced, Checkpointed
<1>4. SidecarRunsThere'
  BY <1>1 DEF SortIInv, SidecarRunsThere, RunsIntact, Checkpointed, Late
<1>5. SidecarHolds' /\ ManifestVouches'
  BY <1>1, SidecarSame, VouchedSame DEF SortIInv
<1>6. CallHolds'
  BY <1>1 DEF SortIInv, CallHolds, Checkpointed, Late
<1>7. SortTypeOK'
  BY <1>1 DEF SortIInv, SortTypeOK, Points
<1> QED
  BY <1>1, <1>3, <1>4, <1>5, <1>6, <1>7 DEF SortIInv, Scanned, Emitted, CsrThere

LEMMA WriteCsrKeeps ==
    ASSUME SortIInv, WriteCsr
    PROVE  SortIInv'
<1> DEFINE records == Contents(work, runs)
<1>1. /\ pc = "csr" /\ pc' = "clear" /\ part' = [f \in Files |-> records]
      /\ UNCHANGED <<source, work, final, manifest, sidecar, stops, mode, opened, done, buffer, runs, fresh, left>>
  BY DEF WriteCsr
<1>2. Merged(records, opened, source)
  BY <1>1 DEF SortIInv, Reduced, Hold
<1> HIDE DEF records
<1>3. CsrThere'
  <2>1. "offsets" \in Files
    BY FilesAre
  <2>2. part' = Csr(records) /\ records \in {part'[f] : f \in Files}
    BY <1>1, <2>1 DEF Csr
  <2> QED
    BY <1>1, <1>2, <2>2 DEF CsrThere
<1>4. SidecarRunsThere'
  BY <1>1 DEF SortIInv, SidecarRunsThere, RunsIntact, Checkpointed, Late, CallHolds, SortTypeOK
<1>5. SidecarHolds' /\ ManifestVouches'
  BY <1>1, SidecarSame, VouchedSame DEF SortIInv
<1>6. CallHolds'
  BY <1>1 DEF SortIInv, CallHolds, Checkpointed, Late
<1>7. SortTypeOK'
  BY <1>1 DEF SortIInv, SortTypeOK, Points
<1>8. Reduced'
  BY <1>1 DEF Reduced
<1> QED
  BY <1>1, <1>3, <1>4, <1>5, <1>6, <1>7, <1>8 DEF SortIInv, Scanned, Emitted
LEMMA RemoveRowsKeeps ==
    ASSUME SortIInv, RemoveRows
    PROVE  SortIInv'
<1>1. /\ pc = "clear" /\ pc' \in {"publish", "clear"}
      /\ UNCHANGED <<source, part, final, manifest, sidecar, stops, mode, opened, done, buffer, fresh, left>>
  BY DEF RemoveRows
<1>2. PICK n \in runs : work' = Unlinked(work, {n}) /\ runs' = runs \ {n}
  BY DEF RemoveRows
<1>3. WholeCsr
  BY <1>1, CsrIsWhole DEF SortIInv, Late
<1>4. WholeCsr'
  BY <1>1, <1>3 DEF WholeCsr, Whole
<1>5. CsrThere'
  <2>1. PICK records \in {part[f] : f \in Files} :
           Merged(records, opened, source) /\ part = Csr(records)
    BY <1>1 DEF SortIInv, CsrThere
  <2>2. final = Nothing
    BY <1>1 DEF SortIInv, CallHolds
  <2>3. \A f \in Files : part[f] = records /\ final[f] = Missing
    BY <2>1, <2>2 DEF Csr, Nothing
  <2> QED
    BY <1>1, <2>1, <2>3 DEF CsrThere
<1>6. SidecarRunsThere'
  BY <1>1, <1>4 DEF SidecarRunsThere, Late
<1>7. SidecarHolds' /\ ManifestVouches'
  BY <1>1, SidecarSame, VouchedSame DEF SortIInv
<1>8. CallHolds'
  BY <1>1 DEF SortIInv, CallHolds, Checkpointed, Late
<1>9. SortTypeOK'
  <2>1. DOMAIN work' \subseteq RunNames \/ work' = NoDir
    <3>1. DOMAIN work' = DOMAIN work \ {n} /\ work' = [m \in DOMAIN work \ {n} |-> work[m]]
      BY <1>2 DEF Unlinked
    <3>2. CASE work # NoDir
      BY <3>1, <3>2 DEF SortIInv, SortTypeOK
    <3>3. CASE work = NoDir
      <4>1. DOMAIN work = {Missing}
        BY <3>3 DEF NoDir
      <4>2. CASE n = Missing
        BY <3>1, <4>1, <4>2
      <4>3. CASE n # Missing
        <5>1. work' = [m \in {Missing} |-> {}]
          BY <3>1, <3>3, <4>1, <4>3 DEF NoDir
        <5> QED
          BY <5>1 DEF NoDir
      <4> QED
        BY <4>2, <4>3
    <3> QED
      BY <3>2, <3>3
  <2> QED
    BY <1>1, <2>1 DEF SortIInv, SortTypeOK, Points
<1> QED
  BY <1>1, <1>5, <1>6, <1>7, <1>8, <1>9 DEF SortIInv, Scanned, Reduced, Emitted

LEMMA PublishKeeps ==
    ASSUME SortIInv, Publish
    PROVE  SortIInv'
<1>1. /\ pc = "publish" /\ pc' \in {"publish", "close"}
      /\ UNCHANGED <<source, work, manifest, sidecar, stops, mode, opened, done, buffer, runs, fresh, left>>
  BY DEF Publish
<1>2. PICK i \in 1..3 :
         /\ \A j \in 1..3 : (part[CsrFiles[j]] = Missing) <=> (j < i)
         /\ final' = [final EXCEPT ![CsrFiles[i]] = part[CsrFiles[i]]]
         /\ part' = [part EXCEPT ![CsrFiles[i]] = Missing]
         /\ pc' = IF i = 3 THEN "close" ELSE "publish"
  BY DEF Publish
<1>3. PICK records :
         /\ Merged(records, opened, source)
         /\ \A f \in Files : \/ part[f] = records /\ final[f] = Missing
                             \/ part[f] = Missing /\ final[f] = records
  BY <1>1 DEF SortIInv, CsrThere
<1>4. records # Missing
  BY <1>3, MergedIsFile
<1>5. /\ part = [f \in Files |-> part[f]] /\ final = [f \in Files |-> final[f]]
      /\ CsrFiles[i] \in Files
  BY FilesAre DEF SortIInv, SortTypeOK
<1>6. part[CsrFiles[i]] = records
  BY <1>2, <1>3, <1>5
<1>7. /\ part' = [f \in Files |-> IF f = CsrFiles[i] THEN Missing ELSE part[f]]
      /\ final' = [f \in Files |-> IF f = CsrFiles[i] THEN records ELSE final[f]]
  BY <1>2, <1>5, <1>6
<1>8. \A f \in Files : \/ part'[f] = records /\ final'[f] = Missing
                       \/ part'[f] = Missing /\ final'[f] = records
  BY <1>3, <1>7
<1>9. ManifestVouches' /\ manifest = Missing /\ manifest' = Missing
  BY <1>1 DEF SortIInv, CallHolds, ManifestVouches
<1>10. WholeCsr'
  <2>1. \A f \in Files : \E r \in {part'[f], final'[f]} \ {Missing, Torn} : Ends(r) = Ends(Graph(0))
    BY <1>3, <1>8, WholeBy
  <2> QED
    BY <2>1 DEF WholeCsr, Whole, Ends
<1>11. CsrThere'
  <2>1. CASE i = 3
    <3>1. pc' = "close"
      BY <1>2, <2>1
    <3>2. ASSUME NEW f \in Files, f # CsrFiles[3] PROVE final[f] = records
      <4>1. PICK j \in 1..3 : f = CsrFiles[j]
        BY FilesAre
      <4>2. j < i
        BY <2>1, <3>2, <4>1
      <4> QED
        BY <1>2, <1>3, <1>4, <4>1, <4>2
    <3>3. \A f \in Files : final'[f] = records
      BY <1>7, <2>1, <3>2
    <3>4. final' = Csr(records)
      BY <1>7, <3>3 DEF Csr
    <3>5. records \in {final'[f] : f \in Files}
      BY <1>5, <3>3
    <3> QED
      BY <1>1, <1>3, <3>1, <3>4, <3>5 DEF CsrThere
  <2>2. CASE i # 3
    <3>1. pc' = "publish"
      BY <1>2, <2>2
    <3>2. records \in {part'[f] : f \in Files} \cup {final'[f] : f \in Files}
      BY <1>5, <1>8
    <3> QED
      BY <1>1, <1>3, <1>8, <3>1, <3>2 DEF CsrThere
  <2> QED
    BY <2>1, <2>2
<1>12. SidecarRunsThere'
  BY <1>1, <1>10 DEF SidecarRunsThere, Late
<1>13. SidecarHolds'
  BY <1>1, SidecarSame DEF SortIInv
<1>14. CallHolds'
  BY <1>1, <1>9 DEF SortIInv, CallHolds, Checkpointed, Late
<1>15. SortTypeOK'
  <2>1. part' = [f \in Files |-> part'[f]] /\ final' = [f \in Files |-> final'[f]]
    BY <1>7
  <2> QED
    BY <1>1, <2>1 DEF SortIInv, SortTypeOK, Points
<1> QED
  BY <1>1, <1>9, <1>11, <1>12, <1>13, <1>14, <1>15 DEF SortIInv, Scanned, Reduced, Emitted

(* The end of a call, on whatever path. *)
LEMMA EndCallKeeps ==
    ASSUME SortIInv, pc # "idle", EndCall, UNCHANGED <<source, part, final, manifest, sidecar>>,
           stops' \in Nat, work' = NoDir \/ DOMAIN work' \subseteq RunNames,
           sidecar # Missing => RunsIntact(sidecar)' \/ WholeCsr
    PROVE  SortIInv'
<1>1. /\ pc' = "idle" /\ mode' = "plain" /\ opened' = Missing /\ done' = 0
      /\ buffer' = {} /\ runs' = {} /\ fresh' = {}
  BY DEF EndCall
<1>2. SidecarHolds' /\ ManifestVouches'
  BY <1>1, SidecarSame, VouchedSame DEF SortIInv
<1>3. WholeCsr => WholeCsr'
  BY DEF WholeCsr, Whole
<1>4. SidecarRunsThere'
  BY <1>1, <1>3 DEF SidecarRunsThere, Late
<1>5. CallHolds'
  BY <1>1 DEF CallHolds, Late
<1>6. SortTypeOK'
  BY <1>1, InputHas DEF SortIInv, SortTypeOK, Points, Modes
<1> QED
  BY <1>1, <1>2, <1>4, <1>5, <1>6 DEF SortIInv, Scanned, Reduced, Emitted, CsrThere

LEMMA CloseWorkKeeps ==
    ASSUME SortIInv, CloseWork
    PROVE  SortIInv'
<1>1. pc = "close" /\ UNCHANGED <<source, part, final, manifest, sidecar, stops>>
  BY DEF CloseWork
<1>2. WholeCsr
  BY <1>1, CsrIsWhole DEF SortIInv, Late
<1>3. CASE work = Empty
  <2>1. work' = NoDir /\ pc' = "vouch" /\ UNCHANGED <<mode, opened, done, buffer, runs, fresh, left>>
    BY <1>3 DEF CloseWork
  <2>2. WholeCsr'
    BY <1>1, <1>2 DEF WholeCsr, Whole
  <2>3. SidecarRunsThere'
    BY <2>1, <2>2 DEF SidecarRunsThere, Late
  <2>4. CsrThere'
    BY <1>1, <2>1 DEF SortIInv, CsrThere
  <2>5. SidecarHolds' /\ ManifestVouches'
    BY <1>1, <2>1, SidecarSame, VouchedSame DEF SortIInv
  <2>6. CallHolds'
    BY <1>1, <2>1 DEF SortIInv, CallHolds, Checkpointed, Late
  <2>7. SortTypeOK'
    BY <1>1, <2>1 DEF SortIInv, SortTypeOK, Points
  <2> QED
    BY <2>1, <2>3, <2>4, <2>5, <2>6, <2>7 DEF SortIInv, Scanned, Reduced, Emitted
<1>4. CASE work # Empty
  <2>1. EndCall /\ UNCHANGED work
    BY <1>4 DEF CloseWork
  <2> QED
    BY <1>1, <1>2, <2>1, EndCallKeeps DEF SortIInv, SortTypeOK
<1> QED
  BY <1>3, <1>4

LEMMA WriteManifestKeeps ==
    ASSUME SortIInv, WriteManifest
    PROVE  SortIInv'
<1>1. pc = "vouch" /\ UNCHANGED <<source, work, part, final, sidecar, stops>>
  BY DEF WriteManifest
<1>2. WholeCsr
  BY <1>1, CsrIsWhole DEF SortIInv, Late
<1>3. CASE InputHolds
  <2>1. manifest' = final /\ pc' = "retire" /\ UNCHANGED <<mode, opened, done, buffer, runs, fresh, left>>
    BY <1>3 DEF WriteManifest
  <2>2. PICK records : Merged(records, opened, source) /\ final = Csr(records)
    BY <1>1 DEF SortIInv, CsrThere
  <2>3. source \in Nat /\ source \in Versions
    BY VersionsAre DEF SortIInv, SortTypeOK
  <2>4. records = Graph(source)
    BY <1>3, <2>2, <2>3, MergedNow DEF InputHolds
  <2>5. ManifestVouches'
    BY <1>1, <2>1, <2>2, <2>3, <2>4 DEF ManifestVouches, Csr
  <2>6. WholeCsr'
    BY <1>1, <1>2 DEF WholeCsr, Whole
  <2>7. SidecarRunsThere'
    BY <2>1, <2>6 DEF SidecarRunsThere, Late
  <2>8. CsrThere'
    BY <1>1, <2>1 DEF SortIInv, CsrThere
  <2>9. SidecarHolds'
    BY <1>1, <2>1, SidecarSame DEF SortIInv
  <2>10. CallHolds'
    BY <1>1, <2>1 DEF SortIInv, CallHolds, Checkpointed, Late
  <2>11. SortTypeOK'
    BY <1>1, <2>1 DEF SortIInv, SortTypeOK, Points
  <2> QED
    BY <2>1, <2>5, <2>7, <2>8, <2>9, <2>10, <2>11 DEF SortIInv, Scanned, Reduced, Emitted
<1>4. CASE ~InputHolds
  <2>1. EndCall /\ UNCHANGED manifest
    BY <1>4 DEF WriteManifest
  <2> QED
    BY <1>1, <1>2, <2>1, EndCallKeeps DEF SortIInv, SortTypeOK
<1> QED
  BY <1>3, <1>4

LEMMA RetireSidecarKeeps ==
    ASSUME SortIInv, RetireSidecar
    PROVE  SortIInv'
<1>1. /\ pc = "retire" /\ sidecar' = Missing
      /\ UNCHANGED <<source, work, part, final, manifest, stops>>
      /\ pc' = "idle" /\ mode' = "plain" /\ opened' = Missing /\ done' = 0
      /\ buffer' = {} /\ runs' = {} /\ fresh' = {}
  BY DEF RetireSidecar, EndCall
<1>2. SidecarHolds' /\ SidecarRunsThere'
  BY <1>1 DEF SidecarHolds, SidecarRunsThere, Late
<1>3. ManifestVouches'
  BY <1>1, VouchedSame DEF SortIInv
<1>4. CallHolds'
  BY <1>1 DEF CallHolds, Late
<1>5. SortTypeOK'
  BY <1>1, InputHas DEF SortIInv, SortTypeOK, Points, Modes
<1> QED
  BY <1>1, <1>2, <1>3, <1>4, <1>5 DEF SortIInv, Scanned, Reduced, Emitted, CsrThere
(* A run that is being written at a stop is none the sidecar names. *)
LEMMA WritingIsNew ==
    ASSUME SortIInv, NEW name \in Writing
    PROVE  /\ name \in RunNames /\ pc \notin Late
           /\ work # NoDir /\ DOMAIN work \subseteq RunNames
           /\ Checkpointed => name \notin DOMAIN sidecar.runs
<1>1. CASE pc = "scan" /\ buffer # {}
  <2>1. name = NextPairRun
    BY <1>1 DEF Writing
  <2>2. /\ work # NoDir /\ DOMAIN work \subseteq RunNames
        /\ IsFiniteSet(runs) /\ InOrder(runs, "pairs")
        /\ Checkpointed => DOMAIN sidecar.runs \subseteq runs
    BY <1>1 DEF SortIInv, SortTypeOK, Scanned, RunsOf
  <2>3. Cardinality(runs) \in Nat /\ NextPairRun \notin runs
    BY <2>2, NextIsNew DEF NextPairRun
  <2>4. NextPairRun \in RunNames
    BY <2>3, NameTyped DEF NextPairRun
  <2> QED
    BY <1>1, <2>1, <2>2, <2>3, <2>4 DEF Late
<1>2. CASE pc = "merge"
  <2>1. name = RunName(Kind, "merge", Round)
    BY <1>2 DEF Writing
  <2>2. /\ Hold(work, runs, Kind, opened, source)
        /\ Checkpointed => DOMAIN sidecar.runs = runs
    BY <1>2 DEF SortIInv, Reduced
  <2>3. Round \in Nat /\ name \notin runs
    BY <2>1, <2>2, RoundIsNew DEF Hold
  <2>4. name \in RunNames
    BY <2>1, <2>3, KindIs, NameTyped
  <2>5. work # NoDir /\ DOMAIN work \subseteq RunNames
    BY <2>2, HoldThere DEF SortIInv
  <2> QED
    BY <1>2, <2>2, <2>3, <2>4, <2>5 DEF Late
<1>3. CASE pc = "emit"
  <2>1. name = RunName("rows", "run", Cardinality(fresh))
    BY <1>3 DEF Writing
  <2>2. /\ Hold(work, runs, "pairs", opened, source) /\ IsFiniteSet(fresh)
        /\ Checkpointed => DOMAIN sidecar.runs = runs
    BY <1>3 DEF SortIInv, Reduced, Emitted, RunsOf
  <2>3. Cardinality(fresh) \in Nat
    BY <2>2, FS_CardinalityType
  <2>4. name \in RunNames /\ name.kind = "rows"
    BY <2>1, <2>3, NameTyped
  <2>5. name \notin runs
    BY <2>2, <2>4 DEF Hold, RunsOf
  <2>6. work # NoDir /\ DOMAIN work \subseteq RunNames
    BY <2>2, HoldThere DEF SortIInv
  <2> QED
    BY <1>3, <2>2, <2>4, <2>5, <2>6 DEF Late
<1> QED
  BY <1>1, <1>2, <1>3 DEF Writing

LEMMA InterruptKeeps ==
    ASSUME SortIInv, Interrupt
    PROVE  SortIInv'
<1>1. /\ pc # "idle" /\ stops' = stops + 1 /\ EndCall
      /\ UNCHANGED <<source, part, final, manifest, sidecar>>
      /\ UNCHANGED work \/ \E n \in Writing : work' = Add(work, n, Torn)
  BY DEF Interrupt
<1>2. stops' \in Nat
  BY <1>1 DEF SortIInv, SortTypeOK
<1>3. CASE UNCHANGED work
  <2>1. work' = NoDir \/ DOMAIN work' \subseteq RunNames
    BY <1>3 DEF SortIInv, SortTypeOK
  <2>2. sidecar # Missing => RunsIntact(sidecar)' \/ WholeCsr
    BY <1>1, <1>3 DEF SortIInv, SidecarRunsThere, RunsIntact
  <2> QED
    BY <1>1, <1>2, <2>1, <2>2, EndCallKeeps
<1>4. ASSUME NEW n \in Writing, work' = Add(work, n, Torn) PROVE SortIInv'
  <2>1. /\ n \in RunNames /\ pc \notin Late /\ DOMAIN work \subseteq RunNames
        /\ Checkpointed => n \notin DOMAIN sidecar.runs
    BY WritingIsNew
  <2>2. DOMAIN work' \subseteq RunNames
    BY <1>4, <2>1 DEF Add
  <2>3. sidecar # Missing => Checkpointed
    BY <1>1 DEF SortIInv, CallHolds, Checkpointed
  <2>4. sidecar # Missing => RunsIntact(sidecar)
    BY <2>1 DEF SortIInv, SidecarRunsThere
  <2>5. sidecar # Missing => RunsIntact(sidecar)'
    BY <1>1, <1>4, <2>1, <2>3, <2>4, IntactAfterAdd
  <2> QED
    BY <1>1, <1>2, <2>2, <2>5, EndCallKeeps
<1> QED
  BY <1>1, <1>3, <1>4

LEMMA ChangeSourceKeeps ==
    ASSUME SortIInv, ChangeSource
    PROVE  SortIInv'
<1>1. /\ source' = source + 1 /\ source < MaxVersion
      /\ UNCHANGED <<work, part, final, manifest, sidecar, stops, pc, mode, opened, done,
                     buffer, runs, fresh, left>>
  BY DEF ChangeSource, disk, process
<1>2. source \in Nat /\ source' \in Nat /\ source <= source' /\ source' \in Versions
      /\ 0..source \subseteq 0..source'
  BY <1>1, BoundAssumption DEF SortIInv, SortTypeOK, Versions
<1>3. pc # "idle" => opened \in 0..source /\ opened \in Nat
  BY <1>2 DEF SortIInv, CallHolds
<1>4. SortTypeOK'
  BY <1>1, <1>2 DEF SortIInv, SortTypeOK
<1>5. CallHolds'
  BY <1>1, <1>2 DEF SortIInv, CallHolds, Checkpointed
<1>6. SidecarHolds'
  BY <1>1, <1>2, SidecarWholeGrows DEF SortIInv, SidecarHolds, Checkpointed
<1>7. SidecarRunsThere'
  <2>1. WholeCsr => WholeCsr'
    BY <1>1 DEF WholeCsr, Whole
  <2> QED
    BY <1>1, <2>1 DEF SortIInv, SidecarRunsThere, RunsIntact, Checkpointed
<1>8. Scanned'
  <2>1. pc = "scan" => Exactly(Contents(work, runs) \cup buffer, done, opened, source')
    BY <1>2, <1>3, ExactlyGrows DEF SortIInv, Scanned
  <2> QED
    BY <1>1, <2>1 DEF SortIInv, Scanned, Checkpointed
<1>9. pc # "idle" => \A names, kind : Hold(work, names, kind, opened, source)
                                       => Hold(work, names, kind, opened, source')
  BY <1>2, <1>3, HoldGrows
<1>10. Reduced'
  <2>1. Kind' = Kind
    BY <1>1 DEF Kind
  <2> QED
    BY <1>1, <1>9, <2>1 DEF SortIInv, Reduced, Checkpointed
<1>11. Emitted'
  BY <1>1, <1>9 DEF SortIInv, Emitted
<1>12. pc # "idle" => \A records : Merged(records, opened, source) => Merged(records, opened, source')
  BY <1>2, <1>3, MergedGrows
<1>13. CsrThere'
  BY <1>1, <1>12 DEF SortIInv, CsrThere
<1>14. ManifestVouches'
  BY <1>1, VouchedSame DEF SortIInv
<1> QED
  BY <1>4, <1>5, <1>6, <1>7, <1>8, <1>10, <1>11, <1>13, <1>14 DEF SortIInv

LEMMA NothingKeeps ==
    ASSUME SortIInv, UNCHANGED vars
    PROVE  SortIInv'
<1>1. UNCHANGED <<source, work, part, final, manifest, sidecar, stops, pc, mode, opened, done,
                  buffer, runs, fresh, left>>
  BY DEF vars, disk, process
<1>2. SortTypeOK' /\ CallHolds' /\ SidecarHolds'
  BY <1>1 DEF SortIInv, SortTypeOK, CallHolds, SidecarHolds, Checkpointed
<1>3. SidecarRunsThere'
  BY <1>1 DEF SortIInv, SidecarRunsThere, RunsIntact, Checkpointed, WholeCsr, Whole
<1>4. Scanned' /\ Emitted' /\ CsrThere'
  BY <1>1 DEF SortIInv, Scanned, Emitted, CsrThere, Checkpointed
<1>5. Reduced'
  BY <1>1 DEF SortIInv, Reduced, Kind, Checkpointed
<1> QED
  BY <1>1, <1>2, <1>3, <1>4, <1>5, VouchedSame DEF SortIInv

LEMMA SortStarts == Init => SortIInv
<1> SUFFICES ASSUME Init PROVE SortIInv
  OBVIOUS
<1>1. /\ source = 0 /\ work = NoDir /\ part = Nothing /\ final = Nothing
      /\ manifest = Missing /\ sidecar = Missing /\ stops = 0
      /\ pc = "idle" /\ mode = "plain" /\ opened = Missing /\ done = 0
      /\ buffer = {} /\ runs = {} /\ fresh = {} /\ left = {}
  BY DEF Init, ProcessInit
<1>2. SortTypeOK
  BY <1>1, BoundAssumption, InputHas DEF SortTypeOK, Points, Modes, Nothing, Versions
<1> QED
  BY <1>1, <1>2 DEF SortIInv, CallHolds, SidecarHolds, SidecarRunsThere, Scanned, Reduced,
     Emitted, CsrThere, ManifestVouches, Late

LEMMA SortNextKeeps == SortIInv /\ [Next]_vars => SortIInv'
<1> SUFFICES ASSUME SortIInv, [Next]_vars PROVE SortIInv'
  OBVIOUS
<1>1. ASSUME NEW m \in Modes, Start(m) PROVE SortIInv'
  BY <1>1, StartKeeps
<1>2. CASE Step
  BY <1>2, OpenWorkKeeps, PushKeeps, CommitPairsKeeps, EndScanKeeps, MergeGroupKeeps,
     CommitMergeKeeps, DropReplacedKeeps, SymmetrizePairsKeeps, SpillRowsKeeps, CommitRowsKeeps,
     OpenCsrKeeps, WriteCsrKeeps, RemoveRowsKeeps, PublishKeeps, CloseWorkKeeps,
     WriteManifestKeeps, RetireSidecarKeeps DEF Step
<1>3. CASE Interrupt
  BY <1>3, InterruptKeeps
<1>4. CASE ChangeSource
  BY <1>4, ChangeSourceKeeps
<1>5. CASE UNCHANGED vars
  BY <1>5, NothingKeeps
<1> QED
  BY <1>1, <1>2, <1>3, <1>4, <1>5 DEF Next

LEMMA SortInvariant == Spec => []SortIInv
  BY SortStarts, SortNextKeeps, PTL DEF Spec

-----------------------------------------------------------------------------
(* The theorems.                                                           *)

LEMMA CoverFollows == SortIInv => CommittedWorkKept
<1> SUFFICES ASSUME SortIInv, sidecar # Missing
             PROVE  RunsCover(sidecar) /\ (RunsIntact(sidecar) \/ WholeCsr)
  BY DEF CommittedWorkKept
<1> DEFINE all == Contents(sidecar.runs, DOMAIN sidecar.runs)
<1>1. SidecarWhole(sidecar, source)
  BY DEF SortIInv, SidecarHolds
<1>2. RunsIntact(sidecar) \/ WholeCsr
  BY DEF SortIInv, SidecarRunsThere
<1>3. Apart(sidecar.runs, DOMAIN sidecar.runs)
  BY <1>1 DEF SidecarWhole, RunsOf
<1>4. CASE RowPhase(sidecar)
  <2>1. Merged(all, sidecar.signature, source)
    BY <1>1, <1>4 DEF SidecarWhole
  <2> HIDE DEF all
  <2>2. Ends(all) = Ends(Graph(0))
    BY <2>1, MergedIsFile
  <2> QED
    BY <1>2, <1>3, <1>4, <2>2 DEF RunsCover, Apart, Ends, all
<1>5. CASE ~RowPhase(sidecar)
  <2>1. Exactly(all, sidecar.completed, sidecar.signature, source) /\ sidecar.completed \in 0..NEdge
    BY <1>1, <1>5 DEF SidecarWhole
  <2> HIDE DEF all
  <2>2. EdgesOf(all) = {Input[i] : i \in 1..sidecar.completed}
    BY <2>1, ExactlyEdges
  <2> QED
    BY <1>2, <1>3, <1>5, <2>2 DEF RunsCover, Apart, all
<1> QED
  BY <1>4, <1>5

(* Every value has the shape its reader expects.                           *)
THEOREM SortTyped == Spec => []SortTypeOK
  BY SortInvariant, PTL DEF SortIInv

(* Until the sidecar goes, the runs it names hold every edge (or row) it   *)
(* counts, once, and are on disk as recorded, or else the CSR files hold   *)
(* the whole graph.                                                        *)
THEOREM WorkIsKept == Spec => []CommittedWorkKept
  BY SortInvariant, CoverFollows, PTL

(* A manifest stands for files that are exactly the symmetric graph of one *)
(* version of the input.                                                   *)
THEOREM ManifestIsRight == Spec => []ManifestVouches
  BY SortInvariant, PTL DEF SortIInv

=============================================================================
