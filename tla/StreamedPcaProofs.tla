-------------------------- MODULE StreamedPcaProofs --------------------------
(* Principal components from a file, for every number of rows, chunk size, *)
(* number of threads and devices, interval of the records, and any number  *)
(* of interruptions, resumed calls and changes of the matrix.              *)
EXTENDS StreamedPca, FiniteSetTheorems, SequenceTheorems, WellFoundedInduction, TLAPS

-----------------------------------------------------------------------------
(* The sums of the first n rows of version v.                              *)
ThreadSums(n, v) == RowsByThreads(1..n, v)
GpuSums(n, v) == <<InChunks(0, n, pcaJob.chunk, v)>>
SumsTo(gpu, n, v) == IF gpu THEN GpuSums(n, v) ELSE ThreadSums(n, v)
MeanSums(v) == IF pcaJob.centered THEN ThreadSums(NRows, v) ELSE <<>>
PassGpu(p) == OnGpu /\ p > MomentPasses
Passes(n, v) == [p \in 1..n |-> SumsTo(PassGpu(p), NRows, v)]

(* n rows end a block.                                                     *)
AtBlock(n) == n \in 0..NRows /\ (n = NRows \/ n % pcaJob.chunk = 0)

ScoreAt(fit, r, v) == ScoreOf(fit, RowAt(r, v))

(* A file that begins with the scores of n rows.                           *)
Begins(file, n, fit, v) ==
    /\ n <= Len(file)
    /\ \A r \in 1..n : file[r] = ScoreAt(fit, r, v)

-----------------------------------------------------------------------------
(* The inductive invariant.                                                *)
StateFields == {"sign", "stage", "rows", "sums", "moments", "fit", "done"}
CallFields == {"pc", "resume", "seen", "state", "at", "sums", "blocks", "tail", "result"}
DiskFields == {"record", "part", "scores", "manifest", "initPart", "init"}
PcaStages == {"pending", "mean_partial", "means", "covariance_partial", "moments", "fit"}

Fitting == {"fit", "cross", "pass"}
Writing == {"score", "record"}
Sealing == {"manifest", "unlink"}
Working == Fitting \cup {"open"} \cup Writing \cup Sealing
Ending == Sealing \cup {"init", "attach"}
Launching == {"launch", "rejoin"}

Plain(s) == s \in Seq({s[i] : i \in DOMAIN s})
Optional(file) == file = <<>> \/ file = <<file[1]>>

PcaTypeOK ==
    /\ pcaJob \in PcaJobs
    /\ matrix \in 0..PcaVersions /\ halted \in Nat
    /\ DOMAIN pcaDisk = DiskFields /\ DOMAIN pcaCall = CallFields
    /\ DOMAIN pcaCall.state = StateFields
    /\ pcaCall.pc \in Over \cup {"prepare"} \cup Working \cup Ending \cup Launching
    /\ pcaCall.resume \in BOOLEAN
    /\ pcaCall.at \in Nat /\ pcaCall.seen \in Nat /\ Plain(pcaCall.tail)
    /\ Optional(pcaDisk.record) /\ Optional(pcaDisk.part)
    /\ pcaDisk.record # <<>> => DOMAIN pcaDisk.record[1] = StateFields
    /\ pcaDisk.part # <<>> => Plain(pcaDisk.part[1])

(* A stage has what the stages before it found, from the version it is     *)
(* signed for.                                                             *)
StateRight(s) ==
    LET v == s.sign
    IN  /\ s.sign \in 0..matrix /\ s.stage \in PcaStages /\ s.done \in 0..NRows
        /\ s.stage # "fit" => s.done = 0
        /\ s.stage = "moments" => Wide
        /\ s.stage \in {"mean_partial", "means", "covariance_partial"} => ~Wide
        /\ s.stage \in {"pending", "moments"} /\ Wide =>
              /\ Len(s.moments) \in 0..(MomentPasses + 2)
              /\ s.moments = Passes(Len(s.moments), v)
        /\ s.stage = "moments" => Len(s.moments) >= MomentPasses
        /\ s.stage = "pending" => s.rows = 0 /\ s.sums = <<>>
        /\ s.stage = "mean_partial" =>
              pcaJob.centered /\ AtBlock(s.rows) /\ s.sums = ThreadSums(s.rows, v)
        /\ s.stage = "means" => s.rows = 0
        /\ s.stage \in {"means", "covariance_partial"} => s.moments = <<MeanSums(v)>>
        /\ s.stage = "covariance_partial" =>
              AtBlock(s.rows) /\ s.sums = SumsTo(OnGpu, s.rows, v)
        /\ s.stage = "fit" => s.fit = FitFrom(v)

(* The record goes with the partial scores.                                *)
RecordRight ==
    pcaDisk.record # <<>> =>
        LET s == pcaDisk.record[1]
        IN  /\ pcaJob.save /\ ~Resident /\ StateRight(s)
            /\ pcaDisk.scores = <<>> =>
                  IF s.stage = "fit"
                  THEN /\ SizeOf(pcaDisk.part) >= s.done
                       /\ s.done > 0 => Begins(pcaDisk.part[1], s.done, s.fit, s.sign)
                  ELSE pcaDisk.part = <<>>

(* A call has not read a version newer than the one it is signed for, and  *)
(* has the stage that it last recorded.                                    *)
CallRight ==
    LET s == pcaCall.state
    IN  /\ pcaCall.pc \in {"prepare"} \cup Working \cup Ending => ~Resident
        /\ pcaCall.pc = "refused" => ~Resident
        /\ pcaCall.resume => pcaJob.save
        /\ pcaCall.pc = "prepare" /\ pcaDisk.part # <<>> => pcaCall.resume
        /\ pcaCall.pc \in {"prepare"} \cup Working => pcaCall.seen <= matrix
        /\ pcaCall.pc \in Working =>
              /\ StateRight(s) /\ pcaCall.seen <= s.sign
              /\ ~pcaCall.resume => s.done = 0
              /\ pcaJob.save =>
                    /\ pcaDisk.record # <<>>
                    /\ pcaDisk.record[1].sign = s.sign /\ pcaDisk.record[1].stage = s.stage
                    /\ pcaDisk.record[1].fit = s.fit
                    /\ pcaCall.pc \in Fitting \cup {"open"} => pcaDisk.record[1].done = s.done
        /\ pcaCall.pc \in {"open"} \cup Writing \cup Sealing => s.stage = "fit"

(* The pass in hand.                                                       *)
PassRight ==
    LET s == pcaCall.state
    IN  /\ pcaCall.pc = "cross" =>
              /\ s.stage = "covariance_partial" /\ AtBlock(pcaCall.at)
              /\ pcaCall.sums = SumsTo(OnGpu, pcaCall.at, s.sign)
        /\ pcaCall.pc = "pass" =>
              /\ s.stage \in {"pending", "moments"} /\ Wide /\ AtBlock(pcaCall.at)
              /\ Len(s.moments) < MomentPasses + 2
              /\ s.stage = "pending" => Len(s.moments) < MomentPasses
              /\ pcaCall.sums = SumsTo(PassOnGpu, pcaCall.at, s.sign)

(* The scores on disk and those in the stream.                             *)
ScoresRight ==
    LET s == pcaCall.state
    IN  /\ pcaCall.pc \notin Writing => pcaCall.tail = <<>>
        /\ pcaCall.pc \in Writing =>
            /\ pcaDisk.part # <<>> /\ Begins(pcaDisk.part[1], pcaCall.at, s.fit, s.sign)
            /\ pcaJob.save => pcaDisk.record[1].done = pcaCall.at
            /\ Scored <= NRows
            /\ \A i \in 1..Len(pcaCall.tail) :
                  pcaCall.tail[i] = ScoreAt(s.fit, pcaCall.at + i, s.sign)
            /\ pcaCall.pc = "record" => Begins(pcaDisk.part[1], Scored, s.fit, s.sign)

(* What has its name is right, and comes last.                             *)
NamesRight ==
    /\ pcaCall.pc \in {"prepare"} \cup (Working \ Sealing) => pcaDisk.scores = <<>>
    /\ pcaDisk.scores = <<>> =>
          pcaDisk.manifest = <<>> /\ pcaDisk.initPart = <<>> /\ pcaDisk.init = <<>>
    /\ pcaDisk.scores # <<>> =>
          \E v \in 0..matrix :
             /\ pcaDisk.scores = <<ScoresFrom(v)>>
             /\ pcaCall.pc \in Sealing => v = pcaCall.state.sign
             /\ pcaDisk.manifest # <<>> => pcaDisk.manifest[1].fit = FitFrom(v)
    /\ pcaCall.pc \in Ending => pcaDisk.scores # <<>>
    /\ pcaCall.pc \in Sealing \cup {"init"} => pcaDisk.init = <<>>
    /\ pcaCall.pc \in Sealing => pcaDisk.initPart = <<>>
    /\ pcaDisk.initPart # <<>> => pcaDisk.initPart = pcaDisk.scores
    /\ pcaDisk.init # <<>> => pcaDisk.init = pcaDisk.scores
    /\ pcaDisk.manifest # <<>> =>
          pcaDisk.manifest = <<pcaDisk.manifest[1]>>
          /\ DOMAIN pcaDisk.manifest[1] = {"fit", "init"}
    /\ pcaCall.pc \in {"unlink", "init", "attach"} => pcaDisk.manifest # <<>>
    /\ pcaCall.result # <<>> =>
          pcaCall.result = <<[fit |-> FitFrom(0), scores |-> ScoresFrom(0)]>>

(* A shard has what belongs to its rows so far.                            *)
BatchOf(s) == Min({pcaJob.chunk, s.last - s.first})
ShardRight(k) ==
    LET s == shards[k]
    IN  /\ DOMAIN s = {"pc", "first", "last", "at", "sums"}
        /\ s.pc \in {"new", "running", "ended", "failed"}
        /\ s.first = ShardOf(k).first /\ s.last = ShardOf(k).last /\ s.at \in s.first..s.last
        /\ s.at = s.last \/ (s.at - s.first) % BatchOf(s) = 0
        /\ s.pc = "ended" => s.at = s.last
        /\ pcaCall.pc \in Launching =>
              s.sums = IF pcaCall.state.fit = <<>> THEN <<InChunks(s.first, s.at, BatchOf(s), 0)>>
                       ELSE <<[i \in 1..(s.at - s.first) |->
                                   ScoreAt(FitFrom(0), s.first + i, 0)]>>

ShardsRight ==
    /\ ~Resident => shards = <<>>
    /\ Resident => matrix = 0
    /\ pcaCall.pc \in Launching =>
          /\ Resident /\ pcaCall.seen = 0 /\ pcaCall.state.fit \in {<<>>, FitFrom(0)}
          /\ pcaCall.state.moments =
                <<IF pcaJob.centered THEN <<[r \in 1..NRows |-> RowAt(r, 0)]>> ELSE <<>>>>
          /\ DOMAIN shards = 1..pcaJob.workers
          /\ ~pcaCall.resume
    /\ pcaCall.pc \in Launching => \A k \in DOMAIN shards : ShardRight(k)
    /\ pcaCall.pc \in Over => Running = {}

PcaIInv ==
    /\ PcaTypeOK /\ RecordRight /\ CallRight /\ PassRight /\ ScoresRight
    /\ NamesRight /\ ShardsRight /\ PcaWorkResumes

-----------------------------------------------------------------------------
(* Numbers.                                                                *)

Less == OpToRel(<, Nat)

LEMMA LessWellFounded == IsWellFoundedOn(Less, Nat)
  BY NatLessThanWellFounded DEF Less, OpToRel

LEMMA LessIs == ASSUME NEW m \in Nat, NEW n \in Nat
                PROVE  <<m, n>> \in Less <=> m < n
  BY DEF Less, OpToRel

(* A set of numbers has a least one. *)
LEMMA LeastOf ==
    ASSUME NEW T, T \subseteq Nat, T # {}
    PROVE  \E x \in T : \A y \in T : x <= y
<1>1. PICK x \in T : \A y \in T : ~(<<y, x>> \in Less)
  BY LessWellFounded, WFMin
<1>2. ASSUME NEW y \in T PROVE x <= y
  <2>1. x \in Nat /\ y \in Nat
    BY <1>1
  <2>2. ~(y < x)
    BY <1>1, <2>1, LessIs
  <2> QED
    BY <2>1, <2>2
<1> QED
  BY <1>2

LEMMA MinOfTwo ==
    ASSUME NEW a \in Int, NEW b \in Int
    PROVE  Min({a, b}) = IF a <= b THEN a ELSE b
<1>1. \E x \in {a, b} : \A y \in {a, b} : x <= y
  OBVIOUS
<1> QED
  BY <1>1 DEF Min

LEMMA MinIn ==
    ASSUME NEW T, T \subseteq Nat, T # {}
    PROVE  Min(T) \in T
  BY LeastOf DEF Min

LEMMA TimesLess ==
    ASSUME NEW a \in Nat, NEW b \in Nat, NEW c \in Nat, a < b
    PROVE  a * c + c <= b * c /\ a * c \in Nat /\ (a + 1) * c = a * c + c
<1>1. PICK d \in Nat : b = a + 1 + d
  BY b = a + 1 + (b - a - 1), b - a - 1 \in Nat
<1>2. b * c = a * c + c + d * c /\ (a + 1) * c = a * c + c
  BY <1>1
<1>3. d * c \in Nat /\ a * c \in Nat
  OBVIOUS
<1> QED
  BY <1>2, <1>3

LEMMA Division ==
    ASSUME NEW n \in Nat, NEW d \in Nat \ {0}
    PROVE  n \div d \in Nat /\ n % d \in Nat /\ n % d < d /\ n = (n \div d) * d + (n % d)
<1>1. n = (n \div d) * d + (n % d)
  OBVIOUS
<1>2. n % d \in Nat /\ n % d < d /\ n \div d \in Nat
  OBVIOUS
<1> QED
  BY <1>1, <1>2

(* Quotient and rest are unique. *)
LEMMA Quotient ==
    ASSUME NEW q \in Nat, NEW d \in Nat \ {0}, NEW r \in Nat, r < d
    PROVE  /\ q * d + r \in Nat
           /\ (q * d + r) \div d = q /\ (q * d + r) % d = r
<1> DEFINE n == q * d + r
           p == n \div d
<1>1. n \in Nat
  OBVIOUS
<1>2. p \in Nat /\ n % d \in Nat /\ n % d < d /\ n = p * d + (n % d)
  BY <1>1, Division
<1>0. n = q * d + r /\ q * d \in Nat
  OBVIOUS
<1> HIDE DEF p, n
<1>3. ~(q < p)
  <2> SUFFICES ASSUME q < p PROVE FALSE
    OBVIOUS
  <2>1. q * d + d <= p * d /\ p * d \in Nat
    BY <1>2, TimesLess
  <2> QED
    BY <1>0, <1>1, <1>2, <2>1
<1>4. ~(p < q)
  <2> SUFFICES ASSUME p < q PROVE FALSE
    OBVIOUS
  <2>1. p * d + d <= q * d /\ p * d \in Nat
    BY <1>2, TimesLess
  <2> QED
    BY <1>0, <1>1, <1>2, <2>1
<1>5. p = q
  BY <1>2, <1>3, <1>4
<1>6. n % d = r
  BY <1>0, <1>1, <1>2, <1>5
<1> QED
  BY <1>1, <1>5, <1>6 DEF n, p

LEMMA QuotientGrows ==
    ASSUME NEW m \in Nat, NEW n \in Nat, m <= n, NEW d \in Nat \ {0}
    PROVE  m \div d <= n \div d
<1> DEFINE p == m \div d
           q == n \div d
<1>1. p \in Nat /\ m % d \in Nat /\ m % d < d /\ m = p * d + (m % d)
  BY Division
<1>2. q \in Nat /\ n % d \in Nat /\ n % d < d /\ n = q * d + (n % d)
  BY Division
<1> HIDE DEF p, q
<1>3. ~(q < p)
  <2> SUFFICES ASSUME q < p PROVE FALSE
    OBVIOUS
  <2>1. q * d + d <= p * d /\ p * d \in Nat /\ q * d \in Nat
    BY <1>1, <1>2, TimesLess
  <2> QED
    BY <1>1, <1>2, <2>1
<1> QED
  BY <1>1, <1>2, <1>3 DEF p, q

-----------------------------------------------------------------------------
(* Calls, blocks of rows and threads.                                      *)

LEMMA JobFacts ==
    ASSUME pcaJob \in PcaJobs
    PROVE  /\ NRows \in Nat \ {0} /\ pcaJob.chunk \in Nat \ {0}
           /\ pcaJob.workers \in Nat \ {0} /\ pcaJob.every \in Nat \ {0}
           /\ pcaJob.centered \in BOOLEAN /\ pcaJob.scaled \in BOOLEAN
           /\ pcaJob.save \in BOOLEAN /\ pcaJob.init \in BOOLEAN
           /\ Resident => pcaJob.workers <= NRows
           /\ MomentPasses \in 0..2
           /\ PcaWorkers \in 1..pcaJob.chunk
<1>1. /\ NRows \in Nat \ {0} /\ pcaJob.chunk \in Nat \ {0}
      /\ pcaJob.workers \in Nat \ {0} /\ pcaJob.every \in Nat \ {0}
      /\ pcaJob.centered \in BOOLEAN /\ pcaJob.scaled \in BOOLEAN
      /\ pcaJob.save \in BOOLEAN /\ pcaJob.init \in BOOLEAN
      /\ Resident => pcaJob.workers <= NRows
  BY PcaSizes DEF NRows, Resident
<1>2. MomentPasses \in 0..2
  BY DEF MomentPasses
<1>3. PcaWorkers \in 1..pcaJob.chunk
  BY <1>1, MinOfTwo DEF PcaWorkers
<1> QED
  BY <1>1, <1>2, <1>3

LEMMA BlockFacts ==
    ASSUME pcaJob \in PcaJobs, NEW n, AtBlock(n), n # NRows
    PROVE  /\ n \in Nat /\ n < NRows
           /\ CountAt(n) \in 1..pcaJob.chunk /\ CountAt(n) <= NRows - n
           /\ Reached(n) = n + CountAt(n) /\ Reached(n) \in 1..NRows
           /\ AtBlock(Reached(n))
           /\ \A j \in 0..(CountAt(n) - 1) : (n + j) % pcaJob.chunk = j
           /\ n = (n \div pcaJob.chunk) * pcaJob.chunk /\ n \div pcaJob.chunk \in Nat
<1> DEFINE d == pcaJob.chunk
           q == n \div d
<1>1. NRows \in Nat \ {0} /\ d \in Nat \ {0}
  BY JobFacts
<1>2. n \in Nat /\ n < NRows /\ n % d = 0
  BY <1>1 DEF AtBlock
<1>3. q \in Nat /\ n = q * d
  <2>1. PICK e : e = d
    OBVIOUS
  <2>2. PICK p : p = n \div e
    OBVIOUS
  <2>3. e \in Nat \ {0} /\ n \in Nat /\ n % e = 0
    BY <1>1, <1>2, <2>1
  <2>4. n \div e \in Nat /\ n = (n \div e) * e + (n % e)
    BY <2>3, Division
  <2>5. p \in Nat /\ n = p * e
    BY <2>2, <2>3, <2>4
  <2> QED
    BY <2>1, <2>2, <2>5
<1>4. CountAt(n) = IF d <= NRows - n THEN d ELSE NRows - n
  BY <1>1, <1>2, MinOfTwo DEF CountAt
<1>5. CountAt(n) \in 1..d /\ CountAt(n) <= NRows - n
  BY <1>1, <1>2, <1>4
<1>6. Reached(n) = n + CountAt(n) /\ Reached(n) \in 1..NRows
  BY <1>1, <1>2, <1>5 DEF Reached
<1> HIDE DEF q, d
<1>7. \A j \in 0..(CountAt(n) - 1) : (n + j) % d = j
  <2> SUFFICES ASSUME NEW j \in 0..(CountAt(n) - 1) PROVE (n + j) % d = j
    OBVIOUS
  <2>1. j \in Nat /\ j < d
    BY <1>1, <1>5
  <2>2. (q * d + j) % d = j
    BY <1>1, <1>3, <2>1, Quotient
  <2> QED
    BY <1>3, <2>2
<1>8. AtBlock(Reached(n))
  <2>1. CASE CountAt(n) = d
    <3>1. Reached(n) = (q + 1) * d /\ q + 1 \in Nat /\ 0 < d
      BY <1>1, <1>3, <1>6, <2>1
    <3>2. ((q + 1) * d + 0) % d = 0
      BY <1>1, <3>1, Quotient
    <3>3. (q + 1) * d + 0 = (q + 1) * d
      BY <1>1, <3>1
    <3> QED
      BY <1>1, <1>6, <3>1, <3>2, <3>3 DEF AtBlock, d
  <2>2. CASE CountAt(n) # d
    BY <1>1, <1>2, <1>4, <1>6, <2>2 DEF AtBlock
  <2> QED
    BY <2>1, <2>2
<1> QED
  BY <1>2, <1>3, <1>5, <1>6, <1>7, <1>8 DEF d, q

LEMMA FirstBlock == ASSUME pcaJob \in PcaJobs PROVE AtBlock(0) /\ AtBlock(NRows)
<1>1. NRows \in Nat \ {0} /\ pcaJob.chunk \in Nat \ {0}
  BY JobFacts
<1>2. (0 * pcaJob.chunk + 0) % pcaJob.chunk = 0 /\ 0 * pcaJob.chunk + 0 = 0
  BY <1>1, Quotient
<1> QED
  BY <1>1, <1>2 DEF AtBlock

(* Thread w of t has the places from one cut to the next.                  *)
Cut(count, t, w) == (count * w) \div t

LEMMA ThreadIs ==
    ASSUME NEW count \in Nat, NEW t \in Nat \ {0}, NEW w \in 1..t
    PROVE  /\ ThreadRows(count, t, w).first = Cut(count, t, w - 1)
           /\ ThreadRows(count, t, w).last = Cut(count, t, w)
  BY DEF ThreadRows, Cut

LEMMA CutsGrow ==
    ASSUME NEW count \in Nat, NEW t \in Nat \ {0}, NEW a \in 0..t, NEW b \in 0..t, a <= b
    PROVE  Cut(count, t, a) \in 0..count /\ Cut(count, t, a) <= Cut(count, t, b)
<1>1. count * a \in Nat /\ count * b \in Nat /\ count * t \in Nat
  OBVIOUS
<1>2. count * a <= count * b
  <2>1. CASE a = b
    BY <1>1, <2>1
  <2>2. CASE a < b
    <3>1. a * count + count <= b * count
      BY <2>2, TimesLess
    <3> QED
      BY <1>1, <3>1
  <2> QED
    BY <2>1, <2>2
<1>3. count * a <= count * t
  <2>1. CASE a = t
    BY <1>1, <2>1
  <2>2. CASE a < t
    <3>1. a * count + count <= t * count
      BY <2>2, TimesLess
    <3> QED
      BY <1>1, <3>1
  <2> QED
    BY <2>1, <2>2
<1>4. Cut(count, t, t) = count
  <2>1. (count * t + 0) \div t = count /\ count * t + 0 = count * t
    BY <1>1, Quotient
  <2> QED
    BY <2>1 DEF Cut
<1>5. Cut(count, t, a) \in Nat
  BY <1>1, Division DEF Cut
<1>6. Cut(count, t, a) <= Cut(count, t, b) /\ Cut(count, t, a) <= Cut(count, t, t)
  BY <1>1, <1>2, <1>3, QuotientGrows DEF Cut
<1> QED
  BY <1>4, <1>5, <1>6

LEMMA CutEnds ==
    ASSUME NEW count \in Nat, NEW t \in Nat \ {0}
    PROVE  Cut(count, t, 0) = 0 /\ Cut(count, t, t) = count
<1>1. (count * t + 0) \div t = count /\ count * t + 0 = count * t /\ count * t \in Nat
  BY Quotient
<1>2. (0 * t + 0) \div t = 0 /\ 0 * t + 0 = 0 /\ count * 0 = 0
  BY Quotient
<1> QED
  BY <1>1, <1>2 DEF Cut

LEMMA OneThread ==
    ASSUME NEW count \in Nat, NEW t \in Nat \ {0}, NEW place \in 0..(count - 1)
    PROVE  /\ \E w \in 1..t : Cut(count, t, w - 1) <= place /\ place < Cut(count, t, w)
           /\ \A v, w \in 1..t :
                 /\ Cut(count, t, v - 1) <= place /\ place < Cut(count, t, v)
                 /\ Cut(count, t, w - 1) <= place /\ place < Cut(count, t, w)
                 => v = w
<1> DEFINE T == {w \in 1..t : place < Cut(count, t, w)}
<1>1. T \subseteq Nat /\ t \in T
  BY CutEnds
<1>2. PICK w \in T : \A y \in T : w <= y
  BY <1>1, LeastOf
<1>3. Cut(count, t, w - 1) <= place
  <2>1. CASE w = 1
    BY <2>1, CutEnds
  <2>2. CASE w # 1
    <3>1. w - 1 \in 1..t /\ w - 1 \notin T
      BY <1>2, <2>2
    <3>2. Cut(count, t, w - 1) \in Nat
      BY <3>1, CutsGrow
    <3> QED
      BY <3>1, <3>2
  <2> QED
    BY <2>1, <2>2
<1>4. ASSUME NEW v \in 1..t, NEW u \in 1..t, v < u,
             place < Cut(count, t, v), Cut(count, t, u - 1) <= place
      PROVE  FALSE
  <2>1. v \in 0..t /\ u - 1 \in 0..t /\ v <= u - 1
    BY <1>4
  <2>2. Cut(count, t, v) <= Cut(count, t, u - 1)
    BY <2>1, CutsGrow
  <2>3. Cut(count, t, v) \in Nat /\ Cut(count, t, u - 1) \in Nat
    BY <2>1, CutsGrow
  <2> QED
    BY <1>4, <2>2, <2>3
<1>5. \A v, u \in 1..t :
         /\ Cut(count, t, v - 1) <= place /\ place < Cut(count, t, v)
         /\ Cut(count, t, u - 1) <= place /\ place < Cut(count, t, u)
         => v = u
  <2> SUFFICES ASSUME NEW v \in 1..t, NEW u \in 1..t,
                      Cut(count, t, v - 1) <= place /\ place < Cut(count, t, v),
                      Cut(count, t, u - 1) <= place /\ place < Cut(count, t, u)
               PROVE  v = u
    OBVIOUS
  <2>1. ~(v < u) /\ ~(u < v)
    BY <1>4
  <2> QED
    BY <2>1
<1>6. w \in 1..t /\ place < Cut(count, t, w)
  BY <1>2
<1> QED
  BY <1>3, <1>5, <1>6

ThreadsFor(n) == Min({CountAt(n), PcaWorkers})

LEMMA ThreadsIn ==
    ASSUME pcaJob \in PcaJobs, NEW n, AtBlock(n), n # NRows
    PROVE  /\ ThreadsFor(n) \in Nat \ {0} /\ ThreadsFor(n) <= PcaWorkers
           /\ ThreadsFor(n) <= CountAt(n) /\ PcaWorkers \in Nat
  BY JobFacts, BlockFacts, MinOfTwo DEF ThreadsFor

(* The row at place j of a block belongs to the thread that has the place. *)
LEMMA ThreadOfRow ==
    ASSUME pcaJob \in PcaJobs, NEW n, AtBlock(n), n # NRows,
           NEW j \in 0..(CountAt(n) - 1)
    PROVE  /\ ThreadOf(n + j + 1) \in 1..ThreadsFor(n)
           /\ \A w \in 1..ThreadsFor(n) :
                 ThreadOf(n + j + 1) = w <=>
                     /\ Cut(CountAt(n), ThreadsFor(n), w - 1) <= j
                     /\ j < Cut(CountAt(n), ThreadsFor(n), w)
<1> DEFINE t == ThreadsFor(n)
           c == CountAt(n)
           r == n + j + 1
<1>1. n \in Nat /\ c \in Nat /\ t \in Nat \ {0}
  BY BlockFacts, ThreadsIn, JobFacts
<1>2. r - 1 = n + j /\ (r - 1) % pcaJob.chunk = j /\ r - 1 - j = n
  BY <1>1, BlockFacts
<1>3. ThreadOf(r) = CHOOSE w \in 1..t : /\ ThreadRows(c, t, w).first <= j
                                       /\ j < ThreadRows(c, t, w).last
  BY <1>2 DEF ThreadOf, ThreadsFor
<1> DEFINE Has(w) == Cut(c, t, w - 1) <= j /\ j < Cut(c, t, w)
<1> HIDE DEF t, c, r
<1>4. \A w \in 1..t : /\ ThreadRows(c, t, w).first = Cut(c, t, w - 1)
                      /\ ThreadRows(c, t, w).last = Cut(c, t, w)
  BY <1>1, ThreadIs
<1>5. j \in 0..(c - 1)
  BY DEF c
<1>6. \E w \in 1..t : Has(w)
  BY <1>1, <1>5, OneThread
<1>7. ThreadOf(r) \in 1..t /\ Has(ThreadOf(r))
  BY <1>3, <1>4, <1>6
<1>8. \A v, w \in 1..t : Has(v) /\ Has(w) => v = w
  BY <1>1, <1>5, OneThread
<1>9. \A w \in 1..t : ThreadOf(r) = w <=> Has(w)
  BY <1>7, <1>8
<1> QED
  BY <1>7, <1>9 DEF t, c, r

-----------------------------------------------------------------------------
(* Rows in ascending order.                                                *)

LEMMA IntervalSize ==
    ASSUME NEW a \in Int, NEW b \in Int
    PROVE  /\ IsFiniteSet(a..b)
           /\ Cardinality(a..b) = IF a <= b THEN b - a + 1 ELSE 0
  BY FS_Interval

LEMMA AscendingGrows ==
    ASSUME NEW a \in Nat, NEW b \in Nat, a <= b, NEW rows \in SUBSET (1..a)
    PROVE  /\ Cardinality(rows) \in Nat
           /\ Cardinality(rows \cup (a + 1)..b) = Cardinality(rows) + (b - a)
           /\ \A i \in 1..Cardinality(rows) :
                 Ascending(rows \cup (a + 1)..b)[i] = Ascending(rows)[i]
           /\ \A i \in 1..(b - a) :
                 Ascending(rows \cup (a + 1)..b)[Cardinality(rows) + i] = a + i
<1> DEFINE new == (a + 1)..b
           all == rows \cup new
           k == Cardinality(rows)
<1>1. IsFiniteSet(rows) /\ k \in Nat
  <2>1. IsFiniteSet(1..a)
    BY IntervalSize
  <2>2. IsFiniteSet(rows)
    BY <2>1, FS_Subset
  <2> QED
    BY <2>2, FS_CardinalityType
<1>2. \A q \in rows : q \in Nat /\ q <= a
  OBVIOUS
<1>3. IsFiniteSet(new) /\ Cardinality(new) = b - a
  <2>1. /\ a + 1 \in Int /\ b \in Int
        /\ (IF a + 1 <= b THEN b - (a + 1) + 1 ELSE 0) = b - a
    OBVIOUS
  <2> QED
    BY <2>1, IntervalSize
<1>4. rows \cap new = {}
  BY <1>2
<1>5. Cardinality(all) = k + (b - a)
  <2>1. Cardinality(rows \cap new) = 0
    BY <1>4, FS_EmptySet
  <2> HIDE DEF new
  <2>2. Cardinality(all) = Cardinality(rows) + Cardinality(new) - Cardinality(rows \cap new)
    BY <1>1, <1>3, FS_Union
  <2> QED
    BY <1>1, <1>3, <2>1, <2>2
<1>6. ASSUME NEW r \in rows PROVE {q \in all : q <= r} = {q \in rows : q <= r}
  BY <1>2
<1>7. ASSUME NEW i \in 1..(b - a)
      PROVE  Cardinality({q \in all : q <= a + i}) = k + i
  <2> DEFINE upto == (a + 1)..(a + i)
  <2>1. {q \in all : q <= a + i} = rows \cup upto
    <3>1. \A q \in rows : q <= a + i
      BY <1>2
    <3>2. \A q : q \in new /\ q <= a + i <=> q \in upto
      OBVIOUS
    <3> HIDE DEF new, upto
    <3> QED
      BY <3>1, <3>2
  <2>2. IsFiniteSet(upto) /\ Cardinality(upto) = i
    <3>1. /\ a + 1 \in Int /\ a + i \in Int
          /\ (IF a + 1 <= a + i THEN a + i - (a + 1) + 1 ELSE 0) = i
      OBVIOUS
    <3> QED
      BY <3>1, IntervalSize
  <2>3. rows \cap upto = {}
    BY <1>2
  <2>4. Cardinality(rows \cap upto) = 0
    BY <2>3, FS_EmptySet
  <2> HIDE DEF upto
  <2>6. Cardinality(rows \cup upto) = Cardinality(rows) + Cardinality(upto) - Cardinality(rows \cap upto)
    BY <1>1, <2>2, FS_Union
  <2>5. Cardinality(rows \cup upto) = k + i
    BY <1>1, <2>2, <2>4, <2>6
  <2> QED
    BY <2>1, <2>5
<1>8. ASSUME NEW r \in rows PROVE Cardinality({q \in rows : q <= r}) \in 0..k
  <2>1. {q \in rows : q <= r} \subseteq rows
    OBVIOUS
  <2> QED
    BY <1>1, <2>1, FS_Subset, FS_CardinalityType
<1>9. \A r \in new : r - a \in 1..(b - a) /\ r = a + (r - a)
  OBVIOUS
<1>10. ASSUME NEW i \in 1..k PROVE Ranked(all, i) = Ranked(rows, i)
  <2>1. ASSUME NEW r \in new PROVE Cardinality({q \in all : q <= r}) # i
    <3>1. Cardinality({q \in all : q <= a + (r - a)}) = k + (r - a)
      BY <1>7, <1>9
    <3>2. Cardinality({q \in all : q <= r}) = k + (r - a)
      BY <1>9, <3>1
    <3> QED
      BY <1>1, <1>9, <3>2
  <2> QED
    BY <1>6, <2>1 DEF Ranked
<1>11. ASSUME NEW i \in 1..(b - a) PROVE Ranked(all, k + i) = {a + i}
  <2>1. ASSUME NEW r \in rows PROVE Cardinality({q \in all : q <= r}) # k + i
    BY <1>1, <1>6, <1>8
  <2>2. ASSUME NEW r \in new
        PROVE  Cardinality({q \in all : q <= r}) = k + i <=> r = a + i
    <3>1. Cardinality({q \in all : q <= a + (r - a)}) = k + (r - a)
      BY <1>7, <1>9
    <3>2. Cardinality({q \in all : q <= r}) = k + (r - a)
      BY <1>9, <3>1
    <3> QED
      BY <1>1, <1>9, <3>2
  <2>3. a + i \in new
    OBVIOUS
  <2> HIDE DEF new
  <2> QED
    BY <2>1, <2>2, <2>3 DEF Ranked
<1>12. \A i \in 1..k : Ascending(all)[i] = Ascending(rows)[i]
  <2> SUFFICES ASSUME NEW i \in 1..k PROVE Ascending(all)[i] = Ascending(rows)[i]
    OBVIOUS
  <2>1. i \in 1..Cardinality(all) /\ i \in 1..Cardinality(rows)
    BY <1>1, <1>5
  <2> HIDE DEF all
  <2> QED
    BY <1>10, <2>1 DEF Ascending
<1>13. \A i \in 1..(b - a) : Ascending(all)[k + i] = a + i
  <2> SUFFICES ASSUME NEW i \in 1..(b - a) PROVE Ascending(all)[k + i] = a + i
    OBVIOUS
  <2>1. k + i \in 1..Cardinality(all)
    BY <1>1, <1>5
  <2>2. Ascending(all)[k + i] = CHOOSE r \in Ranked(all, k + i) : TRUE
    <3> HIDE DEF all
    <3> QED
      BY <2>1 DEF Ascending
  <2>3. Ranked(all, k + i) = {a + i}
    BY <1>11
  <2> HIDE DEF all
  <2> QED
    BY <2>2, <2>3
<1>14. rows \cup (a + 1)..b = all
  OBVIOUS
<1> HIDE DEF k, all
<1> QED
  BY <1>1, <1>5, <1>12, <1>13, <1>14 DEF k

-----------------------------------------------------------------------------
(* Sequences that are given by their members.                              *)

LEMMA BuiltSeq ==
    ASSUME NEW n \in Nat, NEW f, f = [i \in 1..n |-> f[i]]
    PROVE  f \in Seq({f[i] : i \in 1..n}) /\ Len(f) = n /\ DOMAIN f = 1..n
<1>1. f \in [1..n -> {f[i] : i \in 1..n}]
  OBVIOUS
<1> QED
  BY <1>1

LEMMA BuiltJoin ==
    ASSUME NEW m \in Nat, NEW f, f = [i \in 1..m |-> f[i]],
           NEW n \in Nat, NEW g, g = [i \in 1..n |-> g[i]]
    PROVE  f \o g = [i \in 1..(m + n) |-> IF i <= m THEN f[i] ELSE g[i - m]]
<1>1. f \in Seq({f[i] : i \in 1..m}) /\ Len(f) = m
  BY BuiltSeq
<1>2. g \in Seq({g[i] : i \in 1..n}) /\ Len(g) = n
  BY BuiltSeq
<1> DEFINE S == {f[i] : i \in 1..m} \cup {g[i] : i \in 1..n}
<1>3. f \in Seq(S) /\ g \in Seq(S)
  <2>1. {f[i] : i \in 1..m} \subseteq S /\ {g[i] : i \in 1..n} \subseteq S
    OBVIOUS
  <2> HIDE DEF S
  <2> QED
    BY <1>1, <1>2, <2>1, SeqMonotonic
<1> HIDE DEF S
<1>4. /\ f \o g \in Seq(S) /\ Len(f \o g) = m + n
      /\ \A i \in 1..(m + n) : (f \o g)[i] = IF i <= m THEN f[i] ELSE g[i - m]
  BY <1>1, <1>2, <1>3, ConcatProperties
<1>5. f \o g = [i \in 1..(m + n) |-> (f \o g)[i]]
  BY <1>4, LenProperties
<1> QED
  BY <1>4, <1>5

-----------------------------------------------------------------------------
(* A block more.                                                           *)

MineTo(n, w) == {r \in 1..n : ThreadOf(r) = w}

LEMMA MineGrows ==
    ASSUME pcaJob \in PcaJobs, NEW n, AtBlock(n), n # NRows, NEW w \in 1..PcaWorkers
    PROVE  LET c == CountAt(n)
               t == ThreadsFor(n)
           IN  MineTo(Reached(n), w) =
                  MineTo(n, w) \cup (IF w <= t THEN (n + Cut(c, t, w - 1) + 1)..(n + Cut(c, t, w))
                                     ELSE {})
<1> DEFINE c == CountAt(n)
           t == ThreadsFor(n)
           more == IF w <= t THEN (n + Cut(c, t, w - 1) + 1)..(n + Cut(c, t, w)) ELSE {}
<1>1. n \in Nat /\ c \in Nat \ {0} /\ t \in Nat \ {0} /\ Reached(n) = n + c
  BY BlockFacts, ThreadsIn, JobFacts
<1>2. \A j \in 0..(c - 1) : ThreadOf(n + j + 1) \in 1..t
  BY ThreadOfRow
<1>3. \A j \in 0..(c - 1) : \A u \in 1..t :
         ThreadOf(n + j + 1) = u <=> Cut(c, t, u - 1) <= j /\ j < Cut(c, t, u)
  BY ThreadOfRow
<1>4. w \in Nat \ {0}
  BY JobFacts
<1>5. w <= t => /\ Cut(c, t, w - 1) \in 0..c /\ Cut(c, t, w) \in 0..c
                /\ Cut(c, t, w - 1) <= Cut(c, t, w)
  <2>1. ASSUME w <= t PROVE w - 1 \in 0..t /\ w \in 0..t /\ w - 1 <= w
    BY <1>1, <1>4, <2>1
  <2>2. c \in Nat /\ t \in Nat \ {0}
    BY <1>1
  <2> QED
    BY <2>1, <2>2, CutsGrow
<1> HIDE DEF c, t
<1>6. ASSUME NEW r \in 1..(n + c), ~(r <= n)
      PROVE  ThreadOf(r) = w <=> r \in more
  <2> DEFINE j == r - n - 1
  <2>1. j \in 0..(c - 1) /\ n + j + 1 = r
    BY <1>1, <1>6
  <2> HIDE DEF j
  <2>2. CASE w <= t
    <3>1. ThreadOf(r) = w <=> Cut(c, t, w - 1) <= j /\ j < Cut(c, t, w)
      BY <1>3, <1>4, <2>1, <2>2
    <3> QED
      BY <1>1, <1>5, <2>1, <2>2, <3>1
  <2>3. CASE ~(w <= t)
    <3>1. ThreadOf(n + j + 1) \in 1..t
      BY <1>2, <2>1
    <3>2. ThreadOf(r) # w
      BY <1>1, <1>4, <2>1, <2>3, <3>1
    <3> QED
      BY <2>3, <3>2
  <2> QED
    BY <2>2, <2>3
<1>7. more \subseteq 1..(n + c) /\ \A r \in more : ~(r <= n)
  BY <1>1, <1>4, <1>5
<1> HIDE DEF more
<1>8. MineTo(n + c, w) = MineTo(n, w) \cup more
  <2>1. \A r : r \in 1..(n + c) /\ r <= n <=> r \in 1..n
    BY <1>1
  <2> QED
    BY <1>6, <1>7, <2>1 DEF MineTo
<1> QED
  BY <1>1, <1>8 DEF more, c, t

LEMMA ThreadSumsAre ==
    ASSUME NEW n, NEW v
    PROVE  /\ DOMAIN ThreadSums(n, v) = 1..PcaWorkers
           /\ \A w \in 1..PcaWorkers :
                 ThreadSums(n, v)[w] =
                     [i \in 1..Cardinality(MineTo(n, w)) |->
                         <<RowAt(Ascending(MineTo(n, w))[i], v)>>]
  BY DEF ThreadSums, RowsByThreads, MineTo, Ascending

LEMMA ThreadPart ==
    ASSUME pcaJob \in PcaJobs, NEW n, AtBlock(n), n # NRows, NEW v,
           NEW w \in 1..PcaWorkers, w <= ThreadsFor(n)
    PROVE  LET c == CountAt(n)
               range == ThreadRows(c, ThreadsFor(n), w)
               rows == RowRange(n + range.first, n + range.last, v)
           IN  ThreadSums(n, v)[w] \o [i \in DOMAIN rows |-> <<rows[i]>>]
                   = ThreadSums(Reached(n), v)[w]
<1> DEFINE t == ThreadsFor(n)
           a == n + Cut(CountAt(n), t, w - 1)
           b == n + Cut(CountAt(n), t, w)
           mine == MineTo(n, w)
           all == mine \cup (a + 1)..b
           k == Cardinality(mine)
           S == {<<RowAt(r, v)>> : r \in Nat}
           old == [i \in 1..k |-> <<RowAt(Ascending(mine)[i], v)>>]
           new == [i \in 1..(b - a) |-> <<RowAt(a + i, v)>>]
<1>1. n \in Nat /\ CountAt(n) \in Nat /\ t \in Nat \ {0} /\ w \in 1..t
  BY BlockFacts, ThreadsIn, JobFacts
<1>2. a \in Nat /\ b \in Nat /\ a <= b /\ n <= a
  <2>1. w - 1 \in 0..t /\ w \in 0..t /\ w - 1 <= w
    BY <1>1
  <2>2. Cut(CountAt(n), t, w - 1) \in 0..CountAt(n) /\ Cut(CountAt(n), t, w) \in 0..CountAt(n)
        /\ Cut(CountAt(n), t, w - 1) <= Cut(CountAt(n), t, w)
    BY <1>1, <2>1, CutsGrow
  <2> HIDE DEF t
  <2> QED
    BY <1>1, <2>2
<1>3. MineTo(Reached(n), w) = all
  BY MineGrows
<1>4. mine \in SUBSET (1..a)
  <2>1. \A r \in mine : r \in 1..n
    BY DEF MineTo
  <2> HIDE DEF a, mine
  <2> QED
    BY <1>1, <1>2, <2>1
<1> HIDE DEF a, b, mine, all
<1>5. /\ k \in Nat /\ Cardinality(all) = k + (b - a)
      /\ \A i \in 1..k : Ascending(all)[i] = Ascending(mine)[i]
      /\ \A i \in 1..(b - a) : Ascending(all)[k + i] = a + i
  <2>1. all = mine \cup (a + 1)..b
    BY DEF all
  <2>2. /\ Cardinality(mine) \in Nat
        /\ Cardinality(mine \cup (a + 1)..b) = Cardinality(mine) + (b - a)
        /\ \A i \in 1..Cardinality(mine) :
              Ascending(mine \cup (a + 1)..b)[i] = Ascending(mine)[i]
        /\ \A i \in 1..(b - a) :
              Ascending(mine \cup (a + 1)..b)[Cardinality(mine) + i] = a + i
    <3> HIDE DEF k
    <3> QED
      BY <1>2, <1>4, AscendingGrows
  <2> QED
    BY <2>1, <2>2
<1>6. ThreadSums(n, v)[w] = old
  BY ThreadSumsAre DEF mine
<1>7. ThreadSums(Reached(n), v)[w]
          = [i \in 1..Cardinality(all) |-> <<RowAt(Ascending(all)[i], v)>>]
  BY <1>3, ThreadSumsAre
<1> DEFINE rows == RowRange(n + ThreadRows(CountAt(n), t, w).first,
                            n + ThreadRows(CountAt(n), t, w).last, v)
<1>8. [i \in DOMAIN rows |-> <<rows[i]>>] = new
  <2>1. n + ThreadRows(CountAt(n), t, w).first = a /\ n + ThreadRows(CountAt(n), t, w).last = b
    BY <1>1, ThreadIs DEF a, b
  <2>2. rows = [i \in 1..(b - a) |-> [row |-> a + i, of |-> v]]
    BY <2>1 DEF RowRange
  <2> QED
    BY <2>2 DEF RowAt
<1>11. old \o new = [i \in 1..(k + (b - a)) |-> IF i <= k THEN old[i] ELSE new[i - k]]
  <2>1. b - a \in Nat
    BY <1>2
  <2>2. old = [i \in 1..k |-> old[i]] /\ new = [i \in 1..(b - a) |-> new[i]]
    OBVIOUS
  <2> HIDE DEF old, new
  <2> QED
    BY <1>5, <2>1, <2>2, BuiltJoin
<1>12. \A i \in 1..(k + (b - a)) :
          (IF i <= k THEN old[i] ELSE new[i - k]) = <<RowAt(Ascending(all)[i], v)>>
  <2> SUFFICES ASSUME NEW i \in 1..(k + (b - a))
               PROVE  (IF i <= k THEN old[i] ELSE new[i - k]) = <<RowAt(Ascending(all)[i], v)>>
    OBVIOUS
  <2>1. CASE i <= k
    BY <1>5, <2>1
  <2>2. CASE ~(i <= k)
    <3>1. i - k \in 1..(b - a) /\ k + (i - k) = i
      BY <1>2, <1>5, <2>2
    <3>2. Ascending(all)[i] = a + (i - k)
      BY <1>5, <3>1
    <3> QED
      BY <2>2, <3>1, <3>2
  <2> QED
    BY <2>1, <2>2
<1>13. old \o new = [i \in 1..Cardinality(all) |-> <<RowAt(Ascending(all)[i], v)>>]
  <2> HIDE DEF old, new
  <2> QED
    BY <1>5, <1>11, <1>12
<1>14. ThreadSums(n, v)[w] \o [i \in DOMAIN rows |-> <<rows[i]>>] = ThreadSums(Reached(n), v)[w]
  <2> HIDE DEF old, new, rows
  <2> QED
    BY <1>6, <1>7, <1>8, <1>13
<1> QED
  BY <1>14

LEMMA ThreadRest ==
    ASSUME pcaJob \in PcaJobs, NEW n, AtBlock(n), n # NRows, NEW v,
           NEW w \in 1..PcaWorkers, ~(w <= ThreadsFor(n))
    PROVE  ThreadSums(n, v)[w] = ThreadSums(Reached(n), v)[w]
<1>1. MineTo(Reached(n), w) = MineTo(n, w)
  BY MineGrows
<1>2. ThreadSums(n, v)[w] = [i \in 1..Cardinality(MineTo(n, w)) |->
                               <<RowAt(Ascending(MineTo(n, w))[i], v)>>]
  BY ThreadSumsAre
<1>3. ThreadSums(Reached(n), v)[w] = [i \in 1..Cardinality(MineTo(Reached(n), w)) |->
                               <<RowAt(Ascending(MineTo(Reached(n), w))[i], v)>>]
  BY ThreadSumsAre
<1> QED
  BY <1>1, <1>2, <1>3

LEMMA ThreadsAdd ==
    ASSUME pcaJob \in PcaJobs, NEW n, AtBlock(n), n # NRows, NEW v
    PROVE  AddedByThreads(ThreadSums(n, v), n, v) = ThreadSums(Reached(n), v)
<1> DEFINE sums == ThreadSums(n, v)
           t == ThreadsFor(n)
           rows(w) == RowRange(n + ThreadRows(CountAt(n), t, w).first,
                               n + ThreadRows(CountAt(n), t, w).last, v)
           added == [w \in 1..PcaWorkers |->
                        IF w > t THEN sums[w]
                        ELSE sums[w] \o [i \in DOMAIN rows(w) |-> <<rows(w)[i]>>]]
<1>1. DOMAIN sums = 1..PcaWorkers /\ Len(sums) = PcaWorkers
  <2>1. DOMAIN sums = 1..PcaWorkers /\ PcaWorkers \in Nat
    BY ThreadSumsAre, ThreadsIn
  <2>2. sums = [w \in 1..PcaWorkers |-> sums[w]]
    BY DEF ThreadSums, RowsByThreads
  <2> HIDE DEF sums
  <2> QED
    BY <2>1, <2>2
<1>2. AddedByThreads(sums, n, v) = added
  <2> HIDE DEF sums
  <2> QED
    BY <1>1 DEF AddedByThreads, ThreadsFor
<1>3. ASSUME NEW w \in 1..PcaWorkers PROVE added[w] = ThreadSums(Reached(n), v)[w]
  <2>0. w \in Nat /\ t \in Nat
    BY ThreadsIn
  <2>1. CASE w <= t
    <3>1. ~(w > t)
      BY <2>0, <2>1
    <3>2. added[w] = sums[w] \o [i \in DOMAIN rows(w) |-> <<rows(w)[i]>>]
      BY <3>1
    <3>3. sums[w] \o [i \in DOMAIN rows(w) |-> <<rows(w)[i]>>] = ThreadSums(Reached(n), v)[w]
      BY <2>1, ThreadPart
    <3> HIDE DEF added, sums, rows, t
    <3> QED
      BY <3>2, <3>3
  <2>2. CASE ~(w <= t)
    <3>1. w > t
      BY <2>0, <2>2
    <3>2. added[w] = sums[w]
      BY <3>1
    <3> QED
      BY <2>2, <3>2, ThreadRest
  <2> QED
    BY <2>1, <2>2
<1>4. added = [w \in 1..PcaWorkers |-> ThreadSums(Reached(n), v)[w]]
  <2> DEFINE next == ThreadSums(Reached(n), v)
  <2> HIDE DEF next, sums, rows, t
  <2>1. \A w \in 1..PcaWorkers : added[w] = next[w]
    BY <1>3 DEF next, sums, rows, t
  <2> QED
    BY <2>1 DEF next
<1>5. ThreadSums(Reached(n), v) = [w \in 1..PcaWorkers |-> ThreadSums(Reached(n), v)[w]]
  BY DEF ThreadSums, RowsByThreads
<1> QED
  BY <1>2, <1>4, <1>5

-----------------------------------------------------------------------------
(* Blocks of a GPU.                                                        *)

LEMMA AppendIs ==
    ASSUME NEW S, NEW s \in Seq(S), NEW x
    PROVE  Append(s, x) = [i \in 1..(Len(s) + 1) |-> IF i = Len(s) + 1 THEN x ELSE s[i]]
<1> DEFINE T == S \cup {x}
<1>1. s \in Seq(T) /\ x \in T
  BY SeqMonotonic
<1> HIDE DEF T
<1>2. /\ Append(s, x) \in Seq(T) /\ Len(Append(s, x)) = Len(s) + 1 /\ Len(s) \in Nat
      /\ \A i \in 1..Len(s) : Append(s, x)[i] = s[i]
      /\ Append(s, x)[Len(s) + 1] = x
  BY <1>1, AppendProperties, LenProperties
<1>3. Append(s, x) = [i \in 1..(Len(s) + 1) |-> Append(s, x)[i]]
  BY <1>2, LenProperties
<1> QED
  BY <1>2, <1>3

(* One block behind whole blocks. *)
LEMMA ChunkAdds ==
    ASSUME NEW first \in Nat, NEW at \in Nat, NEW end \in Nat, NEW d \in Nat \ {0}, NEW v,
           first <= at, at < end, end - at <= d, (at - first) % d = 0
    PROVE  Append(InChunks(first, at, d, v), RowRange(at, end, v)) = InChunks(first, end, d, v)
<1> DEFINE q == (at - first) \div d
           e == end - at
           Block(last, c) == [i \in 1..Min({d, last - first - (c - 1) * d}) |->
                                 RowAt(first + (c - 1) * d + i, v)]
<1>1. q \in Nat /\ at - first = q * d
  <2>1. at - first \in Nat
    OBVIOUS
  <2>2. at - first = q * d + ((at - first) % d) /\ q \in Nat
    BY <2>1, Division
  <2> QED
    BY <2>2
<1>2. e \in 1..d /\ end - first = q * d + e /\ q * d \in Nat
  BY <1>1
<1> HIDE DEF q, e
<1>3. (at - first + d - 1) \div d = q
  <2>1. d - 1 \in Nat /\ d - 1 < d /\ at - first + d - 1 = q * d + (d - 1)
    BY <1>1
  <2> QED
    BY <1>1, <2>1, Quotient
<1>4. (end - first + d - 1) \div d = q + 1
  <2>1. e - 1 \in Nat /\ e - 1 < d /\ q + 1 \in Nat
    BY <1>1, <1>2
  <2>2. (q + 1) * d = q * d + d
    BY <1>1
  <2>3. end - first + d - 1 = (q + 1) * d + (e - 1)
    BY <1>1, <1>2, <2>2
  <2> QED
    BY <2>1, <2>3, Quotient
<1>5. ASSUME NEW c \in 1..q PROVE Block(at, c) = Block(end, c)
  <2>1. (c - 1) * d + d <= q * d /\ (c - 1) * d \in Nat
    BY <1>1, TimesLess
  <2>2. d <= at - first - (c - 1) * d /\ d <= end - first - (c - 1) * d
    BY <1>1, <1>2, <2>1
  <2>3. Min({d, at - first - (c - 1) * d}) = d
    <3>1. at - first - (c - 1) * d \in Int
      BY <2>1
    <3> QED
      BY <2>2, <3>1, MinOfTwo
  <2>4. Min({d, end - first - (c - 1) * d}) = d
    <3>1. end - first - (c - 1) * d \in Int
      BY <2>1
    <3> QED
      BY <2>2, <3>1, MinOfTwo
  <2> QED
    BY <2>3, <2>4
<1>6. Block(end, q + 1) = RowRange(at, end, v)
  <2>1. q + 1 - 1 = q
    BY <1>1
  <2>2. /\ end - first - ((q + 1) - 1) * d = end - at /\ end - at <= d
        /\ first + ((q + 1) - 1) * d = at
    BY <1>1, <1>2, <2>1
  <2>3. Min({d, end - at}) = end - at
    <3>1. end - at \in Int
      OBVIOUS
    <3> QED
      BY <3>1, MinOfTwo
  <2>4. Block(end, q + 1) = [i \in 1..(end - at) |-> RowAt(at + i, v)]
    <3> DEFINE size == end - first - ((q + 1) - 1) * d
               base == first + ((q + 1) - 1) * d
    <3>1. size = end - at /\ base = at
      BY <2>2
    <3>2. Block(end, q + 1) = [i \in 1..Min({d, size}) |-> RowAt(base + i, v)]
      OBVIOUS
    <3> HIDE DEF Block, size, base
    <3> QED
      BY <2>3, <3>1, <3>2
  <2> QED
    BY <2>4 DEF RowRange, RowAt
<1> DEFINE old == [c \in 1..q |-> Block(at, c)]
           new == [c \in 1..(q + 1) |-> Block(end, c)]
<1>7. InChunks(first, at, d, v) = old
  BY <1>3 DEF InChunks
<1>8. InChunks(first, end, d, v) = new
  BY <1>4 DEF InChunks
<1>9. Append(old, Block(end, q + 1)) = new
  <2>1. \A c \in 1..q : old[c] = Block(end, c)
    BY <1>5
  <2> HIDE DEF Block
  <2>3. old \in Seq({old[c] : c \in 1..q}) /\ Len(old) = q
    <3>1. old = [c \in 1..q |-> old[c]]
      OBVIOUS
    <3>2. q \in Nat
      BY <1>1
    <3> HIDE DEF old, q
    <3> QED
      BY <3>1, <3>2, BuiltSeq
  <2>4. Append(old, Block(end, q + 1)) = [i \in 1..(q + 1) |-> IF i = q + 1 THEN Block(end, q + 1) ELSE old[i]]
    <3> HIDE DEF old
    <3> QED
      BY <2>3, AppendIs
  <2>5. \A i \in 1..(q + 1) : (IF i = q + 1 THEN Block(end, q + 1) ELSE old[i]) = Block(end, i)
    <3> HIDE DEF old
    <3> QED
      BY <1>1, <2>1
  <2> QED
    BY <2>4, <2>5
<1> QED
  BY <1>6, <1>7, <1>8, <1>9

LEMMA GpuAdds ==
    ASSUME pcaJob \in PcaJobs, NEW n, AtBlock(n), n # NRows, NEW v
    PROVE  AddedByGpu(GpuSums(n, v), n, n + CountAt(n), v) = GpuSums(Reached(n), v)
<1>1. /\ n \in Nat /\ Reached(n) = n + CountAt(n) /\ Reached(n) \in Nat
      /\ n < Reached(n) /\ Reached(n) - n <= pcaJob.chunk /\ pcaJob.chunk \in Nat \ {0}
      /\ n - 0 = n /\ 0 <= n
  BY BlockFacts, JobFacts
<1>2. (n - 0) % pcaJob.chunk = 0
  BY <1>1 DEF AtBlock
<1>3. Append(InChunks(0, n, pcaJob.chunk, v), RowRange(n, Reached(n), v))
          = InChunks(0, Reached(n), pcaJob.chunk, v)
  <2> DEFINE a == 0
             e == Reached(n)
             d == pcaJob.chunk
  <2>1. a \in Nat /\ n \in Nat /\ e \in Nat /\ d \in Nat \ {0} /\ a <= n /\ n < e /\ e - n <= d
        /\ (n - a) % d = 0
    BY <1>1, <1>2
  <2> HIDE DEF a, e, d
  <2>2. Append(InChunks(a, n, d, v), RowRange(n, e, v)) = InChunks(a, e, d, v)
    BY <2>1, ChunkAdds
  <2> QED
    BY <2>2 DEF a, e, d
<1> QED
  BY <1>1, <1>3 DEF AddedByGpu, GpuSums

LEMMA SumsAdd ==
    ASSUME pcaJob \in PcaJobs, NEW n, AtBlock(n), n # NRows, NEW gpu \in BOOLEAN
    PROVE  AddedBy(gpu, SumsTo(gpu, n, pcaCall.seen), n) = SumsTo(gpu, Reached(n), pcaCall.seen)
  BY ThreadsAdd, GpuAdds DEF AddedBy, SumsTo

(* Nothing has been added. *)
LEMMA ThreadsBegin ==
    ASSUME pcaJob \in PcaJobs, NEW v
    PROVE  ThreadSums(0, v) = Zero(PcaWorkers)
<1>1. ASSUME NEW w \in 1..PcaWorkers PROVE ThreadSums(0, v)[w] = <<>>
  <2>1. MineTo(0, w) = {}
    BY DEF MineTo
  <2>2. Cardinality(MineTo(0, w)) = 0
    BY <2>1, FS_EmptySet
  <2>3. ThreadSums(0, v)[w] =
            [i \in 1..Cardinality(MineTo(0, w)) |-> <<RowAt(Ascending(MineTo(0, w))[i], v)>>]
    BY ThreadSumsAre
  <2> QED
    BY <2>2, <2>3
<1>2. ThreadSums(0, v) = [w \in 1..PcaWorkers |-> ThreadSums(0, v)[w]]
  BY DEF ThreadSums, RowsByThreads
<1> QED
  BY <1>1, <1>2 DEF Zero

LEMMA NoChunks ==
    ASSUME NEW first \in Nat, NEW d \in Nat \ {0}, NEW v
    PROVE  InChunks(first, first, d, v) = <<>>
<1>1. d - 1 \in Nat /\ d - 1 < d /\ first - first + d - 1 = 0 * d + (d - 1)
  OBVIOUS
<1>2. (0 * d + (d - 1)) \div d = 0
  BY <1>1, Quotient
<1>3. (first - first + d - 1) \div d = 0
  BY <1>1, <1>2
<1> QED
  BY <1>3 DEF InChunks

LEMMA SumsBegin ==
    ASSUME pcaJob \in PcaJobs, NEW gpu \in BOOLEAN, NEW v
    PROVE  SumsTo(gpu, 0, v) = Zero(IF gpu THEN 1 ELSE PcaWorkers)
<1>1. GpuSums(0, v) = Zero(1)
  <2>1. InChunks(0, 0, pcaJob.chunk, v) = <<>>
    BY JobFacts, NoChunks
  <2> QED
    BY <2>1 DEF GpuSums, Zero
<1> QED
  BY <1>1, ThreadsBegin DEF SumsTo

-----------------------------------------------------------------------------
(* Passes, and the fit that they end in.                                   *)

LEMMA SumsWhole ==
    ASSUME NEW v
    PROVE  ThreadSums(NRows, v) = ByThreads(v) /\ SumsTo(OnGpu, NRows, v) = ByGpu(v)
  BY DEF ThreadSums, GpuSums, SumsTo, ByThreads, ByGpu

LEMMA PassesAre ==
    ASSUME NEW n \in Nat, NEW v
    PROVE  /\ Len(Passes(n, v)) = n
           /\ Append(Passes(n, v), SumsTo(PassGpu(n + 1), NRows, v)) = Passes(n + 1, v)
<1> DEFINE f == Passes(n, v)
           x == SumsTo(PassGpu(n + 1), NRows, v)
           next == Passes(n + 1, v)
<1>1. f = [p \in 1..n |-> f[p]] /\ next = [p \in 1..(n + 1) |-> next[p]]
  BY DEF Passes
<1>2. (\A p \in 1..n : next[p] = f[p]) /\ next[n + 1] = x
  BY DEF Passes
<1> HIDE DEF f, x, next
<1>3. f \in Seq({f[i] : i \in 1..n}) /\ Len(f) = n
  BY <1>1, BuiltSeq
<1>4. Append(f, x) = [i \in 1..(n + 1) |-> IF i = n + 1 THEN x ELSE f[i]]
  BY <1>3, AppendIs
<1>5. \A i \in 1..(n + 1) : (IF i = n + 1 THEN x ELSE f[i]) = next[i]
  BY <1>2
<1>6. Append(f, x) = next
  BY <1>1, <1>4, <1>5
<1> QED
  BY <1>3, <1>6 DEF f, x, next

LEMMA AppendOne ==
    ASSUME NEW m, NEW x
    PROVE  Append(<<m>>, x) = <<m, x>>
<1>1. <<m>> \in Seq({m, x}) /\ x \in {m, x}
  OBVIOUS
<1>2. \A f, g : DOMAIN f = 1..2 /\ DOMAIN g = 1..2
          /\ f = [i \in 1..2 |-> f[i]] /\ g = [i \in 1..2 |-> g[i]]
          /\ f[1] = g[1] /\ f[2] = g[2] => f = g
  OBVIOUS
<1>3. Append(<<m>>, x) = [i \in 1..2 |-> IF i = 2 THEN x ELSE m]
  <2>1. Len(<<m>>) = 1 /\ <<m>>[1] = m
    OBVIOUS
  <2>2. Append(<<m>>, x) = [i \in 1..(Len(<<m>>) + 1) |-> IF i = Len(<<m>>) + 1 THEN x ELSE <<m>>[i]]
    BY <1>1, AppendIs
  <2> QED
    BY <2>1, <2>2
<1>4. [i \in 1..2 |-> IF i = 2 THEN x ELSE m] = <<m, x>>
  <2> DEFINE f == [i \in 1..2 |-> IF i = 2 THEN x ELSE m]
             g == <<m, x>>
  <2>1. DOMAIN f = 1..2 /\ f = [i \in 1..2 |-> f[i]] /\ f[1] = m /\ f[2] = x
    OBVIOUS
  <2>2. DOMAIN g = 1..2 /\ g = [i \in 1..2 |-> g[i]] /\ g[1] = m /\ g[2] = x
    OBVIOUS
  <2> HIDE DEF f, g
  <2>3. f = g
    BY <1>2, <2>1, <2>2
  <2> QED
    BY <2>3 DEF f, g
<1> QED
  BY <1>3, <1>4

LEMMA FitOfCross ==
    ASSUME ~Wide, ~Resident, NEW v
    PROVE  Append(<<MeanSums(v)>>, SumsTo(OnGpu, NRows, v)) = FitFrom(v)
<1>1. FitFrom(v) = <<MeanSums(v), SumsTo(OnGpu, NRows, v)>>
  BY SumsWhole DEF FitFrom, MeanSums
<1> QED
  BY <1>1, AppendOne

LEMMA FitOfPasses ==
    ASSUME pcaJob \in PcaJobs, Wide, NEW v
    PROVE  Passes(MomentPasses + 2, v) = FitFrom(v)
<1> DEFINE n == MomentPasses
           first == [p \in 1..n |-> ByThreads(v)]
           last == <<ByGpu(v), ByGpu(v)>>
           all == Passes(n + 2, v)
<1>1. n \in Nat
  BY JobFacts
<1>2. FitFrom(v) = first \o last
  BY DEF FitFrom
<1>3. all = [p \in 1..(n + 2) |-> SumsTo(PassGpu(p), NRows, v)]
  BY DEF Passes
<1>4. \A p \in 1..n : SumsTo(PassGpu(p), NRows, v) = ByThreads(v)
  <2>1. \A p \in 1..n : PassGpu(p) = FALSE
    BY <1>1 DEF PassGpu
  <2>2. SumsTo(FALSE, NRows, v) = ByThreads(v)
    BY SumsWhole DEF SumsTo
  <2> QED
    BY <2>1, <2>2
<1>5. \A p \in (n + 1)..(n + 2) : SumsTo(PassGpu(p), NRows, v) = ByGpu(v)
  <2>1. \A p \in (n + 1)..(n + 2) : PassGpu(p) = OnGpu
    BY <1>1 DEF PassGpu, OnGpu
  <2> QED
    BY <2>1, SumsWhole
<1>6. first \o last = [i \in 1..(n + 2) |-> IF i <= n THEN first[i] ELSE last[i - n]]
  <2> DEFINE two == 2
  <2>1. first = [i \in 1..n |-> first[i]]
    OBVIOUS
  <2>2. two \in Nat /\ last = [i \in 1..two |-> last[i]]
    OBVIOUS
  <2> HIDE DEF two, first, last, n
  <2>3. first \o last = [i \in 1..(n + two) |-> IF i <= n THEN first[i] ELSE last[i - n]]
    BY <1>1, <2>1, <2>2, BuiltJoin
  <2> QED
    BY <2>3 DEF two
<1>7. \A i \in 1..(n + 2) :
         (IF i <= n THEN first[i] ELSE last[i - n]) = SumsTo(PassGpu(i), NRows, v)
  <2> SUFFICES ASSUME NEW i \in 1..(n + 2)
               PROVE  (IF i <= n THEN first[i] ELSE last[i - n]) = SumsTo(PassGpu(i), NRows, v)
    OBVIOUS
  <2>1. CASE i <= n
    BY <1>1, <1>4, <2>1
  <2>2. CASE ~(i <= n)
    <3>1. i \in (n + 1)..(n + 2) /\ i - n \in {1, 2}
      BY <1>1, <2>2
    <3>2. last[i - n] = ByGpu(v)
      BY <3>1
    <3> QED
      BY <1>5, <2>2, <3>1, <3>2
  <2> QED
    BY <2>1, <2>2
<1> HIDE DEF first, last
<1> QED
  BY <1>2, <1>3, <1>6, <1>7

-----------------------------------------------------------------------------
(* Files of scores.                                                        *)

(* What overwriting leaves, and what it writes. *)
LEMMA OverwrittenIs ==
    ASSUME NEW file, Plain(file), NEW rows, Plain(rows), NEW at \in 0..Len(file)
    PROVE  LET new == Overwritten(file, at, rows)
           IN  /\ Plain(new)
               /\ Len(new) = IF at + Len(rows) <= Len(file) THEN Len(file) ELSE at + Len(rows)
               /\ \A i \in 1..at : new[i] = file[i]
               /\ \A i \in 1..Len(rows) : new[at + i] = rows[i]
<1> DEFINE S == {file[i] : i \in DOMAIN file} \cup {rows[i] : i \in DOMAIN rows}
           before == SubSeq(file, 1, at)
           behind == SubSeq(file, at + Len(rows) + 1, Len(file))
           new == before \o rows \o behind
<1>1. file \in Seq(S) /\ rows \in Seq(S)
  <2>1. {file[i] : i \in DOMAIN file} \subseteq S /\ {rows[i] : i \in DOMAIN rows} \subseteq S
    OBVIOUS
  <2> HIDE DEF S
  <2> QED
    BY <2>1, SeqMonotonic DEF Plain
<1> HIDE DEF S
<1>2. Len(file) \in Nat /\ Len(rows) \in Nat /\ at \in Nat /\ at <= Len(file)
  BY <1>1, LenProperties
<1>3. before \in Seq(S) /\ Len(before) = at /\ \A i \in 1..at : before[i] = file[i]
  <2>1. \A i \in 1..at : file[i] \in S
    BY <1>1, <1>2, ElementOfSeq
  <2>2. /\ SubSeq(file, 1, at) \in Seq(S)
        /\ Len(SubSeq(file, 1, at)) = IF 1 <= at THEN at - 1 + 1 ELSE 0
        /\ \A i \in 1..(at - 1 + 1) : SubSeq(file, 1, at)[i] = file[(1 + i) - 1]
    <3> DEFINE one == 1
    <3>0. one \in Int /\ at \in Int /\ \A i \in one..at : file[i] \in S
      BY <1>2, <2>1
    <3> HIDE DEF one
    <3>1. /\ SubSeq(file, one, at) \in Seq(S)
          /\ Len(SubSeq(file, one, at)) = IF one <= at THEN at - one + 1 ELSE 0
          /\ \A i \in 1..(at - one + 1) : SubSeq(file, one, at)[i] = file[one + i - 1]
      BY <3>0, SubSeqProperties
    <3> QED
      BY <3>1 DEF one
  <2>3. \A i \in 1..at : i \in 1..(at - 1 + 1) /\ (1 + i) - 1 = i
    BY <1>2
  <2> QED
    BY <1>2, <2>2, <2>3
<1>4. /\ behind \in Seq(S)
      /\ Len(behind) = IF at + Len(rows) <= Len(file) THEN Len(file) - (at + Len(rows)) ELSE 0
  <2> DEFINE m == at + Len(rows) + 1
             n == Len(file)
  <2>1. m \in Int /\ n \in Int /\ \A i \in m..n : i \in 1..Len(file)
    BY <1>2
  <2>2. \A i \in m..n : file[i] \in S
    BY <1>1, <2>1, ElementOfSeq
  <2> HIDE DEF m, n
  <2>3. SubSeq(file, m, n) \in Seq(S) /\ Len(SubSeq(file, m, n)) = IF m <= n THEN n - m + 1 ELSE 0
    BY <2>1, <2>2, SubSeqProperties
  <2> QED
    BY <1>2, <2>3 DEF m, n
<1> HIDE DEF before, behind
<1>5. /\ before \o rows \in Seq(S) /\ Len(before \o rows) = at + Len(rows)
      /\ \A i \in 1..(at + Len(rows)) :
            (before \o rows)[i] = IF i <= at THEN before[i] ELSE rows[i - at]
  BY <1>1, <1>3, ConcatProperties
<1> DEFINE front == before \o rows
<1> HIDE DEF front
<1>6. /\ front \o behind \in Seq(S)
      /\ Len(front \o behind) = at + Len(rows) + Len(behind)
      /\ \A i \in 1..(at + Len(rows)) : (front \o behind)[i] = front[i]
  <2>1. /\ front \in Seq(S) /\ Len(front) = at + Len(rows)
    BY <1>5 DEF front
  <2>2. /\ front \o behind \in Seq(S) /\ Len(front \o behind) = Len(front) + Len(behind)
        /\ \A i \in 1..(Len(front) + Len(behind)) :
              (front \o behind)[i] = IF i <= Len(front) THEN front[i] ELSE behind[i - Len(front)]
    <3>1. front \in Seq(S) /\ behind \in Seq(S)
      BY <1>4, <2>1
    <3> QED
      BY <3>1, ConcatProperties
  <2>3. Len(behind) \in Nat
    BY <1>4, LenProperties
  <2> QED
    BY <1>2, <2>1, <2>2, <2>3
<1>7. new = front \o behind
  BY DEF front
<1>8. Plain(new)
  <2>1. new \in Seq(S)
    BY <1>6, <1>7
  <2> HIDE DEF new
  <2>2. DOMAIN new = 1..Len(new) /\ new \in [1..Len(new) -> S] /\ Len(new) \in Nat
    BY <2>1, LenProperties
  <2>3. new = [i \in 1..Len(new) |-> new[i]]
    BY <2>2
  <2>4. new \in Seq({new[i] : i \in 1..Len(new)})
    BY <2>2, <2>3, BuiltSeq
  <2> QED
    BY <2>2, <2>4 DEF Plain
<1>9. Len(new) = IF at + Len(rows) <= Len(file) THEN Len(file) ELSE at + Len(rows)
  <2>1. Len(new) = at + Len(rows) + Len(behind)
    BY <1>6, <1>7
  <2> HIDE DEF new
  <2>2. CASE at + Len(rows) <= Len(file)
    BY <1>2, <1>4, <2>1, <2>2
  <2>3. CASE ~(at + Len(rows) <= Len(file))
    <3>1. Len(behind) = 0
      BY <1>4, <2>3
    <3>2. at + Len(rows) + Len(behind) = at + Len(rows)
      BY <1>2, <3>1
    <3> QED
      BY <2>1, <2>3, <3>2
  <2> QED
    BY <2>2, <2>3
<1>10. \A i \in 1..at : new[i] = file[i]
  <2>1. \A i \in 1..at : i \in 1..(at + Len(rows)) /\ i <= at
    BY <1>2
  <2> HIDE DEF new
  <2> QED
    BY <1>3, <1>5, <1>6, <1>7, <2>1 DEF front
<1>11. \A i \in 1..Len(rows) : new[at + i] = rows[i]
  <2>1. \A i \in 1..Len(rows) : at + i \in 1..(at + Len(rows)) /\ ~(at + i <= at) /\ (at + i) - at = i
    BY <1>2
  <2> HIDE DEF new
  <2> QED
    BY <1>5, <1>6, <1>7, <2>1 DEF front
<1>12. Min({at, Len(file)}) = at
  BY <1>2, MinOfTwo
<1>13. Overwritten(file, at, rows) = new
  <2> HIDE DEF new
  <2>1. Overwritten(file, at, rows) = before \o rows \o behind
    BY <1>12 DEF Overwritten, before, behind
  <2> QED
    BY <2>1 DEF new
<1> HIDE DEF new
<1> QED
  BY <1>8, <1>9, <1>10, <1>11, <1>13

(* Scores behind those that a file begins with. *)
LEMMA ScoresBehind ==
    ASSUME NEW file, Plain(file), NEW rows, Plain(rows), NEW at \in Nat, NEW fit, NEW v,
           Begins(file, at, fit, v),
           \A i \in 1..Len(rows) : rows[i] = ScoreAt(fit, at + i, v)
    PROVE  LET new == Overwritten(file, at, rows)
           IN  /\ Plain(new) /\ Len(new) >= Len(file) /\ Len(rows) \in Nat
               /\ Begins(new, at + Len(rows), fit, v) /\ Begins(new, at, fit, v)
<1> DEFINE new == Overwritten(file, at, rows)
<1>1. Len(file) \in Nat /\ Len(rows) \in Nat
  BY LenProperties DEF Plain
<1>2. at \in 0..Len(file)
  BY <1>1 DEF Begins
<1>3. /\ Plain(new)
      /\ Len(new) = IF at + Len(rows) <= Len(file) THEN Len(file) ELSE at + Len(rows)
      /\ \A i \in 1..at : new[i] = file[i]
      /\ \A i \in 1..Len(rows) : new[at + i] = rows[i]
  BY <1>2, OverwrittenIs
<1> HIDE DEF new
<1>4. ASSUME NEW r \in 1..(at + Len(rows)) PROVE new[r] = ScoreAt(fit, r, v)
  <2>1. CASE r <= at
    BY <1>1, <1>3, <2>1 DEF Begins
  <2>2. CASE ~(r <= at)
    <3>1. r - at \in 1..Len(rows) /\ at + (r - at) = r
      BY <1>1, <2>2
    <3>2. new[at + (r - at)] = rows[r - at] /\ rows[r - at] = ScoreAt(fit, at + (r - at), v)
      BY <1>3, <3>1
    <3> QED
      BY <3>1, <3>2
  <2> QED
    BY <2>1, <2>2
<1>5. Begins(new, at + Len(rows), fit, v)
  BY <1>1, <1>3, <1>4 DEF Begins
<1>6. Begins(new, at, fit, v) /\ Len(new) >= Len(file)
  BY <1>1, <1>2, <1>3, <1>4 DEF Begins
<1> QED
  BY <1>1, <1>3, <1>5, <1>6 DEF new

(* A file with a score for each row. *)
LEMMA WholeFile ==
    ASSUME pcaJob \in PcaJobs, NEW file, Plain(file), Len(file) = NRows, NEW v,
           Begins(file, NRows, FitFrom(v), v)
    PROVE  file = ScoresFrom(v)
<1>1. file = [r \in 1..NRows |-> file[r]]
  BY LenProperties DEF Plain
<1>2. \A r \in 1..NRows : file[r] = ScoreOf(FitFrom(v), RowAt(r, v))
  BY DEF Begins, ScoreAt
<1> QED
  BY <1>1, <1>2 DEF ScoresFrom

(* A part of a sequence. *)
LEMMA PlainPart ==
    ASSUME NEW s, Plain(s), NEW n \in 0..Len(s)
    PROVE  /\ Plain(SubSeq(s, 1, n)) /\ Len(SubSeq(s, 1, n)) = n
           /\ \A i \in 1..n : SubSeq(s, 1, n)[i] = s[i]
<1> DEFINE S == {s[i] : i \in DOMAIN s}
           new == SubSeq(s, 1, n)
<1>1. s \in Seq(S) /\ Len(s) \in Nat /\ n \in Nat
  BY LenProperties DEF Plain
<1> HIDE DEF S
<1>2. new = [i \in 1..n |-> s[i]]
  BY <1>1
<1>3. new = [i \in 1..n |-> new[i]]
  BY <1>2
<1>4. \A i \in 1..n : new[i] = s[i]
  BY <1>2
<1> HIDE DEF new
<1>5. new \in Seq({new[i] : i \in 1..n}) /\ Len(new) = n /\ DOMAIN new = 1..n
  BY <1>1, <1>3, BuiltSeq
<1> QED
  BY <1>4, <1>5 DEF Plain, new

-----------------------------------------------------------------------------
(* A session has one job, and the matrix only gets newer.                  *)

JobKept ==
    /\ NRows' = NRows /\ MomentPasses' = MomentPasses /\ PcaWorkers' = PcaWorkers
    /\ OnGpu' = OnGpu /\ Wide' = Wide /\ Resident' = Resident
    /\ \A n : AtBlock(n)' = AtBlock(n) /\ PassGpu(n)' = PassGpu(n)
    /\ \A v : /\ FitFrom(v)' = FitFrom(v) /\ ScoresFrom(v)' = ScoresFrom(v)
              /\ MeanSums(v)' = MeanSums(v)
    /\ \A n, v : ThreadSums(n, v)' = ThreadSums(n, v) /\ Passes(n, v)' = Passes(n, v)
    /\ \A gpu, n, v : SumsTo(gpu, n, v)' = SumsTo(gpu, n, v)
    /\ \A k : ShardOf(k)' = ShardOf(k)

LEMMA SameJob == ASSUME pcaJob' = pcaJob PROVE JobKept
<1>1. /\ NRows' = NRows /\ MomentPasses' = MomentPasses /\ PcaWorkers' = PcaWorkers
      /\ OnGpu' = OnGpu /\ Wide' = Wide /\ Resident' = Resident
  BY DEF NRows, MomentPasses, PcaWorkers, OnGpu, Wide, Resident
<1>2. \A n : AtBlock(n)' = AtBlock(n) /\ PassGpu(n)' = PassGpu(n)
  BY <1>1 DEF AtBlock, PassGpu
<1>3. \A s : CountAt(s)' = CountAt(s)
  BY <1>1 DEF CountAt
<1>4. \A r : ThreadOf(r)' = ThreadOf(r)
  BY <1>1, <1>3 DEF ThreadOf
<1>5. \A n, v : ThreadSums(n, v)' = ThreadSums(n, v)
  BY <1>1, <1>4 DEF ThreadSums, RowsByThreads
<1>6. \A n, v : GpuSums(n, v)' = GpuSums(n, v)
  BY DEF GpuSums
<1>7. \A gpu, n, v : SumsTo(gpu, n, v)' = SumsTo(gpu, n, v)
  BY <1>5, <1>6 DEF SumsTo
<1>8. \A v : MeanSums(v)' = MeanSums(v)
  BY <1>1, <1>5 DEF MeanSums
<1>9. \A n, v : Passes(n, v)' = Passes(n, v)
  BY <1>1, <1>2, <1>7 DEF Passes
<1>10. \A k : ShardOf(k)' = ShardOf(k)
  BY <1>1 DEF ShardOf
<1>11. \A v : FitFrom(v)' = FitFrom(v)
  <2>1. \A v : ByThreads(v)' = ByThreads(v)
    BY <1>1, <1>4 DEF ByThreads, RowsByThreads
  <2>2. \A v : ByGpu(v)' = ByGpu(v)
    BY <1>1, <2>1 DEF ByGpu
  <2> QED
    BY <1>1, <1>10, <2>1, <2>2 DEF FitFrom
<1>12. \A v : ScoresFrom(v)' = ScoresFrom(v)
  BY <1>1, <1>11 DEF ScoresFrom
<1> QED
  BY <1>1, <1>2, <1>5, <1>7, <1>8, <1>9, <1>10, <1>11, <1>12 DEF JobKept

LEMMA StateLater ==
    ASSUME JobKept, pcaJob' = pcaJob, matrix \in Nat, matrix' \in Nat, matrix <= matrix',
           NEW s, StateRight(s)
    PROVE  StateRight(s)'
<1>1. s.sign \in 0..matrix'
  BY DEF StateRight
<1>2. /\ NRows' = NRows /\ MomentPasses' = MomentPasses /\ Wide' = Wide /\ OnGpu' = OnGpu
      /\ AtBlock(s.rows)' = AtBlock(s.rows) /\ FitFrom(s.sign)' = FitFrom(s.sign)
      /\ MeanSums(s.sign)' = MeanSums(s.sign)
      /\ ThreadSums(s.rows, s.sign)' = ThreadSums(s.rows, s.sign)
      /\ Passes(Len(s.moments), s.sign)' = Passes(Len(s.moments), s.sign)
      /\ SumsTo(OnGpu, s.rows, s.sign)' = SumsTo(OnGpu, s.rows, s.sign)
  BY DEF JobKept
<1> QED
  BY <1>1, <1>2 DEF StateRight

-----------------------------------------------------------------------------
(* Steps that end a call.                                                  *)

DiskTyped ==
    /\ DOMAIN pcaDisk = DiskFields
    /\ Optional(pcaDisk.record) /\ Optional(pcaDisk.part)
    /\ pcaDisk.record # <<>> => DOMAIN pcaDisk.record[1] = StateFields
    /\ pcaDisk.part # <<>> => Plain(pcaDisk.part[1])

LEMMA AtRestRight ==
    ASSUME PcaIInv, ~Resident, pcaJob' = pcaJob, matrix' = matrix, shards' = shards,
           halted' \in Nat, NEW pc \in Over, NEW resume \in BOOLEAN,
           resume => pcaJob.save, pcaCall' = AtRest(pc, resume),
           DiskTyped', RecordRight', NamesRight', PcaWorkResumes'
    PROVE  PcaIInv'
<1>1. JobKept
  BY SameJob
<1>2. /\ pcaCall'.pc = pc /\ pcaCall'.resume = resume /\ DOMAIN pcaCall' = CallFields
      /\ DOMAIN pcaCall'.state = StateFields /\ pcaCall'.at = 0 /\ pcaCall'.seen = 0
      /\ pcaCall'.tail = <<>>
  BY DEF AtRest, CallFields, Fresh, StateFields
<1>3. Plain(<<>>)
  <2>1. <<>> \in Seq({<<>>[i] : i \in DOMAIN <<>>})
    OBVIOUS
  <2> QED
    BY <2>1 DEF Plain
<1>4. PcaTypeOK'
  BY <1>2, <1>3 DEF PcaIInv, PcaTypeOK, DiskTyped, Optional, Plain
<1>5. CallRight' /\ PassRight' /\ ScoresRight'
  BY <1>1, <1>2 DEF CallRight, PassRight, ScoresRight, Over, Working, Ending, Fitting, Writing,
     Sealing, JobKept
<1>6. ShardsRight'
  BY <1>1, <1>2 DEF PcaIInv, ShardsRight, Launching, Over, JobKept, Running
<1> QED
  BY <1>4, <1>5, <1>6 DEF PcaIInv

(* What an interrupted call leaves on disk. *)
LEMMA CallStops ==
    ASSUME PcaIInv, ~Resident, pcaJob' = pcaJob, matrix' = matrix, shards' = shards,
           halted' \in Nat, pcaCall' = AtRest("idle", pcaCall.resume),
           DOMAIN pcaDisk' = DiskFields, pcaDisk'.record = pcaDisk.record,
           pcaDisk'.scores = pcaDisk.scores, pcaDisk'.manifest = pcaDisk.manifest,
           pcaDisk'.init = pcaDisk.init, pcaDisk'.initPart \in {<<>>, pcaDisk.initPart},
           NEW file,
           \/ pcaDisk'.part = pcaDisk.part
           \/ /\ pcaCall.pc \in Writing /\ pcaDisk'.part = <<file>> /\ Plain(file)
              /\ Begins(file, pcaCall.at, pcaCall.state.fit, pcaCall.state.sign)
    PROVE  PcaIInv'
<1>1. JobKept /\ matrix \in Nat
  BY SameJob, PcaBounds DEF PcaIInv, PcaTypeOK
<1>2. /\ pcaCall'.pc = "idle" /\ pcaCall'.result = <<>>
      /\ pcaCall.resume \in BOOLEAN /\ (pcaCall.resume => pcaJob.save)
  BY DEF PcaIInv, PcaTypeOK, CallRight, AtRest
<1>3. DiskTyped'
  <2>1. DiskTyped
    BY DEF PcaIInv, PcaTypeOK, DiskTyped
  <2>2. Optional(pcaDisk'.part) /\ (pcaDisk'.part # <<>> => Plain(pcaDisk'.part[1]))
    BY <2>1 DEF DiskTyped, Optional
  <2> QED
    BY <2>1, <2>2 DEF DiskTyped, Optional, Plain
<1>4. ASSUME pcaDisk.record # <<>> PROVE StateRight(pcaDisk.record[1])'
  <2>1. StateRight(pcaDisk.record[1])
    BY <1>4 DEF PcaIInv, RecordRight
  <2>2. \A s : StateRight(s) => StateRight(s)'
    BY <1>1, StateLater
  <2> QED
    BY <2>1, <2>2
<1>5. RecordRight'
  <2>1. CASE pcaDisk'.part = pcaDisk.part
    BY <1>1, <1>4, <2>1 DEF PcaIInv, RecordRight, JobKept
  <2>2. CASE pcaDisk'.part # pcaDisk.part
    <3>1. /\ pcaCall.pc \in Writing /\ pcaDisk'.part = <<file>> /\ <<file>>[1] = file
          /\ Begins(file, pcaCall.at, pcaCall.state.fit, pcaCall.state.sign)
      BY <2>2
    <3>2. ASSUME pcaDisk.record # <<>>
          PROVE  /\ pcaJob.save
                 /\ pcaDisk.record[1].sign = pcaCall.state.sign
                 /\ pcaDisk.record[1].fit = pcaCall.state.fit
                 /\ pcaDisk.record[1].stage = "fit" /\ pcaDisk.record[1].done = pcaCall.at
      <4>1. pcaJob.save
        BY <3>2 DEF PcaIInv, RecordRight
      <4>2. pcaCall.state.stage = "fit"
        BY <3>1 DEF PcaIInv, CallRight
      <4>3. /\ pcaDisk.record[1].sign = pcaCall.state.sign
            /\ pcaDisk.record[1].fit = pcaCall.state.fit
            /\ pcaDisk.record[1].stage = pcaCall.state.stage
        BY <3>1, <4>1 DEF PcaIInv, CallRight, Working
      <4>4. pcaDisk.record[1].done = pcaCall.at
        BY <3>1, <4>1 DEF PcaIInv, ScoresRight
      <4> QED
        BY <4>1, <4>2, <4>3, <4>4
    <3>3. pcaCall.at <= Len(file)
      BY <3>1 DEF Begins
    <3>4. ASSUME pcaDisk'.record # <<>>
          PROVE  /\ pcaJob'.save /\ ~Resident' /\ StateRight(pcaDisk.record[1])'
                 /\ pcaDisk'.record[1].stage = "fit"
                 /\ SizeOf(pcaDisk.part)' >= pcaDisk'.record[1].done
                 /\ Begins(pcaDisk'.part[1], pcaDisk'.record[1].done, pcaDisk'.record[1].fit,
                           pcaDisk'.record[1].sign)
      <4>1. SizeOf(pcaDisk.part)' = Len(file)
        BY <3>1 DEF SizeOf
      <4>2. pcaCall.at \in Nat /\ Len(file) \in Nat
        BY <2>2, LenProperties DEF PcaIInv, PcaTypeOK, Plain
      <4> QED
        BY <1>1, <1>4, <3>1, <3>2, <3>3, <3>4, <4>1, <4>2 DEF JobKept
    <3> QED
      BY <3>4 DEF RecordRight
  <2> QED
    BY <2>1, <2>2
<1>6. NamesRight'
  BY <1>1, <1>2 DEF PcaIInv, NamesRight, JobKept, Working, Sealing, Fitting, Ending, Writing
<1>7. PcaWorkResumes'
  BY <1>2 DEF PcaWorkResumes
<1> QED
  BY <1>2, <1>3, <1>5, <1>6, <1>7, AtRestRight DEF Over

-----------------------------------------------------------------------------
(* Steps that go on with the fit.                                          *)

LEMMA FitMoves ==
    ASSUME PcaIInv, pcaCall.pc \in Fitting, Rest, DOMAIN pcaCall' = CallFields,
           pcaCall'.pc \in Fitting, pcaCall'.at \in Nat,
           \A f \in {"resume", "seen", "tail", "result"} : pcaCall'[f] = pcaCall[f],
           NEW s, pcaCall'.state = s, StateRight(s), DOMAIN s = StateFields,
           s.sign = pcaCall.state.sign, s.stage # "fit", s.fit = pcaCall.state.fit,
           NEW r, StateRight(r), DOMAIN r = StateFields,
           r.sign = s.sign, r.stage = s.stage, r.fit = s.fit,
           \/ pcaDisk' = Saved(r) /\ pcaCall.state.stage # "fit"
           \/ pcaDisk' = pcaDisk /\ s.stage = pcaCall.state.stage,
           PassRight'
    PROVE  PcaIInv'
<1>0. pcaJob' = pcaJob /\ matrix' = matrix /\ shards' = shards /\ halted' = halted
  BY DEF Rest
<1>1. JobKept /\ matrix \in Nat
  BY <1>0, SameJob, PcaBounds DEF PcaIInv, PcaTypeOK
<1>2. StateRight(s)' /\ StateRight(r)'
  BY <1>0, <1>1, StateLater
<1>3. /\ DOMAIN pcaDisk' = DiskFields
      /\ \A f \in DiskFields \ {"record"} : pcaDisk'[f] = pcaDisk[f]
      /\ \/ pcaJob.save /\ pcaDisk'.record = <<r>>
         \/ ~pcaJob.save /\ pcaDisk' = pcaDisk
         \/ pcaDisk' = pcaDisk /\ s.stage = pcaCall.state.stage
  BY DEF PcaIInv, PcaTypeOK, DiskFields, Saved
<1>4. pcaCall.state.stage # "fit" /\ s.done = 0 /\ r.done = 0
  BY DEF StateRight
<1>5. /\ ~Resident /\ pcaCall.pc \in Working
      /\ pcaJob.save => /\ pcaDisk.record # <<>> /\ pcaDisk.record[1].stage # "fit"
                        /\ pcaDisk.scores = <<>> /\ pcaDisk.part = <<>>
  <2>1. ~Resident /\ pcaCall.pc \in Working /\ pcaCall.pc \in Fitting
    BY DEF PcaIInv, CallRight, Working, Fitting
  <2>2. ASSUME pcaJob.save
        PROVE  pcaDisk.record # <<>> /\ pcaDisk.record[1].stage # "fit"
    BY <1>4, <2>1, <2>2 DEF PcaIInv, CallRight
  <2>3. pcaDisk.scores = <<>>
    BY <2>1 DEF PcaIInv, NamesRight, Working, Sealing, Fitting
  <2> QED
    BY <2>1, <2>2, <2>3 DEF PcaIInv, RecordRight
<1>6. ~pcaJob.save => pcaDisk.record = <<>>
  BY DEF PcaIInv, RecordRight
<1>7. PcaTypeOK'
  <2>1. DiskTyped'
    BY <1>3 DEF PcaIInv, PcaTypeOK, DiskTyped, DiskFields, Optional, Plain
  <2>2. /\ pcaCall'.pc \in Working /\ pcaCall'.resume \in BOOLEAN
        /\ pcaCall'.seen \in Nat /\ Plain(pcaCall.tail)' /\ DOMAIN pcaCall'.state = StateFields
    BY DEF PcaIInv, PcaTypeOK, Plain, Working
  <2> QED
    BY <1>0, <2>1, <2>2 DEF PcaIInv, PcaTypeOK, DiskTyped
<1>8. RecordRight'
  <2>1. CASE pcaDisk' = pcaDisk
    <3>1. pcaDisk.record # <<>> => StateRight(pcaDisk.record[1])
      BY DEF PcaIInv, RecordRight
    <3>2. \A q : StateRight(q) => StateRight(q)'
      BY <1>0, <1>1, StateLater
    <3>3. Resident' = Resident
      BY <1>1 DEF JobKept
    <3> QED
      BY <1>0, <2>1, <3>1, <3>2, <3>3 DEF PcaIInv, RecordRight
  <2>2. CASE pcaDisk' # pcaDisk
    <3>1. pcaJob.save /\ pcaDisk'.record = <<r>> /\ <<r>>[1] = r
      BY <1>3, <2>2
    <3>2. Resident' = Resident /\ pcaJob'.save /\ pcaDisk'.part = <<>>
      BY <1>0, <1>1, <1>3, <1>5, <3>1 DEF JobKept, DiskFields
    <3> QED
      BY <1>2, <1>5, <3>1, <3>2 DEF RecordRight
  <2> QED
    BY <2>1, <2>2
<1>9. CallRight'
  <2>1. Resident' = Resident /\ pcaJob'.save = pcaJob.save /\ pcaCall'.pc \in Working
    BY <1>0, <1>1 DEF JobKept, Working
  <2>2. pcaCall'.resume = pcaCall.resume /\ pcaCall'.seen = pcaCall.seen
    OBVIOUS
  <2>3. pcaCall.seen <= matrix /\ pcaCall.seen <= pcaCall.state.sign
        /\ (pcaCall.resume => pcaJob.save)
    BY <1>5 DEF PcaIInv, CallRight
  <2>4. pcaJob.save => /\ pcaDisk'.record # <<>>
                       /\ pcaDisk'.record[1].sign = s.sign /\ pcaDisk'.record[1].stage = s.stage
                       /\ pcaDisk'.record[1].fit = s.fit /\ pcaDisk'.record[1].done = s.done
    <3>1. CASE pcaJob.save /\ pcaDisk'.record = <<r>>
      BY <1>4, <3>1
    <3>2. CASE pcaDisk' = pcaDisk /\ s.stage = pcaCall.state.stage
      <4>1. ASSUME pcaJob.save
            PROVE  /\ pcaDisk.record # <<>>
                   /\ pcaDisk.record[1].sign = s.sign /\ pcaDisk.record[1].stage = s.stage
                   /\ pcaDisk.record[1].fit = s.fit
        BY <1>5, <3>2, <4>1 DEF PcaIInv, CallRight
      <4>2. ASSUME pcaJob.save PROVE pcaDisk.record[1].done = 0
        BY <1>5, <4>2 DEF PcaIInv, RecordRight, StateRight
      <4> QED
        BY <1>4, <3>2, <4>1, <4>2
    <3> QED
      BY <1>3, <3>1, <3>2
  <2> QED
    BY <1>0, <1>2, <1>4, <1>5, <2>1, <2>2, <2>3, <2>4
    DEF CallRight, Working, Ending, Sealing, Writing, Fitting
<1>10. ScoresRight'
  BY DEF PcaIInv, ScoresRight, Writing, Fitting
<1>11. NamesRight'
  BY <1>0, <1>1, <1>3, <1>5 DEF PcaIInv, NamesRight, JobKept, Working, Sealing, Fitting, Ending,
     DiskFields, Writing
<1>12. ShardsRight' /\ PcaWorkResumes'
  BY <1>0, <1>1, <1>5 DEF PcaIInv, ShardsRight, Launching, Over, JobKept, PcaWorkResumes, Fitting
<1> QED
  BY <1>7, <1>8, <1>9, <1>10, <1>11, <1>12 DEF PcaIInv

LEMMA StageEnters ==
    ASSUME PcaIInv, NEW stage \in PcaStages \ {"fit"}, InStage(stage), NEW s, Enters(s),
           StateRight(s), DOMAIN s = StateFields, s.sign = pcaCall.state.sign,
           s.stage # "fit", s.fit = pcaCall.state.fit
    PROVE  PcaIInv'
<1>1. /\ pcaCall' = [pcaCall EXCEPT !.state = s] /\ pcaDisk' = Saved(s) /\ Rest
      /\ pcaCall.pc = "fit" /\ pcaCall.state.stage # "fit"
  BY DEF Enters, InStage
<1>2. DOMAIN pcaCall = CallFields /\ pcaCall.at \in Nat
  BY DEF PcaIInv, PcaTypeOK
<1>3. /\ DOMAIN pcaCall' = CallFields /\ pcaCall'.state = s
      /\ \A f \in CallFields \ {"state"} : pcaCall'[f] = pcaCall[f]
  BY <1>1, <1>2 DEF CallFields
<1>4. /\ pcaCall'.pc = "fit" /\ pcaCall'.at \in Nat
      /\ \A f \in {"resume", "seen", "tail", "result"} : pcaCall'[f] = pcaCall[f]
  BY <1>1, <1>2, <1>3 DEF CallFields
<1>5. PassRight'
  BY <1>4 DEF PassRight
<1>6. pcaCall.pc \in Fitting /\ pcaCall'.pc \in Fitting
  BY <1>1, <1>4 DEF Fitting
<1> QED
  BY <1>1, <1>3, <1>4, <1>5, <1>6, FitMoves

LEMMA AtWork ==
    ASSUME PcaIInv, pcaCall.pc \in Working
    PROVE  /\ pcaJob \in PcaJobs /\ ~Resident /\ StateRight(pcaCall.state)
           /\ DOMAIN pcaCall.state = StateFields
           /\ matrix \in Nat /\ pcaCall.seen \in Nat /\ pcaCall.seen <= matrix
           /\ pcaCall.seen <= pcaCall.state.sign /\ pcaCall.state.sign \in 0..matrix
           /\ Readable => pcaCall.seen = pcaCall.state.sign
<1>1. /\ pcaJob \in PcaJobs /\ ~Resident /\ StateRight(pcaCall.state)
      /\ DOMAIN pcaCall.state = StateFields
      /\ matrix \in Nat /\ pcaCall.seen \in Nat /\ pcaCall.seen <= matrix
      /\ pcaCall.seen <= pcaCall.state.sign
  BY PcaBounds DEF PcaIInv, PcaTypeOK, CallRight, Working
<1>2. pcaCall.state.sign \in 0..matrix
  BY <1>1 DEF StateRight
<1> QED
  BY <1>1, <1>2 DEF Readable

LEMMA BeginMeansKeeps == ASSUME PcaIInv, BeginMeans PROVE PcaIInv'
<1> DEFINE s == [pcaCall.state EXCEPT !.stage = "mean_partial", !.sums = Zero(PcaWorkers)]
<1>1. InStage("pending") /\ ~Wide /\ pcaJob.centered /\ Enters(s)
  BY DEF BeginMeans
<1>2. /\ pcaJob \in PcaJobs /\ StateRight(pcaCall.state) /\ DOMAIN pcaCall.state = StateFields
  BY <1>1, AtWork DEF InStage, Working, Fitting
<1>3. /\ DOMAIN s = StateFields /\ s.stage = "mean_partial" /\ s.sums = Zero(PcaWorkers)
      /\ \A f \in StateFields \ {"stage", "sums"} : s[f] = pcaCall.state[f]
  BY <1>2 DEF StateFields
<1>4. pcaCall.state.rows = 0 /\ AtBlock(0) /\ ThreadSums(0, s.sign) = Zero(PcaWorkers)
  BY <1>1, <1>2, FirstBlock, ThreadsBegin DEF StateRight, InStage
<1>5. /\ s.sign = pcaCall.state.sign /\ s.fit = pcaCall.state.fit
      /\ s.done = pcaCall.state.done /\ s.rows = 0
  BY <1>3, <1>4 DEF StateFields
<1> HIDE DEF s
<1>6. StateRight(s)
  BY <1>1, <1>2, <1>3, <1>4, <1>5 DEF StateRight, PcaStages, InStage
<1> QED
  BY <1>1, <1>3, <1>5, <1>6, StageEnters DEF PcaStages

LEMMA MeanChunkKeeps == ASSUME PcaIInv, MeanChunk PROVE PcaIInv'
<1> DEFINE c == pcaCall.state
           s == [c EXCEPT !.sums = AddedByThreads(c.sums, c.rows, pcaCall.seen),
                          !.rows = Reached(c.rows)]
<1>1. InStage("mean_partial") /\ c.rows < NRows /\ pcaCall.pc \in Working
  BY DEF MeanChunk, InStage, Working, Fitting
<1>2. /\ pcaJob \in PcaJobs /\ StateRight(c) /\ DOMAIN c = StateFields /\ ~Resident
      /\ Readable => pcaCall.seen = c.sign
  BY <1>1, AtWork
<1>3. CASE ~Readable
  <2>1. PcaEnds("idle") /\ pcaDisk' = pcaDisk /\ Rest
    BY <1>3 DEF MeanChunk
  <2> QED
    BY <1>2, <2>1, CallStops DEF PcaEnds, Rest, PcaIInv, PcaTypeOK
<1>4. CASE Readable
  <2>1. Enters(s)
    BY <1>4 DEF MeanChunk
  <2>2. /\ DOMAIN s = StateFields /\ s.rows = Reached(c.rows)
        /\ s.sums = AddedByThreads(c.sums, c.rows, c.sign)
        /\ \A f \in StateFields \ {"rows", "sums"} : s[f] = c[f]
    BY <1>2, <1>4 DEF StateFields
  <2>3. AtBlock(c.rows) /\ c.sums = ThreadSums(c.rows, c.sign) /\ c.rows # NRows
    BY <1>1, <1>2, JobFacts DEF StateRight, InStage, AtBlock
  <2>4. AtBlock(Reached(c.rows))
        /\ AddedByThreads(c.sums, c.rows, c.sign) = ThreadSums(Reached(c.rows), c.sign)
    BY <1>2, <2>3, BlockFacts, ThreadsAdd
  <2> HIDE DEF s
  <2>5. StateRight(s)
    BY <1>1, <1>2, <2>2, <2>4 DEF StateRight, StateFields, PcaStages, InStage
  <2>6. s.sign = c.sign /\ s.stage = c.stage /\ s.fit = c.fit
    BY <2>2 DEF StateFields
  <2> QED
    BY <1>1, <2>1, <2>2, <2>5, <2>6, StageEnters DEF PcaStages, InStage
<1> QED
  BY <1>3, <1>4

LEMMA EndMeansKeeps == ASSUME PcaIInv, EndMeans PROVE PcaIInv'
<1> DEFINE c == pcaCall.state
           s == [c EXCEPT !.stage = "means", !.moments = <<c.sums>>, !.sums = <<>>, !.rows = 0]
<1>1. /\ InStage(c.stage) /\ c.stage \in {"mean_partial", "pending"} /\ Enters(s)
      /\ \/ c.stage = "mean_partial" /\ c.rows = NRows
         \/ c.stage = "pending" /\ ~Wide /\ ~pcaJob.centered
  BY DEF EndMeans, InStage
<1>2. /\ pcaJob \in PcaJobs /\ StateRight(c) /\ DOMAIN c = StateFields
  BY <1>1, AtWork DEF InStage, Working, Fitting
<1>3. /\ DOMAIN s = StateFields /\ s.stage = "means" /\ s.moments = <<c.sums>> /\ s.rows = 0
      /\ \A f \in StateFields \ {"stage", "moments", "sums", "rows"} : s[f] = c[f]
  BY <1>2 DEF StateFields
<1>4. ~Wide /\ c.sums = MeanSums(c.sign)
  BY <1>1, <1>2 DEF StateRight, MeanSums
<1>5. s.sign = c.sign /\ s.fit = c.fit /\ s.done = c.done
  BY <1>3 DEF StateFields
<1> HIDE DEF s
<1>6. StateRight(s)
  BY <1>1, <1>2, <1>3, <1>4, <1>5 DEF StateRight, PcaStages
<1> QED
  BY <1>1, <1>3, <1>5, <1>6, StageEnters DEF PcaStages

LEMMA BeginCrossKeeps == ASSUME PcaIInv, BeginCross PROVE PcaIInv'
<1> DEFINE c == pcaCall.state
           s == [c EXCEPT !.stage = "covariance_partial",
                          !.sums = Zero(IF OnGpu THEN 1 ELSE PcaWorkers)]
<1>1. InStage("means") /\ Enters(s)
  BY DEF BeginCross
<1>2. /\ pcaJob \in PcaJobs /\ StateRight(c) /\ DOMAIN c = StateFields
  BY <1>1, AtWork DEF InStage, Working, Fitting
<1>3. /\ DOMAIN s = StateFields /\ s.stage = "covariance_partial"
      /\ s.sums = Zero(IF OnGpu THEN 1 ELSE PcaWorkers)
      /\ \A f \in StateFields \ {"stage", "sums"} : s[f] = c[f]
  BY <1>2 DEF StateFields
<1>4. s.sign = c.sign /\ s.fit = c.fit /\ s.done = c.done /\ s.rows = c.rows
      /\ s.moments = c.moments
  BY <1>3 DEF StateFields
<1>5. c.rows = 0 /\ AtBlock(0)
      /\ SumsTo(OnGpu, 0, c.sign) = Zero(IF OnGpu THEN 1 ELSE PcaWorkers)
  BY <1>1, <1>2, FirstBlock, SumsBegin DEF StateRight, InStage, OnGpu
<1> HIDE DEF s
<1>6. StateRight(s)
  BY <1>1, <1>2, <1>3, <1>4, <1>5 DEF StateRight, PcaStages, InStage
<1> QED
  BY <1>1, <1>3, <1>4, <1>6, StageEnters DEF PcaStages

LEMMA SaveMomentsKeeps == ASSUME PcaIInv, SaveMoments PROVE PcaIInv'
<1> DEFINE c == pcaCall.state
           s == [c EXCEPT !.stage = "moments"]
<1>1. InStage("pending") /\ Wide /\ Len(c.moments) = MomentPasses /\ Enters(s)
  BY DEF SaveMoments, PassesDone
<1>2. /\ pcaJob \in PcaJobs /\ StateRight(c) /\ DOMAIN c = StateFields
  BY <1>1, AtWork DEF InStage, Working, Fitting
<1>3. /\ DOMAIN s = StateFields /\ s.stage = "moments"
      /\ \A f \in StateFields \ {"stage"} : s[f] = c[f]
  BY <1>2 DEF StateFields
<1>4. s.sign = c.sign /\ s.fit = c.fit /\ s.done = c.done /\ s.moments = c.moments
  BY <1>3 DEF StateFields
<1>5. MomentPasses \in 0..2
  BY <1>2, JobFacts
<1> HIDE DEF s
<1>6. StateRight(s)
  BY <1>1, <1>2, <1>3, <1>4, <1>5 DEF StateRight, PcaStages, InStage
<1> QED
  BY <1>1, <1>3, <1>4, <1>6, StageEnters DEF PcaStages

(* Steps of a pass over the rows. *)
LEMMA PassMoves ==
    ASSUME PcaIInv, pcaCall.pc \in Fitting, Rest, pcaDisk' = pcaDisk,
           pcaCall.state.stage # "fit", DOMAIN pcaCall' = CallFields,
           pcaCall'.pc \in Fitting, pcaCall'.at \in Nat, pcaCall'.state = pcaCall.state,
           \A f \in {"resume", "seen", "tail", "result"} : pcaCall'[f] = pcaCall[f],
           PassRight'
    PROVE  PcaIInv'
<1>1. StateRight(pcaCall.state) /\ DOMAIN pcaCall.state = StateFields
  BY AtWork DEF Working
<1> QED
  BY <1>1, FitMoves

LEMMA EnterCrossKeeps == ASSUME PcaIInv, EnterCross PROVE PcaIInv'
<1> DEFINE c == pcaCall.state
<1>1. InStage("covariance_partial") /\ pcaDisk' = pcaDisk /\ Rest
      /\ pcaCall' = [pcaCall EXCEPT !.pc = "cross", !.at = c.rows, !.sums = c.sums, !.blocks = 0]
  BY DEF EnterCross
<1>2. /\ pcaJob \in PcaJobs /\ StateRight(c) /\ DOMAIN pcaCall = CallFields
  BY <1>1, AtWork DEF InStage, Working, Fitting, PcaIInv, PcaTypeOK
<1>3. /\ DOMAIN pcaCall' = CallFields /\ pcaCall'.pc = "cross" /\ pcaCall'.at = c.rows
      /\ pcaCall'.sums = c.sums /\ pcaCall'.state = c
      /\ \A f \in {"resume", "seen", "tail", "result"} : pcaCall'[f] = pcaCall[f]
  BY <1>1, <1>2 DEF CallFields
<1>4. AtBlock(c.rows) /\ c.sums = SumsTo(OnGpu, c.rows, c.sign) /\ c.rows \in Nat
  BY <1>1, <1>2 DEF StateRight, InStage, AtBlock
<1>5. JobKept
  BY <1>1, SameJob DEF Rest
<1>6. PassRight'
  BY <1>1, <1>3, <1>4, <1>5 DEF PassRight, InStage, JobKept
<1> QED
  BY <1>1, <1>3, <1>4, <1>6, PassMoves DEF InStage, Fitting

LEMMA CrossChunkKeeps == ASSUME PcaIInv, CrossChunk PROVE PcaIInv'
<1> DEFINE c == pcaCall.state
           at == pcaCall.at
           end == Reached(at)
           sums == AddedBy(OnGpu, pcaCall.sums, at)
           r == CrossRecord(at, sums)
<1>1. pcaCall.pc = "cross" /\ at < NRows /\ Rest /\ pcaCall.pc \in Working
  BY DEF CrossChunk, Working, Fitting
<1>2. /\ pcaJob \in PcaJobs /\ StateRight(c) /\ DOMAIN c = StateFields /\ ~Resident
      /\ DOMAIN pcaCall = CallFields
      /\ Readable => pcaCall.seen = c.sign
  BY <1>1, AtWork DEF PcaIInv, PcaTypeOK
<1>3. CASE ~Readable
  <2>1. PcaEnds("idle") /\ pcaDisk' = pcaDisk
    BY <1>3 DEF CrossChunk
  <2> QED
    BY <1>1, <1>2, <2>1, CallStops DEF PcaEnds, Rest, PcaIInv, PcaTypeOK
<1>4. CASE Readable
  <2>1. /\ pcaCall' = [pcaCall EXCEPT !.at = end, !.sums = sums, !.blocks = @ + 1]
        /\ pcaDisk' = Saved(r) \/ pcaDisk' = pcaDisk
    BY <1>4 DEF CrossChunk
  <2>2. /\ c.stage = "covariance_partial" /\ AtBlock(at) /\ at # NRows
        /\ pcaCall.sums = SumsTo(OnGpu, at, c.sign)
    BY <1>1, <1>2, JobFacts DEF PcaIInv, PassRight, AtBlock
  <2>3. AtBlock(end) /\ end \in Nat /\ sums = SumsTo(OnGpu, end, c.sign)
    <3>1. OnGpu \in BOOLEAN
      BY DEF OnGpu
    <3> QED
      BY <1>2, <1>4, <2>2, <3>1, BlockFacts, SumsAdd
  <2> HIDE DEF end, sums
  <2>4. /\ DOMAIN pcaCall' = CallFields /\ pcaCall'.pc = "cross" /\ pcaCall'.at = end
        /\ pcaCall'.sums = sums /\ pcaCall'.state = c
        /\ \A f \in {"resume", "seen", "tail", "result"} : pcaCall'[f] = pcaCall[f]
    BY <1>1, <1>2, <2>1 DEF CallFields
  <2>5. r = [c EXCEPT !.rows = end, !.sums = sums]
    BY DEF CrossRecord, end
  <2>6. /\ DOMAIN r = StateFields /\ r.rows = end /\ r.sums = sums
        /\ \A f \in StateFields \ {"rows", "sums"} : r[f] = c[f]
    <3> HIDE DEF r
    <3> QED
      BY <1>2, <2>5 DEF StateFields
  <2> HIDE DEF r
  <2>7. r.sign = c.sign /\ r.stage = c.stage /\ r.fit = c.fit /\ r.done = c.done
        /\ r.moments = c.moments
    BY <2>6 DEF StateFields
  <2>8. StateRight(r)
    BY <1>2, <2>2, <2>3, <2>6, <2>7 DEF StateRight, PcaStages
  <2>9. JobKept
    BY <1>1, SameJob DEF Rest
  <2>10. PassRight'
    BY <2>2, <2>3, <2>4, <2>9 DEF PassRight, JobKept
  <2> QED
    BY <1>1, <1>2, <2>1, <2>2, <2>3, <2>4, <2>6, <2>7, <2>8, <2>10, FitMoves DEF Fitting
<1> QED
  BY <1>3, <1>4

LEMMA BeginPassKeeps == ASSUME PcaIInv, BeginPass PROVE PcaIInv'
<1> DEFINE c == pcaCall.state
           first == Zero(IF PassOnGpu THEN 1 ELSE PcaWorkers)
<1>1. /\ Wide /\ pcaDisk' = pcaDisk /\ Rest
      /\ pcaCall.pc = "fit" /\ c.stage \in {"pending", "moments"}
      /\ c.stage = "pending" => PassesDone < MomentPasses
      /\ c.stage = "moments" => PassesDone < MomentPasses + 2
      /\ pcaCall' = [pcaCall EXCEPT !.pc = "pass", !.at = 0, !.sums = first]
  BY DEF BeginPass, InStage
<1>2. /\ pcaJob \in PcaJobs /\ StateRight(c) /\ DOMAIN pcaCall = CallFields
      /\ pcaCall.pc \in Fitting /\ MomentPasses \in 0..2
  BY <1>1, AtWork, JobFacts DEF Working, Fitting, PcaIInv, PcaTypeOK
<1>3. AtBlock(0) /\ SumsTo(PassOnGpu, 0, c.sign) = first
  BY <1>2, FirstBlock, SumsBegin DEF PassOnGpu, OnGpu
<1> HIDE DEF first
<1>4. /\ DOMAIN pcaCall' = CallFields /\ pcaCall'.pc = "pass" /\ pcaCall'.at = 0
      /\ pcaCall'.sums = first /\ pcaCall'.state = c
      /\ \A f \in {"resume", "seen", "tail", "result"} : pcaCall'[f] = pcaCall[f]
  BY <1>1, <1>2 DEF CallFields
<1>5. JobKept
  BY <1>1, SameJob DEF Rest
<1>6. PassOnGpu' = PassOnGpu /\ Wide' /\ MomentPasses' = MomentPasses
  BY <1>1, <1>4, <1>5 DEF PassOnGpu, PassesDone, JobKept
<1>7. Len(c.moments) < MomentPasses + 2 /\ (c.stage = "pending" => Len(c.moments) < MomentPasses)
  BY <1>1, <1>2 DEF PassesDone, StateRight
<1>8. PassRight'
  BY <1>1, <1>3, <1>4, <1>5, <1>6, <1>7 DEF PassRight, JobKept
<1> QED
  BY <1>1, <1>2, <1>4, <1>8, PassMoves DEF Fitting

LEMMA PassChunkKeeps == ASSUME PcaIInv, PassChunk PROVE PcaIInv'
<1> DEFINE c == pcaCall.state
           at == pcaCall.at
           end == Reached(at)
           sums == AddedBy(PassOnGpu, pcaCall.sums, at)
<1>1. pcaCall.pc = "pass" /\ at < NRows /\ Rest /\ pcaDisk' = pcaDisk /\ pcaCall.pc \in Working
  BY DEF PassChunk, Working, Fitting
<1>2. /\ pcaJob \in PcaJobs /\ StateRight(c) /\ DOMAIN c = StateFields /\ ~Resident
      /\ DOMAIN pcaCall = CallFields
      /\ Readable => pcaCall.seen = c.sign
  BY <1>1, AtWork DEF PcaIInv, PcaTypeOK
<1>3. CASE ~Readable
  <2>1. PcaEnds("idle")
    BY <1>3 DEF PassChunk
  <2> QED
    BY <1>1, <1>2, <2>1, CallStops DEF PcaEnds, Rest, PcaIInv, PcaTypeOK
<1>4. CASE Readable
  <2>1. pcaCall' = [pcaCall EXCEPT !.at = end, !.sums = sums]
    BY <1>2, <1>4 DEF PassChunk, CallFields
  <2>2. /\ c.stage \in {"pending", "moments"} /\ Wide /\ AtBlock(at) /\ at # NRows
        /\ Len(c.moments) < MomentPasses + 2
        /\ c.stage = "pending" => Len(c.moments) < MomentPasses
        /\ pcaCall.sums = SumsTo(PassOnGpu, at, c.sign)
    BY <1>1, <1>2, JobFacts DEF PcaIInv, PassRight, AtBlock
  <2>3. AtBlock(end) /\ end \in Nat /\ sums = SumsTo(PassOnGpu, end, c.sign)
    <3>1. PassOnGpu \in BOOLEAN
      BY DEF PassOnGpu
    <3> QED
      BY <1>2, <1>4, <2>2, <3>1, BlockFacts, SumsAdd
  <2> HIDE DEF end, sums
  <2>4. /\ DOMAIN pcaCall' = CallFields /\ pcaCall'.pc = "pass" /\ pcaCall'.at = end
        /\ pcaCall'.sums = sums /\ pcaCall'.state = c
        /\ \A f \in {"resume", "seen", "tail", "result"} : pcaCall'[f] = pcaCall[f]
    BY <1>1, <1>2, <2>1 DEF CallFields
  <2>5. JobKept
    BY <1>1, SameJob DEF Rest
  <2>6. PassOnGpu' = PassOnGpu /\ Wide' /\ MomentPasses' = MomentPasses
    BY <2>2, <2>4, <2>5 DEF PassOnGpu, PassesDone, JobKept
  <2>7. PassRight'
    BY <2>2, <2>3, <2>4, <2>5, <2>6 DEF PassRight, JobKept
  <2> QED
    BY <1>1, <2>2, <2>3, <2>4, <2>7, PassMoves DEF Fitting
<1> QED
  BY <1>3, <1>4

LEMMA EndPassKeeps == ASSUME PcaIInv, EndPass PROVE PcaIInv'
<1> DEFINE c == pcaCall.state
           n == Len(c.moments)
           s == [c EXCEPT !.moments = Append(c.moments, pcaCall.sums)]
<1>1. /\ pcaCall.pc = "pass" /\ pcaCall.at = NRows /\ Rest /\ pcaDisk' = pcaDisk
      /\ pcaCall' = [pcaCall EXCEPT !.pc = "fit", !.state.moments = Append(@, pcaCall.sums)]
  BY DEF EndPass
<1>2. /\ pcaJob \in PcaJobs /\ StateRight(c) /\ DOMAIN c = StateFields
      /\ DOMAIN pcaCall = CallFields /\ MomentPasses \in 0..2
  BY <1>1, AtWork, JobFacts DEF Working, Fitting, PcaIInv, PcaTypeOK
<1>3. /\ c.stage \in {"pending", "moments"} /\ Wide /\ n < MomentPasses + 2
      /\ c.stage = "pending" => n < MomentPasses
      /\ pcaCall.sums = SumsTo(PassOnGpu, NRows, c.sign)
  BY <1>1 DEF PcaIInv, PassRight
<1>4. n \in 0..(MomentPasses + 2) /\ c.moments = Passes(n, c.sign)
  BY <1>2, <1>3 DEF StateRight
<1>5. PassGpu(n + 1) = PassOnGpu
  BY <1>2, <1>4 DEF PassGpu, PassOnGpu, PassesDone
<1>6. /\ Append(c.moments, pcaCall.sums) = Passes(n + 1, c.sign)
      /\ Len(Passes(n + 1, c.sign)) = n + 1
  <2>1. n \in Nat /\ n + 1 \in Nat
    BY <1>2, <1>4
  <2> HIDE DEF n
  <2>2. Append(Passes(n, c.sign), SumsTo(PassGpu(n + 1), NRows, c.sign)) = Passes(n + 1, c.sign)
    BY <2>1, PassesAre
  <2>3. Len(Passes(n + 1, c.sign)) = n + 1
    BY <2>1, PassesAre
  <2> QED
    BY <1>3, <1>4, <1>5, <2>2, <2>3
<1>7. /\ DOMAIN s = StateFields /\ s.moments = Passes(n + 1, c.sign)
      /\ \A f \in StateFields \ {"moments"} : s[f] = c[f]
  BY <1>2, <1>6 DEF StateFields
<1>8. s.sign = c.sign /\ s.stage = c.stage /\ s.fit = c.fit /\ s.done = c.done
      /\ s.rows = c.rows /\ s.sums = c.sums
  BY <1>7 DEF StateFields
<1>9. /\ DOMAIN pcaCall' = CallFields /\ pcaCall'.pc = "fit" /\ pcaCall'.at = NRows
      /\ pcaCall'.state = s
      /\ \A f \in {"resume", "seen", "tail", "result"} : pcaCall'[f] = pcaCall[f]
  BY <1>1, <1>2 DEF CallFields
<1> HIDE DEF s, n
<1>10. StateRight(s)
  <2>1. Len(s.moments) = n + 1 /\ s.moments = Passes(Len(s.moments), s.sign)
    BY <1>6, <1>7, <1>8
  <2>2. s.stage = "moments" => n >= MomentPasses
    BY <1>2, <1>8 DEF StateRight, n
  <2>3. n + 1 \in 0..(MomentPasses + 2) /\ (s.stage = "moments" => n + 1 >= MomentPasses)
    BY <1>2, <1>3, <1>4, <2>2
  <2> QED
    BY <1>2, <1>3, <1>8, <2>1, <2>3 DEF StateRight, PcaStages
<1>11. PassRight'
  BY <1>9 DEF PassRight
<1>12. NRows \in Nat
  BY <1>2, JobFacts
<1> QED
  BY <1>1, <1>3, <1>7, <1>8, <1>9, <1>10, <1>11, <1>12, FitMoves DEF Fitting

-----------------------------------------------------------------------------
(* The fit is found or reused, and the file of the scores opened.          *)

(* With a record of a stage before the fit there are no scores. *)
LEMMA NoScoresYet ==
    ASSUME PcaIInv, pcaCall.pc \in Fitting, pcaCall.state.stage # "fit", pcaJob.save
    PROVE  pcaDisk.record # <<>> /\ pcaDisk.scores = <<>> /\ pcaDisk.part = <<>>
<1>1. pcaDisk.record # <<>> /\ pcaDisk.record[1].stage # "fit"
  BY DEF PcaIInv, CallRight, Working
<1>2. pcaDisk.scores = <<>>
  BY DEF PcaIInv, NamesRight, Working, Sealing, Fitting
<1> QED
  BY <1>1, <1>2 DEF PcaIInv, RecordRight

LEMMA FitFoundKeeps ==
    ASSUME PcaIInv, pcaCall.pc \in Fitting, pcaCall.state.stage # "fit", Rest,
           NEW fit, fit = FitFrom(pcaCall.state.sign), FitFound(fit)
    PROVE  PcaIInv'
<1> DEFINE c == pcaCall.state
<1>0. PICK s : s = [Fresh(c.sign) EXCEPT !.stage = "fit", !.fit = fit]
  OBVIOUS
<1>1. /\ pcaCall' = [pcaCall EXCEPT !.pc = "open", !.state = s, !.sums = <<>>, !.at = 0]
      /\ pcaDisk' = Saved(s)
  BY <1>0 DEF FitFound
<1>2. /\ DOMAIN s = StateFields /\ s.sign = c.sign /\ s.stage = "fit" /\ s.fit = fit
      /\ s.rows = 0 /\ s.done = 0
  BY <1>0 DEF Fresh, StateFields
<1>3. /\ pcaJob \in PcaJobs /\ ~Resident /\ DOMAIN pcaCall = CallFields
      /\ DOMAIN pcaDisk = DiskFields /\ c.sign \in 0..matrix /\ matrix \in Nat
      /\ pcaCall.seen <= matrix /\ pcaCall.seen <= c.sign
  BY AtWork DEF Working, PcaIInv, PcaTypeOK
<1>4. StateRight(s)
  BY <1>2, <1>3, JobFacts DEF StateRight, PcaStages
<1>5. /\ pcaJob' = pcaJob /\ matrix' = matrix /\ shards' = shards /\ halted' = halted /\ JobKept
  BY SameJob DEF Rest
<1>6. StateRight(s)'
  BY <1>3, <1>4, <1>5, StateLater
<1>7. /\ DOMAIN pcaCall' = CallFields /\ pcaCall'.pc = "open" /\ pcaCall'.state = s
      /\ pcaCall'.at = 0 /\ pcaCall'.resume = pcaCall.resume /\ pcaCall'.seen = pcaCall.seen
      /\ pcaCall'.tail = pcaCall.tail /\ pcaCall'.result = pcaCall.result
  BY <1>1, <1>3 DEF CallFields
<1>8. /\ DOMAIN pcaDisk' = DiskFields
      /\ \A f \in DiskFields \ {"record"} : pcaDisk'[f] = pcaDisk[f]
      /\ pcaDisk'.record = IF pcaJob.save THEN <<s>> ELSE pcaDisk.record
  BY <1>1, <1>3 DEF DiskFields, Saved
<1>9. pcaJob.save => /\ pcaDisk'.record = <<s>> /\ pcaDisk'.record[1] = s
                     /\ pcaDisk.scores = <<>> /\ pcaDisk'.part = <<>>
  BY <1>8, NoScoresYet DEF DiskFields
<1>10. ~pcaJob.save => pcaDisk'.record = <<>>
  BY <1>8 DEF PcaIInv, RecordRight
<1>11. PcaTypeOK'
  <2>1. DiskTyped'
    BY <1>2, <1>8 DEF PcaIInv, PcaTypeOK, DiskTyped, DiskFields, Optional, Plain
  <2>2. /\ pcaCall'.pc \in Working /\ pcaCall'.resume \in BOOLEAN
        /\ pcaCall'.seen \in Nat /\ Plain(pcaCall.tail)' /\ DOMAIN pcaCall'.state = StateFields
    BY <1>2, <1>7 DEF PcaIInv, PcaTypeOK, Plain, Working
  <2> QED
    BY <1>5, <1>7, <2>1, <2>2 DEF PcaIInv, PcaTypeOK, DiskTyped
<1>12. RecordRight'
  <2>1. CASE pcaJob.save
    <3>1. SizeOf(pcaDisk.part)' = 0
      BY <1>9, <2>1 DEF SizeOf
    <3> QED
      BY <1>2, <1>3, <1>5, <1>6, <1>9, <2>1, <3>1 DEF RecordRight, JobKept
  <2>2. CASE ~pcaJob.save
    BY <1>10, <2>2 DEF RecordRight
  <2> QED
    BY <2>1, <2>2
<1>13. CallRight'
  <2>1. Resident' = Resident /\ pcaJob'.save = pcaJob.save
    BY <1>5 DEF JobKept
  <2>2. pcaCall.resume => pcaJob.save
    BY DEF PcaIInv, CallRight
  <2> QED
    BY <1>2, <1>3, <1>5, <1>6, <1>7, <1>9, <2>1, <2>2
    DEF CallRight, Working, Ending, Sealing, Writing, Fitting
<1>14. PassRight' /\ ScoresRight'
  BY <1>7 DEF PcaIInv, PassRight, ScoresRight, Writing, Fitting
<1>15. NamesRight'
  BY <1>5, <1>7, <1>8 DEF PcaIInv, NamesRight, JobKept, Working, Sealing, Fitting, Ending,
     DiskFields, Writing
<1>16. ShardsRight' /\ PcaWorkResumes'
  BY <1>3, <1>5, <1>7 DEF PcaIInv, ShardsRight, Launching, Over, JobKept, PcaWorkResumes, Fitting
<1> QED
  BY <1>11, <1>12, <1>13, <1>14, <1>15, <1>16 DEF PcaIInv

LEMMA EndCrossKeeps == ASSUME PcaIInv, EndCross PROVE PcaIInv'
<1> DEFINE c == pcaCall.state
<1>1. /\ pcaCall.pc = "cross" /\ pcaCall.at = NRows /\ pcaCall.pc \in Fitting /\ Rest
      /\ FitFound(Append(c.moments, pcaCall.sums))
  BY DEF EndCross, Fitting
<1>2. /\ pcaJob \in PcaJobs /\ StateRight(c) /\ ~Resident
  BY <1>1, AtWork DEF Working
<1>3. c.stage = "covariance_partial" /\ pcaCall.sums = SumsTo(OnGpu, NRows, c.sign)
  BY <1>1 DEF PcaIInv, PassRight
<1>4. c.moments = <<MeanSums(c.sign)>> /\ ~Wide
  BY <1>2, <1>3 DEF StateRight
<1>5. Append(c.moments, pcaCall.sums) = FitFrom(c.sign)
  BY <1>2, <1>3, <1>4, FitOfCross
<1> QED
  BY <1>1, <1>3, <1>5, FitFoundKeeps

LEMMA EndSketchKeeps == ASSUME PcaIInv, EndSketch PROVE PcaIInv'
<1> DEFINE c == pcaCall.state
<1>1. /\ pcaCall.pc \in Fitting /\ c.stage = "moments" /\ Rest
      /\ Len(c.moments) = MomentPasses + 2 /\ FitFound(c.moments)
  BY DEF EndSketch, InStage, PassesDone, Fitting
<1>2. /\ pcaJob \in PcaJobs /\ StateRight(c)
  BY <1>1, AtWork DEF Working
<1>3. Wide /\ c.moments = Passes(MomentPasses + 2, c.sign)
  BY <1>1, <1>2 DEF StateRight
<1>4. c.moments = FitFrom(c.sign)
  BY <1>2, <1>3, FitOfPasses
<1> QED
  BY <1>1, <1>4, FitFoundKeeps

LEMMA ReuseFitKeeps == ASSUME PcaIInv, ReuseFit PROVE PcaIInv'
<1> DEFINE c == pcaCall.state
<1>1. /\ pcaCall.pc = "fit" /\ c.stage = "fit" /\ pcaCall' = [pcaCall EXCEPT !.pc = "open"]
      /\ pcaDisk' = pcaDisk /\ pcaJob' = pcaJob /\ matrix' = matrix /\ shards' = shards
      /\ halted' = halted
  BY DEF ReuseFit, InStage, Rest
<1>2. DOMAIN pcaCall = CallFields /\ matrix \in Nat
  BY PcaBounds DEF PcaIInv, PcaTypeOK
<1>3. /\ DOMAIN pcaCall' = CallFields /\ pcaCall'.pc = "open"
      /\ \A f \in CallFields \ {"pc"} : pcaCall'[f] = pcaCall[f]
      /\ pcaCall'.state = c
  BY <1>1, <1>2 DEF CallFields
<1>4. JobKept
  BY <1>1, SameJob
<1>5. \A q : StateRight(q) => StateRight(q)'
  BY <1>1, <1>2, <1>4, StateLater
<1>6. PcaTypeOK'
  BY <1>1, <1>3 DEF PcaIInv, PcaTypeOK, CallFields, Optional, Plain, Working
<1>7. RecordRight'
  <2>1. pcaDisk.record # <<>> => StateRight(pcaDisk.record[1])'
    BY <1>1, <1>5 DEF PcaIInv, RecordRight
  <2> QED
    BY <1>1, <1>4, <2>1 DEF PcaIInv, RecordRight, JobKept
<1>8. CallRight'
  <2>1. StateRight(c)'
    BY <1>1, <1>5, AtWork DEF Working, Fitting
  <2> QED
    BY <1>1, <1>3, <1>4, <2>1 DEF PcaIInv, CallRight, Working, Ending, Sealing, Writing, Fitting,
       JobKept, CallFields
<1>9. PassRight' /\ ScoresRight'
  BY <1>1, <1>3 DEF PcaIInv, PassRight, ScoresRight, Writing, CallFields
<1>10. NamesRight'
  BY <1>1, <1>3, <1>4 DEF PcaIInv, NamesRight, JobKept, Working, Sealing, Fitting, Ending,
     CallFields, Writing
<1>11. ShardsRight' /\ PcaWorkResumes'
  BY <1>1, <1>3, <1>4 DEF PcaIInv, ShardsRight, Launching, Over, JobKept, PcaWorkResumes
<1> QED
  BY <1>6, <1>7, <1>8, <1>9, <1>10, <1>11 DEF PcaIInv

LEMMA OpenSinkKeeps == ASSUME PcaIInv, OpenSink PROVE PcaIInv'
<1> DEFINE c == pcaCall.state
           kept == pcaCall.resume /\ pcaDisk.part # <<>>
<1>1. /\ pcaCall.pc = "open" /\ pcaCall' = [pcaCall EXCEPT !.pc = "score", !.at = c.done]
      /\ pcaDisk' = IF kept THEN pcaDisk ELSE [pcaDisk EXCEPT !.part = <<<<>>>>]
      /\ pcaJob' = pcaJob /\ matrix' = matrix /\ shards' = shards /\ halted' = halted
  BY DEF OpenSink, Rest
<1>2. /\ pcaJob \in PcaJobs /\ StateRight(c) /\ matrix \in Nat /\ ~Resident
      /\ DOMAIN pcaCall = CallFields /\ DOMAIN pcaDisk = DiskFields
  BY <1>1, AtWork DEF Working, PcaIInv, PcaTypeOK
<1>3. c.stage = "fit" /\ c.fit = FitFrom(c.sign) /\ c.done \in 0..NRows
  BY <1>1, <1>2 DEF PcaIInv, CallRight, StateRight
<1>4. /\ DOMAIN pcaCall' = CallFields /\ pcaCall'.pc = "score" /\ pcaCall'.at = c.done
      /\ \A f \in CallFields \ {"pc", "at"} : pcaCall'[f] = pcaCall[f]
      /\ pcaCall'.state = c /\ pcaCall'.tail = pcaCall.tail
  BY <1>1, <1>2 DEF CallFields
<1>5. /\ DOMAIN pcaDisk' = DiskFields
      /\ \A f \in DiskFields \ {"part"} : pcaDisk'[f] = pcaDisk[f]
      /\ pcaDisk'.part = IF kept THEN pcaDisk.part ELSE <<<<>>>>
  BY <1>1, <1>2 DEF DiskFields
<1>6. pcaCall.tail = <<>> /\ pcaDisk.scores = <<>>
  BY <1>1 DEF PcaIInv, ScoresRight, NamesRight, Writing, Working, Sealing
<1>7. pcaJob.save => /\ pcaDisk.record # <<>> /\ pcaDisk.record[1].stage = "fit"
                     /\ pcaDisk.record[1].sign = c.sign /\ pcaDisk.record[1].fit = c.fit
                     /\ pcaDisk.record[1].done = c.done
                     /\ SizeOf(pcaDisk.part) >= c.done
                     /\ c.done > 0 => Begins(pcaDisk.part[1], c.done, c.fit, c.sign)
  <2>1. ASSUME pcaJob.save
        PROVE  /\ pcaDisk.record # <<>> /\ pcaDisk.record[1].stage = "fit"
               /\ pcaDisk.record[1].sign = c.sign /\ pcaDisk.record[1].fit = c.fit
               /\ pcaDisk.record[1].done = c.done
    BY <1>1, <1>3, <2>1 DEF PcaIInv, CallRight, Working
  <2> QED
    BY <1>6, <2>1 DEF PcaIInv, RecordRight
<1>8. ~kept => c.done = 0
  <2>1. CASE ~pcaCall.resume
    BY <1>1, <2>1 DEF PcaIInv, CallRight, Working
  <2>2. CASE pcaCall.resume /\ pcaDisk.part = <<>>
    <3>1. pcaJob.save
      BY <2>2 DEF PcaIInv, CallRight
    <3>2. SizeOf(pcaDisk.part) = 0
      BY <2>2 DEF SizeOf
    <3> QED
      BY <1>3, <1>7, <3>1, <3>2
  <2> QED
    BY <2>1, <2>2
<1>9. Plain(<<>>) /\ Len(<<>>) = 0
  <2>1. <<>> \in Seq({<<>>[i] : i \in DOMAIN <<>>})
    OBVIOUS
  <2> QED
    BY <2>1 DEF Plain
<1>10. /\ pcaDisk'.part # <<>> /\ Optional(pcaDisk.part)' /\ Plain(pcaDisk'.part[1])
       /\ c.done <= Len(pcaDisk'.part[1]) /\ SizeOf(pcaDisk.part)' = Len(pcaDisk'.part[1])
       /\ Begins(pcaDisk'.part[1], c.done, c.fit, c.sign)
  <2>1. CASE kept
    <3>1. pcaDisk'.part = pcaDisk.part /\ pcaDisk.part # <<>> /\ pcaJob.save
      BY <1>5, <2>1 DEF PcaIInv, CallRight
    <3>2. SizeOf(pcaDisk.part) = Len(pcaDisk.part[1])
      BY <3>1 DEF SizeOf
    <3>3. Begins(pcaDisk.part[1], c.done, c.fit, c.sign)
      BY <1>3, <1>7, <3>1, <3>2 DEF Begins
    <3>4. SizeOf(pcaDisk.part)' = Len(pcaDisk.part[1])
      BY <3>1 DEF SizeOf
    <3> QED
      BY <1>7, <3>1, <3>2, <3>3, <3>4 DEF PcaIInv, PcaTypeOK, Optional, Plain
  <2>2. CASE ~kept
    <3>1. pcaDisk'.part = <<<<>>>> /\ pcaDisk'.part[1] = <<>> /\ pcaDisk'.part # <<>>
      BY <1>5, <2>2
    <3>2. Begins(<<>>, c.done, c.fit, c.sign)
      BY <1>8, <1>9, <2>2 DEF Begins
    <3>3. SizeOf(pcaDisk.part)' = 0
      BY <1>9, <3>1 DEF SizeOf
    <3> QED
      BY <1>8, <1>9, <2>2, <3>1, <3>2, <3>3 DEF Optional, Plain
  <2> QED
    BY <2>1, <2>2
<1> HIDE DEF kept
<1>11. JobKept
  BY <1>1, SameJob
<1>12. \A q : StateRight(q) => StateRight(q)'
  BY <1>1, <1>2, <1>11, StateLater
<1>13. PcaTypeOK'
  <2>1. DiskTyped'
    BY <1>5, <1>10 DEF PcaIInv, PcaTypeOK, DiskTyped, DiskFields, Optional
  <2>2. /\ pcaCall'.pc \in Working /\ pcaCall'.resume \in BOOLEAN /\ pcaCall'.at \in Nat
        /\ pcaCall'.seen \in Nat /\ Plain(pcaCall.tail)' /\ DOMAIN pcaCall'.state = StateFields
    BY <1>2, <1>3, <1>4, JobFacts DEF PcaIInv, PcaTypeOK, Plain, Working, Writing, CallFields
  <2> QED
    BY <1>1, <1>4, <2>1, <2>2 DEF PcaIInv, PcaTypeOK, DiskTyped
<1>14. RecordRight'
  <2>0. pcaDisk'.record = pcaDisk.record
    BY <1>5 DEF DiskFields
  <2>1. ASSUME pcaDisk.record # <<>>
        PROVE  pcaJob.save /\ ~Resident' /\ StateRight(pcaDisk.record[1])'
    BY <1>2, <1>11, <1>12, <2>0, <2>1 DEF PcaIInv, RecordRight, JobKept
  <2> QED
    BY <1>1, <1>7, <1>10, <2>0, <2>1 DEF RecordRight
<1>15. CallRight'
  <2>1. StateRight(c)'
    BY <1>2, <1>4, <1>12
  <2>2. pcaDisk'.record = pcaDisk.record
    BY <1>5 DEF DiskFields
  <2> QED
    BY <1>1, <1>3, <1>4, <1>11, <2>1, <2>2 DEF PcaIInv, CallRight, Working, Ending, Sealing,
       Writing, Fitting, JobKept, CallFields
<1>16. PassRight'
  BY <1>4 DEF PassRight
<1>17. ScoresRight'
  <2>1. pcaJob.save => pcaDisk'.record[1].done = c.done
    BY <1>5, <1>7 DEF DiskFields
  <2>2. pcaCall'.tail = <<>> /\ Scored' = c.done /\ NRows' = NRows /\ NRows \in Nat
    BY <1>2, <1>3, <1>4, <1>6, <1>9, <1>11, JobFacts DEF Scored, JobKept
  <2> QED
    BY <1>1, <1>3, <1>4, <1>9, <1>10, <2>1, <2>2 DEF ScoresRight, Writing
<1>18. NamesRight'
  BY <1>1, <1>4, <1>5, <1>6, <1>11 DEF PcaIInv, NamesRight, JobKept, Working, Sealing, Fitting,
     Ending, CallFields, DiskFields, Writing
<1>19. ShardsRight' /\ PcaWorkResumes'
  BY <1>1, <1>2, <1>4, <1>11 DEF PcaIInv, ShardsRight, Launching, Over, JobKept, PcaWorkResumes
<1> QED
  BY <1>13, <1>14, <1>15, <1>16, <1>17, <1>18, <1>19 DEF PcaIInv

-----------------------------------------------------------------------------
(* Calls begin, and take up the record.                                    *)

LEMMA EmptyFile == Plain(<<>>) /\ Len(<<>>) = 0
<1>1. <<>> \in Seq({<<>>[i] : i \in DOMAIN <<>>})
  OBVIOUS
<1> QED
  BY <1>1 DEF Plain

(* A record whose file has not changed is as right as before. *)
LEMMA RecordStays ==
    ASSUME PcaIInv, pcaJob' = pcaJob, matrix' \in Nat, matrix <= matrix',
           pcaDisk'.record = pcaDisk.record, pcaDisk'.part = pcaDisk.part,
           pcaDisk'.scores = pcaDisk.scores
    PROVE  RecordRight'
<1>1. JobKept /\ matrix \in Nat
  BY SameJob, PcaBounds DEF PcaIInv, PcaTypeOK
<1>2. \A q : StateRight(q) => StateRight(q)'
  BY <1>1, StateLater
<1>3. pcaDisk.record # <<>> => StateRight(pcaDisk.record[1])'
  BY <1>2 DEF PcaIInv, RecordRight
<1>4. SizeOf(pcaDisk.part)' = SizeOf(pcaDisk.part)
  BY DEF SizeOf
<1> QED
  BY <1>1, <1>3, <1>4 DEF PcaIInv, RecordRight, JobKept

LEMMA CallPcaKeeps ==
    ASSUME PcaIInv, NEW resume \in BOOLEAN, CallPca(resume) PROVE PcaIInv'
<1>1. /\ pcaCall.pc \in Over /\ (resume => pcaJob.save) /\ ~Resident
      /\ pcaJob' = pcaJob /\ matrix' = matrix /\ pcaDisk' = pcaDisk /\ shards' = shards
      /\ halted' = halted
  BY DEF CallPca
<1>2. /\ pcaJob \in PcaJobs /\ matrix \in Nat /\ matrix \in 0..PcaVersions /\ halted \in Nat /\ DiskTyped
  BY PcaBounds DEF PcaIInv, PcaTypeOK, DiskTyped
<1>3. DiskTyped'
  BY <1>1, <1>2 DEF DiskTyped, Optional, Plain
<1>4. RecordRight' /\ JobKept
  BY <1>1, <1>2, RecordStays, SameJob
<1>5. CASE OutputsFree(resume)
  <2>1. pcaCall' = [AtRest("prepare", resume) EXCEPT !.seen = matrix]
    BY <1>5 DEF CallPca
  <2>2. /\ DOMAIN pcaCall' = CallFields /\ pcaCall'.pc = "prepare" /\ pcaCall'.resume = resume
        /\ pcaCall'.seen = matrix /\ pcaCall'.at = 0 /\ pcaCall'.tail = <<>>
        /\ pcaCall'.result = <<>> /\ DOMAIN pcaCall'.state = StateFields
    BY <2>1 DEF AtRest, CallFields, Fresh, StateFields
  <2>3. pcaDisk.scores = <<>> /\ (pcaDisk.part # <<>> => resume)
    BY <1>5 DEF OutputsFree
  <2>4. PcaTypeOK'
    BY <1>1, <1>2, <1>3, <2>2, EmptyFile DEF PcaTypeOK, DiskTyped, Plain
  <2>5. CallRight' /\ PassRight' /\ ScoresRight'
    BY <1>1, <1>2, <1>4, <2>2, <2>3 DEF CallRight, PassRight, ScoresRight, Working, Ending,
       Fitting, Writing, Sealing, JobKept
  <2>6. NamesRight'
    BY <1>1, <1>4, <2>2, <2>3 DEF PcaIInv, NamesRight, JobKept, Working, Sealing, Ending
  <2>7. ShardsRight' /\ PcaWorkResumes'
    BY <1>1, <1>4, <2>2 DEF PcaIInv, ShardsRight, Launching, Over, JobKept, PcaWorkResumes
  <2> QED
    BY <1>4, <2>4, <2>5, <2>6, <2>7 DEF PcaIInv
<1>6. CASE ~OutputsFree(resume)
  <2>1. pcaCall' = AtRest("refused", resume) /\ "refused" \in Over
    BY <1>6 DEF CallPca, Over
  <2>2. pcaCall'.pc = "refused" /\ pcaCall'.resume = resume /\ pcaCall'.result = <<>>
    BY <2>1 DEF AtRest
  <2>3. NamesRight'
    BY <1>1, <1>4, <2>2 DEF PcaIInv, NamesRight, JobKept, Working, Sealing, Ending, Fitting, Writing
  <2>4. resume => pcaDisk.scores # <<>>
    BY <1>6 DEF OutputsFree, PcaIInv, NamesRight
  <2>5. PcaWorkResumes'
    BY <1>1, <2>2, <2>4 DEF PcaWorkResumes
  <2> QED
    BY <1>1, <1>2, <1>3, <1>4, <2>1, <2>3, <2>5, AtRestRight
<1> QED
  BY <1>5, <1>6

LEMMA PrepareKeeps == ASSUME PcaIInv, Prepare PROVE PcaIInv'
<1> DEFINE begun == pcaDisk.record # <<>>
           no == pcaJob.save /\ (IF pcaCall.resume THEN ~begun \/ ~PcaAccepts(pcaDisk.record[1])
                                 ELSE begun)
<1>1. /\ pcaCall.pc = "prepare"
      /\ pcaJob' = pcaJob /\ matrix' = matrix /\ shards' = shards /\ halted' = halted
  BY DEF Prepare
<1>2. /\ pcaJob \in PcaJobs /\ matrix \in Nat /\ halted \in Nat /\ DiskTyped
      /\ pcaCall.resume \in BOOLEAN /\ DOMAIN pcaCall = CallFields /\ pcaCall.at \in Nat
      /\ pcaCall.seen \in Nat
  BY PcaBounds DEF PcaIInv, PcaTypeOK, DiskTyped
<1>3. /\ ~Resident /\ (pcaCall.resume => pcaJob.save) /\ pcaCall.seen <= matrix
      /\ (pcaDisk.part # <<>> => pcaCall.resume) /\ pcaDisk.scores = <<>> /\ pcaCall.tail = <<>>
  BY <1>1 DEF PcaIInv, CallRight, NamesRight, ScoresRight, Working, Writing
<1>4. JobKept
  BY <1>1, SameJob
<1>5. CASE no
  <2>1. pcaCall' = AtRest("refused", pcaCall.resume) /\ pcaDisk' = pcaDisk /\ "refused" \in Over
    BY <1>5 DEF Prepare, PcaEnds, Over
  <2>2. pcaCall'.pc = "refused" /\ pcaCall'.resume = pcaCall.resume /\ pcaCall'.result = <<>>
    BY <2>1 DEF AtRest
  <2>3. RecordRight'
    BY <1>1, <1>2, <2>1, RecordStays
  <2>4. DiskTyped'
    BY <1>2, <2>1 DEF DiskTyped, Optional, Plain
  <2>5. NamesRight'
    BY <1>1, <1>3, <1>4, <2>1, <2>2 DEF PcaIInv, NamesRight, JobKept, Working, Sealing, Ending,
       Fitting, Writing
  <2>6. pcaCall.resume => pcaDisk.record = <<>> \/ pcaDisk.record[1].sign # matrix
    <3> SUFFICES ASSUME pcaCall.resume, begun PROVE pcaDisk.record[1].sign # matrix
      OBVIOUS
    <3> DEFINE r == pcaDisk.record[1]
    <3>1. ~PcaAccepts(r)
      BY <1>5
    <3>2. /\ StateRight(r)
          /\ IF r.stage = "fit" THEN SizeOf(pcaDisk.part) >= r.done ELSE pcaDisk.part = <<>>
      BY <1>3 DEF PcaIInv, RecordRight
    <3>3. r.stage # "fit" => r.done = 0
      BY <3>2 DEF StateRight
    <3> HIDE DEF r
    <3>4. r.sign # matrix
      BY <3>1, <3>2, <3>3 DEF PcaAccepts
    <3> QED
      BY <3>4 DEF r
  <2>7. PcaWorkResumes'
    BY <1>1, <2>1, <2>2, <2>6 DEF PcaWorkResumes
  <2> QED
    BY <1>1, <1>2, <1>3, <2>1, <2>3, <2>4, <2>5, <2>7, AtRestRight
<1>6. CASE ~no
  <2>1. PICK s : s = IF pcaCall.resume THEN pcaDisk.record[1] ELSE Fresh(matrix)
    OBVIOUS
  <2>2. pcaCall' = [pcaCall EXCEPT !.pc = "fit", !.state = s] /\ pcaDisk' = Saved(s)
    BY <1>6, <2>1 DEF Prepare
  <2>3. /\ DOMAIN pcaCall' = CallFields /\ pcaCall'.pc = "fit" /\ pcaCall'.state = s
        /\ \A f \in CallFields \ {"pc", "state"} : pcaCall'[f] = pcaCall[f]
    BY <1>2, <2>2 DEF CallFields
  <2>4. /\ DOMAIN pcaDisk' = DiskFields
        /\ \A f \in DiskFields \ {"record"} : pcaDisk'[f] = pcaDisk[f]
        /\ pcaDisk'.record = IF pcaJob.save THEN <<s>> ELSE pcaDisk.record
    BY <1>2, <2>2 DEF Saved, DiskFields, DiskTyped
  <2>5. pcaCall.resume => /\ begun /\ PcaAccepts(pcaDisk.record[1]) /\ pcaDisk'.record = pcaDisk.record
    <3>1. pcaCall.resume => begun /\ PcaAccepts(pcaDisk.record[1])
      BY <1>2, <1>3, <1>6
    <3>2. pcaCall.resume => pcaDisk.record = <<pcaDisk.record[1]>>
      BY <1>2, <3>1 DEF DiskTyped, Optional
    <3> QED
      BY <1>3, <2>1, <2>4, <3>1, <3>2
  <2>6. /\ StateRight(s) /\ s.sign = matrix /\ DOMAIN s = StateFields
        /\ ~pcaCall.resume => s.done = 0 /\ s.stage = "pending"
    <3>1. CASE pcaCall.resume
      BY <1>2, <2>1, <2>5, <3>1 DEF PcaIInv, RecordRight, PcaAccepts, DiskTyped
    <3>2. CASE ~pcaCall.resume
      <4>1. /\ s.sign = matrix /\ s.stage = "pending" /\ s.rows = 0 /\ s.sums = <<>>
            /\ s.moments = <<>> /\ s.fit = <<>> /\ s.done = 0 /\ DOMAIN s = StateFields
        BY <2>1, <3>2 DEF Fresh, StateFields
      <4>2. NRows \in Nat /\ MomentPasses \in 0..2
        BY <1>2, JobFacts
      <4>3. Len(<<>>) = 0 /\ Passes(0, matrix) = <<>>
        BY EmptyFile DEF Passes
      <4>4. StateRight(s)
        BY <1>2, <4>1, <4>2, <4>3 DEF StateRight, PcaStages
      <4> QED
        BY <3>2, <4>1, <4>4
    <3> QED
      BY <3>1, <3>2
  <2>7. StateRight(s)'
    BY <1>1, <1>2, <1>4, <2>6, StateLater
  <2>8. PcaTypeOK'
    <3>1. DiskTyped'
      BY <1>2, <2>4, <2>6 DEF DiskTyped, DiskFields, Optional, Plain
    <3>2. /\ pcaCall'.pc \in Working /\ pcaCall'.resume \in BOOLEAN /\ pcaCall'.at \in Nat
          /\ pcaCall'.seen \in Nat /\ pcaCall'.tail = <<>> /\ DOMAIN pcaCall'.state = StateFields
      BY <1>2, <1>3, <2>3, <2>6 DEF Working, Fitting, CallFields
    <3> QED
      BY <1>1, <2>3, <3>1, <3>2, EmptyFile DEF PcaIInv, PcaTypeOK, DiskTyped, Plain
  <2>9. RecordRight'
    <3>1. CASE pcaCall.resume
      <4>1. /\ pcaDisk'.record = pcaDisk.record /\ pcaDisk'.part = pcaDisk.part
            /\ pcaDisk'.scores = pcaDisk.scores
        BY <2>4, <2>5, <3>1 DEF DiskFields
      <4> QED
        BY <1>1, <1>2, <4>1, RecordStays
    <3>2. CASE ~pcaCall.resume /\ pcaJob.save
      <4>1. pcaDisk'.record[1] = s /\ pcaDisk'.part = <<>> /\ s.stage = "pending"
        BY <1>3, <2>4, <2>6, <3>2 DEF DiskFields
      <4> QED
        BY <1>1, <1>3, <1>4, <2>7, <3>2, <4>1 DEF RecordRight, JobKept
    <3>3. CASE ~pcaJob.save
      <4>1. pcaDisk.record = <<>>
        BY <3>3 DEF PcaIInv, RecordRight
      <4> QED
        BY <2>4, <3>3, <4>1 DEF RecordRight
    <3> QED
      BY <3>1, <3>2, <3>3
  <2>10. CallRight'
    <3>1. Resident' = Resident /\ pcaJob'.save = pcaJob.save
      BY <1>1, <1>4 DEF JobKept
    <3>2. pcaJob.save => pcaDisk'.record # <<>> /\ pcaDisk'.record[1] = s
      BY <2>4
    <3>3. pcaCall'.resume = pcaCall.resume /\ pcaCall'.seen = pcaCall.seen
      BY <2>3 DEF CallFields
    <3> QED
      BY <1>1, <1>3, <2>3, <2>6, <2>7, <3>1, <3>2, <3>3
      DEF CallRight, Working, Ending, Sealing, Writing, Fitting
  <2>11. PassRight' /\ ScoresRight'
    BY <1>3, <2>3 DEF PassRight, ScoresRight, Writing, CallFields
  <2>12. NamesRight'
    BY <1>1, <1>3, <1>4, <2>3, <2>4 DEF PcaIInv, NamesRight, JobKept, Working, Sealing, Fitting,
       Ending, CallFields, DiskFields, Writing
  <2>13. ShardsRight' /\ PcaWorkResumes'
    BY <1>1, <1>3, <1>4, <2>3 DEF PcaIInv, ShardsRight, Launching, Over, JobKept, PcaWorkResumes
  <2> QED
    BY <2>8, <2>9, <2>10, <2>11, <2>12, <2>13 DEF PcaIInv
<1> QED
  BY <1>5, <1>6

-----------------------------------------------------------------------------
(* Scores are written.                                                     *)

LEMMA AtScores ==
    ASSUME PcaIInv, pcaCall.pc \in Writing
    PROVE  /\ pcaJob \in PcaJobs /\ ~Resident /\ matrix \in Nat /\ NRows \in Nat /\ halted \in Nat
           /\ DOMAIN pcaCall = CallFields /\ DOMAIN pcaDisk = DiskFields /\ DiskTyped
           /\ pcaCall.at \in Nat /\ Plain(pcaCall.tail) /\ Len(pcaCall.tail) \in Nat
           /\ Scored = pcaCall.at + Len(pcaCall.tail) /\ Scored \in 0..NRows
           /\ pcaCall.state.stage = "fit" /\ pcaCall.state.fit = FitFrom(pcaCall.state.sign)
           /\ pcaCall.state.sign \in 0..matrix /\ StateRight(pcaCall.state)
           /\ DOMAIN pcaCall.state = StateFields
           /\ pcaDisk.part = <<pcaDisk.part[1]>> /\ Plain(pcaDisk.part[1])
           /\ Begins(pcaDisk.part[1], pcaCall.at, pcaCall.state.fit, pcaCall.state.sign)
           /\ \A i \in 1..Len(pcaCall.tail) :
                 pcaCall.tail[i] = ScoreAt(pcaCall.state.fit, pcaCall.at + i, pcaCall.state.sign)
           /\ pcaDisk.scores = <<>>
           /\ pcaJob.save => /\ pcaDisk.record # <<>> /\ pcaDisk.record[1].stage = "fit"
                             /\ pcaDisk.record[1].sign = pcaCall.state.sign
                             /\ pcaDisk.record[1].fit = pcaCall.state.fit
                             /\ pcaDisk.record[1].done = pcaCall.at
           /\ ~pcaJob.save => pcaDisk.record = <<>>
           /\ Readable => pcaCall.seen = pcaCall.state.sign
<1> DEFINE c == pcaCall.state
<1>1. pcaCall.pc \in Working
  BY DEF Working
<1>2. /\ pcaJob \in PcaJobs /\ ~Resident /\ matrix \in Nat /\ NRows \in Nat
      /\ StateRight(c) /\ c.sign \in 0..matrix /\ DOMAIN c = StateFields
      /\ Readable => pcaCall.seen = c.sign
  BY <1>1, AtWork, JobFacts
<1>3. /\ DOMAIN pcaCall = CallFields /\ DOMAIN pcaDisk = DiskFields /\ DiskTyped
      /\ pcaCall.at \in Nat /\ Plain(pcaCall.tail) /\ halted \in Nat
  BY DEF PcaIInv, PcaTypeOK, DiskTyped
<1>4. Len(pcaCall.tail) \in Nat
  BY <1>3, LenProperties DEF Plain
<1>5. c.stage = "fit" /\ c.fit = FitFrom(c.sign)
  BY <1>2 DEF PcaIInv, CallRight, StateRight
<1>6. /\ pcaDisk.part # <<>>
      /\ Begins(pcaDisk.part[1], pcaCall.at, c.fit, c.sign) /\ Scored <= NRows
      /\ \A i \in 1..Len(pcaCall.tail) : pcaCall.tail[i] = ScoreAt(c.fit, pcaCall.at + i, c.sign)
      /\ pcaJob.save => pcaDisk.record[1].done = pcaCall.at
  BY DEF PcaIInv, ScoresRight
<1>7. Scored = pcaCall.at + Len(pcaCall.tail) /\ Scored \in 0..NRows
  BY <1>2, <1>3, <1>4, <1>6 DEF Scored
<1>8. pcaDisk.part = <<pcaDisk.part[1]>> /\ Plain(pcaDisk.part[1])
  BY <1>3, <1>6 DEF DiskTyped, Optional
<1>9. pcaDisk.scores = <<>>
  BY <1>1 DEF PcaIInv, NamesRight, Sealing, Writing
<1>10. pcaJob.save => /\ pcaDisk.record # <<>> /\ pcaDisk.record[1].stage = "fit"
                      /\ pcaDisk.record[1].sign = c.sign /\ pcaDisk.record[1].fit = c.fit
  BY <1>1, <1>5 DEF PcaIInv, CallRight
<1>11. ~pcaJob.save => pcaDisk.record = <<>>
  BY DEF PcaIInv, RecordRight
<1> QED
  BY <1>2, <1>3, <1>4, <1>5, <1>6, <1>7, <1>8, <1>9, <1>10, <1>11

(* What writing a part of the stream to the file leaves. *)
LEMMA FlushedIs ==
    ASSUME PcaIInv, pcaCall.pc \in Writing, NEW n \in 0..Len(pcaCall.tail)
    PROVE  \E file :
              /\ Flushed(SubSeq(pcaCall.tail, 1, n)) = <<file>> /\ Plain(file)
              /\ Len(file) >= Len(pcaDisk.part[1])
              /\ Begins(file, pcaCall.at, pcaCall.state.fit, pcaCall.state.sign)
              /\ Begins(file, pcaCall.at + n, pcaCall.state.fit, pcaCall.state.sign)
<1> DEFINE c == pcaCall.state
           rows == SubSeq(pcaCall.tail, 1, n)
           old == pcaDisk.part[1]
           file == Overwritten(old, pcaCall.at, rows)
<1>1. /\ Plain(old) /\ pcaCall.at \in Nat /\ Begins(old, pcaCall.at, c.fit, c.sign)
      /\ Plain(pcaCall.tail) /\ Len(pcaCall.tail) \in Nat
      /\ \A i \in 1..Len(pcaCall.tail) : pcaCall.tail[i] = ScoreAt(c.fit, pcaCall.at + i, c.sign)
  BY AtScores
<1>2. Plain(rows) /\ Len(rows) = n /\ \A i \in 1..n : rows[i] = pcaCall.tail[i]
  BY <1>1, PlainPart
<1>3. \A i \in 1..Len(rows) : rows[i] = ScoreAt(c.fit, pcaCall.at + i, c.sign)
  BY <1>1, <1>2
<1>4. Flushed(rows) = <<file>>
  BY DEF Flushed
<1>5. /\ Plain(file) /\ Len(file) >= Len(old)
      /\ Begins(file, pcaCall.at + Len(rows), c.fit, c.sign) /\ Begins(file, pcaCall.at, c.fit, c.sign)
  <2> DEFINE at == pcaCall.at
             fit == c.fit
             v == c.sign
  <2>1. /\ Plain(old) /\ Plain(rows) /\ at \in Nat /\ Begins(old, at, fit, v)
        /\ \A i \in 1..Len(rows) : rows[i] = ScoreAt(fit, at + i, v)
    BY <1>1, <1>2, <1>3
  <2>2. file = Overwritten(old, at, rows)
    OBVIOUS
  <2> HIDE DEF at, fit, v, rows, old, file
  <2>3. /\ Plain(Overwritten(old, at, rows)) /\ Len(Overwritten(old, at, rows)) >= Len(old)
        /\ Begins(Overwritten(old, at, rows), at + Len(rows), fit, v)
        /\ Begins(Overwritten(old, at, rows), at, fit, v)
    BY <2>1, ScoresBehind
  <2>4. Plain(file) /\ Len(file) >= Len(old) /\ Begins(file, at + Len(rows), fit, v)
        /\ Begins(file, at, fit, v)
    BY <2>2, <2>3
  <2> QED
    BY <2>4 DEF at, fit, v
<1> HIDE DEF file, rows, old
<1> QED
  BY <1>2, <1>4, <1>5 DEF rows, old

LEMMA WholeTail ==
    ASSUME PcaIInv, pcaCall.pc \in Writing
    PROVE  SubSeq(pcaCall.tail, 1, Len(pcaCall.tail)) = pcaCall.tail
           /\ Len(pcaCall.tail) \in 0..Len(pcaCall.tail)
  BY AtScores, SubSeqFull DEF Plain

LEMMA WriteMoves ==
    ASSUME PcaIInv, pcaCall.pc \in Writing, Rest, DOMAIN pcaCall' = CallFields,
           pcaCall'.pc \in Writing, pcaCall'.at \in Nat, Plain(pcaCall.tail)',
           \A f \in {"resume", "seen", "state", "result"} : pcaCall'[f] = pcaCall[f],
           \A f \in DiskFields \ {"record", "part"} : pcaDisk'[f] = pcaDisk[f],
           DiskTyped', RecordRight', ScoresRight',
           pcaJob.save => /\ pcaDisk'.record # <<>>
                          /\ pcaDisk'.record[1].sign = pcaCall.state.sign
                          /\ pcaDisk'.record[1].stage = "fit"
                          /\ pcaDisk'.record[1].fit = pcaCall.state.fit
    PROVE  PcaIInv'
<1> DEFINE c == pcaCall.state
<1>1. /\ pcaJob' = pcaJob /\ matrix' = matrix /\ shards' = shards /\ halted' = halted
  BY DEF Rest
<1>2. /\ JobKept /\ ~Resident /\ matrix \in Nat /\ c.stage = "fit" /\ StateRight(c)
      /\ pcaCall'.state = c /\ pcaDisk.scores = <<>>
  BY <1>1, SameJob, AtScores
<1>3. StateRight(c)'
  <2>1. \A q : StateRight(q) => StateRight(q)'
    BY <1>1, <1>2, StateLater
  <2> QED
    BY <1>2, <2>1
<1>4. PcaTypeOK'
  <2>1. pcaCall'.pc \in Working /\ DOMAIN pcaCall'.state = StateFields
        /\ pcaCall'.resume \in BOOLEAN /\ pcaCall'.seen \in Nat
    BY DEF Working, PcaIInv, PcaTypeOK
  <2> QED
    BY <1>1, <2>1 DEF PcaIInv, PcaTypeOK, DiskTyped
<1>5. CallRight'
  <2>1. pcaCall.pc \in Working /\ Resident' = Resident /\ pcaJob'.save = pcaJob.save
    BY <1>1, <1>2 DEF Working, JobKept
  <2>2. /\ pcaCall.seen <= matrix /\ pcaCall.seen <= c.sign /\ (~pcaCall.resume => c.done = 0)
        /\ (pcaCall.resume => pcaJob.save)
    BY <2>1 DEF PcaIInv, CallRight
  <2> QED
    BY <1>1, <1>2, <1>3, <2>1, <2>2 DEF CallRight, Working, Ending, Sealing, Writing, Fitting
<1>6. PassRight'
  BY DEF PassRight, Writing
<1>7. NamesRight'
  BY <1>1, <1>2 DEF PcaIInv, NamesRight, JobKept, Working, Sealing, Fitting, Ending, DiskFields,
     Writing
<1>8. ShardsRight' /\ PcaWorkResumes'
  BY <1>1, <1>2 DEF PcaIInv, ShardsRight, Launching, Over, JobKept, PcaWorkResumes, Writing
<1> QED
  BY <1>4, <1>5, <1>6, <1>7, <1>8 DEF PcaIInv

LEMMA ScoreChunkKeeps == ASSUME PcaIInv, ScoreChunk PROVE PcaIInv'
<1> DEFINE c == pcaCall.state
           rows == RowRange(Scored, Scored + CountAt(Scored), pcaCall.seen)
           n == CountAt(Scored)
           more == [i \in DOMAIN rows |-> ScoreOf(c.fit, rows[i])]
           old == pcaCall.tail
<1>1. pcaCall.pc = "score" /\ Scored < NRows /\ Rest /\ pcaCall.pc \in Writing
      /\ (pcaJob.save => old = <<>>)
  BY DEF ScoreChunk, Writing
<1>2. CASE ~Readable
  <2>1. pcaDisk' = [pcaDisk EXCEPT !.part = Flushed(old)] /\ PcaEnds("idle")
    BY <1>2 DEF ScoreChunk
  <2>2. PICK file : /\ Flushed(SubSeq(old, 1, Len(old))) = <<file>> /\ Plain(file)
                    /\ Begins(file, pcaCall.at, c.fit, c.sign)
    BY <1>1, WholeTail, FlushedIs
  <2>3. Flushed(old) = <<file>>
    BY <1>1, <2>2, WholeTail
  <2>4. /\ DOMAIN pcaDisk' = DiskFields /\ pcaDisk'.part = <<file>>
        /\ pcaDisk'.record = pcaDisk.record /\ pcaDisk'.scores = pcaDisk.scores
        /\ pcaDisk'.manifest = pcaDisk.manifest /\ pcaDisk'.init = pcaDisk.init
        /\ pcaDisk'.initPart = pcaDisk.initPart
    BY <1>1, <2>1, <2>3, AtScores DEF DiskFields
  <2> QED
    BY <1>1, <2>1, <2>2, <2>4, AtScores, CallStops DEF PcaEnds, Rest
<1>3. CASE Readable
  <2>1. pcaCall' = [pcaCall EXCEPT !.tail = @ \o more] /\ pcaDisk' = pcaDisk
    BY <1>3 DEF ScoreChunk
  <2>2. /\ pcaJob \in PcaJobs /\ NRows \in Nat /\ Scored \in 0..NRows /\ pcaCall.seen = c.sign
        /\ Scored = pcaCall.at + Len(old) /\ pcaCall.at \in Nat /\ Len(old) \in Nat /\ Plain(old)
        /\ DOMAIN pcaCall = CallFields /\ matrix \in Nat /\ DiskTyped
    BY <1>1, <1>3, AtScores
  <2>3. n \in Nat /\ n <= NRows - Scored
    <3>1. pcaJob.chunk \in Nat /\ NRows - Scored \in Nat
      BY <2>2, JobFacts
    <3>2. n = Min({pcaJob.chunk, NRows - Scored})
      BY DEF CountAt
    <3> QED
      BY <3>1, <3>2, MinOfTwo
  <2>4. more = [i \in 1..n |-> ScoreAt(c.fit, Scored + i, c.sign)]
    <3>1. rows = [i \in 1..n |-> RowAt(Scored + i, c.sign)]
      <4>1. (Scored + n) - Scored = n
        BY <2>2, <2>3
      <4>2. rows = [i \in 1..((Scored + n) - Scored) |->
                       [row |-> Scored + i, of |-> pcaCall.seen]]
        BY DEF RowRange
      <4> HIDE DEF rows, n
      <4> QED
        BY <2>2, <4>1, <4>2 DEF RowAt
    <3> QED
      BY <3>1 DEF ScoreAt
  <2> HIDE DEF more, n
  <2>5. old \o more = [i \in 1..(Len(old) + n) |-> IF i <= Len(old) THEN old[i] ELSE more[i - Len(old)]]
    <3>1. old = [i \in 1..Len(old) |-> old[i]]
      BY <2>2, LenProperties DEF Plain
    <3>2. more = [i \in 1..n |-> more[i]]
      BY <2>4
    <3>3. PICK m \in Nat : m = Len(old)
      BY <2>2
    <3>4. old = [i \in 1..m |-> old[i]]
      BY <3>1, <3>3
    <3> HIDE DEF old
    <3>5. old \o more = [i \in 1..(m + n) |-> IF i <= m THEN old[i] ELSE more[i - m]]
      BY <2>3, <3>2, <3>4, BuiltJoin
    <3> QED
      BY <3>3, <3>5
  <2>6. /\ Plain(old \o more) /\ Len(old \o more) = Len(old) + n
        /\ \A i \in 1..(Len(old) + n) : (old \o more)[i] = ScoreAt(c.fit, pcaCall.at + i, c.sign)
    <3> DEFINE new == old \o more
               m == Len(old) + n
    <3>1. m \in Nat /\ new = [i \in 1..m |-> new[i]]
      BY <2>2, <2>3, <2>5
    <3>2. \A i \in 1..m : new[i] = ScoreAt(c.fit, pcaCall.at + i, c.sign)
      <4> SUFFICES ASSUME NEW i \in 1..m PROVE new[i] = ScoreAt(c.fit, pcaCall.at + i, c.sign)
        OBVIOUS
      <4>0. new[i] = IF i <= Len(old) THEN old[i] ELSE more[i - Len(old)]
        BY <2>5
      <4>1. CASE i <= Len(old)
        <5>1. i \in 1..Len(old)
          BY <2>2, <2>3, <4>1
        <5>2. old[i] = ScoreAt(c.fit, pcaCall.at + i, c.sign)
          BY <1>1, <5>1, AtScores
        <5> QED
          BY <4>0, <4>1, <5>2
      <4>2. CASE ~(i <= Len(old))
        <5>0. /\ i \in Nat /\ i <= Len(old) + n /\ Scored = pcaCall.at + Len(old)
              /\ pcaCall.at \in Nat /\ Len(old) \in Nat /\ n \in Nat
          BY <2>2, <2>3
        <5>1. i - Len(old) \in 1..n /\ Scored + (i - Len(old)) = pcaCall.at + i
          <6> HIDE DEF old, m
          <6> QED
            BY <4>2, <5>0
        <5>2. more[i - Len(old)] = ScoreAt(c.fit, Scored + (i - Len(old)), c.sign)
          BY <2>4, <5>1
        <5> QED
          BY <4>0, <4>2, <5>1, <5>2
      <4> QED
        BY <4>1, <4>2
    <3> HIDE DEF new, m
    <3>3. new \in Seq({new[i] : i \in 1..m}) /\ Len(new) = m /\ DOMAIN new = 1..m
      BY <3>1, BuiltSeq
    <3>4. Plain(new)
      BY <3>3 DEF Plain
    <3> QED
      BY <3>2, <3>3, <3>4 DEF new, m
  <2>7. /\ DOMAIN pcaCall' = CallFields /\ pcaCall'.pc = "score" /\ pcaCall'.at = pcaCall.at
        /\ pcaCall'.tail = old \o more /\ pcaCall'.state = c
        /\ \A f \in {"resume", "seen", "state", "result"} : pcaCall'[f] = pcaCall[f]
    BY <1>1, <2>1, <2>2 DEF CallFields
  <2>8. JobKept /\ pcaJob' = pcaJob /\ matrix' = matrix
    BY <1>1, SameJob DEF Rest
  <2>9. ScoresRight'
    <3>1. Scored' = Scored + n /\ Scored' <= NRows'
      <4>1. Scored' = pcaCall.at + (Len(old) + n)
        BY <2>6, <2>7 DEF Scored
      <4>2. pcaCall.at + (Len(old) + n) = Scored + n /\ Scored + n <= NRows
        BY <2>2, <2>3
      <4>3. NRows' = NRows
        BY <2>8 DEF JobKept
      <4> QED
        BY <4>1, <4>2, <4>3
    <3> QED
      BY <1>1, <2>1, <2>2, <2>6, <2>7, <2>8, <3>1, AtScores DEF ScoresRight, Writing, JobKept
  <2>10. RecordRight'
    BY <2>1, <2>2, <2>8, RecordStays
  <2>11. DiskTyped' /\ Plain(pcaCall.tail)'
    <3>1. DiskTyped'
      BY <2>1, <2>2 DEF DiskTyped, Optional, Plain
    <3>2. Plain(pcaCall.tail)'
      <4> DEFINE new == old \o more
      <4>1. Plain(new) /\ pcaCall'.tail = new
        BY <2>6, <2>7
      <4> HIDE DEF new
      <4> QED
        BY <4>1 DEF Plain
    <3> QED
      BY <3>1, <3>2
  <2> QED
    BY <1>1, <2>1, <2>2, <2>7, <2>9, <2>10, <2>11, AtScores, WriteMoves DEF Writing
<1> QED
  BY <1>2, <1>3

LEMMA FlushScoresKeeps == ASSUME PcaIInv, FlushScores PROVE PcaIInv'
<1> DEFINE c == pcaCall.state
           old == pcaCall.tail
<1>1. /\ pcaCall.pc \in Writing /\ Rest /\ pcaJob.save
      /\ pcaDisk' = [pcaDisk EXCEPT !.part = Flushed(old)]
      /\ pcaCall' = [pcaCall EXCEPT !.pc = "record"]
  BY DEF FlushScores, BeforeRecord, Writing
<1>2. PICK file : /\ Flushed(SubSeq(old, 1, Len(old))) = <<file>> /\ Plain(file)
                  /\ Begins(file, pcaCall.at, c.fit, c.sign)
                  /\ Begins(file, pcaCall.at + Len(old), c.fit, c.sign)
  BY <1>1, WholeTail, FlushedIs
<1>3. Flushed(old) = <<file>>
  BY <1>1, <1>2, WholeTail
<1>4. /\ pcaJob' = pcaJob /\ matrix' = matrix /\ JobKept
  BY <1>1, SameJob DEF Rest
<1>5. /\ DOMAIN pcaCall = CallFields /\ DOMAIN pcaDisk = DiskFields /\ DiskTyped
      /\ pcaCall.at \in Nat /\ Plain(old) /\ matrix \in Nat /\ ~Resident
      /\ Scored = pcaCall.at + Len(old) /\ pcaDisk.scores = <<>>
      /\ pcaDisk.record # <<>> /\ pcaDisk.record[1].stage = "fit"
      /\ pcaDisk.record[1].sign = c.sign /\ pcaDisk.record[1].fit = c.fit
      /\ pcaDisk.record[1].done = pcaCall.at
  BY <1>1, AtScores
<1>6. /\ DOMAIN pcaCall' = CallFields /\ pcaCall'.pc = "record"
      /\ \A f \in CallFields \ {"pc"} : pcaCall'[f] = pcaCall[f]
      /\ pcaCall'.at = pcaCall.at /\ pcaCall'.tail = old /\ pcaCall'.state = c
  BY <1>1, <1>5 DEF CallFields
<1>7. /\ DOMAIN pcaDisk' = DiskFields /\ pcaDisk'.part = <<file>> /\ pcaDisk'.part[1] = file
      /\ \A f \in DiskFields \ {"part"} : pcaDisk'[f] = pcaDisk[f]
      /\ pcaDisk'.record = pcaDisk.record /\ pcaDisk'.scores = pcaDisk.scores
  BY <1>1, <1>3, <1>5 DEF DiskFields
<1>8. DiskTyped' /\ Plain(pcaCall.tail)'
  <2>1. Optional(pcaDisk.part)' /\ Plain(pcaDisk'.part[1])
    BY <1>2, <1>7 DEF Optional
  <2> QED
    BY <1>5, <1>6, <1>7, <2>1 DEF DiskTyped, Optional, Plain
<1>9. RecordRight'
  <2>1. StateRight(pcaDisk.record[1])'
    <3>1. StateRight(pcaDisk.record[1])
      BY <1>5 DEF PcaIInv, RecordRight
    <3>2. \A q : StateRight(q) => StateRight(q)'
      BY <1>4, <1>5, StateLater
    <3> QED
      BY <1>7, <3>1, <3>2
  <2>2. SizeOf(pcaDisk.part)' = Len(file) /\ pcaCall.at <= Len(file) /\ Len(file) \in Nat
    BY <1>2, <1>7, LenProperties DEF SizeOf, Begins, Plain
  <2> QED
    BY <1>1, <1>2, <1>4, <1>5, <1>7, <2>1, <2>2 DEF RecordRight, JobKept
<1>10. ScoresRight'
  <2>1. Scored' = Scored /\ NRows' = NRows /\ Scored <= NRows
    BY <1>1, <1>4, <1>6, AtScores DEF Scored, JobKept
  <2>2. \A i \in 1..Len(old) : old[i] = ScoreAt(c.fit, pcaCall.at + i, c.sign)
    BY <1>1, AtScores
  <2> QED
    BY <1>2, <1>4, <1>5, <1>6, <1>7, <2>1, <2>2 DEF ScoresRight, Writing
<1> QED
  BY <1>1, <1>5, <1>6, <1>7, <1>8, <1>9, <1>10, WriteMoves DEF CallFields, DiskFields, Writing

LEMMA RecordScoresKeeps == ASSUME PcaIInv, RecordScores PROVE PcaIInv'
<1> DEFINE c == pcaCall.state
<1>0. PICK s : s = [c EXCEPT !.done = Scored]
  OBVIOUS
<1>1. /\ pcaCall.pc \in Writing /\ pcaCall.pc = "record" /\ Rest /\ pcaDisk' = Saved(s)
      /\ pcaCall' = [pcaCall EXCEPT !.pc = "score", !.at = Scored, !.tail = <<>>]
  BY <1>0 DEF RecordScores, Writing
<1>2. /\ pcaJob' = pcaJob /\ matrix' = matrix /\ JobKept
  BY <1>1, SameJob DEF Rest
<1>3. /\ DOMAIN pcaCall = CallFields /\ DOMAIN pcaDisk = DiskFields /\ DiskTyped
      /\ matrix \in Nat /\ ~Resident /\ NRows \in Nat
      /\ Scored \in 0..NRows /\ pcaDisk.scores = <<>> /\ StateRight(c) /\ c.stage = "fit"
      /\ DOMAIN c = StateFields /\ pcaDisk.part = <<pcaDisk.part[1]>> /\ Plain(pcaDisk.part[1])
      /\ ~pcaJob.save => pcaDisk.record = <<>>
  BY <1>1, AtScores
<1>4. Begins(pcaDisk.part[1], Scored, c.fit, c.sign)
  BY <1>1 DEF PcaIInv, ScoresRight, Writing
<1>5. /\ DOMAIN s = StateFields /\ s.done = Scored /\ s.sign = c.sign /\ s.stage = "fit"
      /\ s.fit = c.fit /\ s.rows = c.rows /\ s.moments = c.moments /\ s.sums = c.sums
  BY <1>0, <1>3 DEF StateFields
<1>6. StateRight(s)
  BY <1>3, <1>5 DEF StateRight, PcaStages
<1>7. StateRight(s)'
  BY <1>2, <1>3, <1>6, StateLater
<1>8. /\ DOMAIN pcaCall' = CallFields /\ pcaCall'.pc = "score" /\ pcaCall'.at = Scored
      /\ pcaCall'.tail = <<>> /\ pcaCall'.state = c
      /\ \A f \in {"resume", "seen", "state", "result"} : pcaCall'[f] = pcaCall[f]
  BY <1>1, <1>3 DEF CallFields
<1>9. /\ DOMAIN pcaDisk' = DiskFields
      /\ \A f \in DiskFields \ {"record"} : pcaDisk'[f] = pcaDisk[f]
      /\ pcaDisk'.part = pcaDisk.part /\ pcaDisk'.scores = <<>>
      /\ pcaDisk'.record = IF pcaJob.save THEN <<s>> ELSE <<>>
  BY <1>1, <1>3 DEF DiskFields, Saved
<1>10. pcaJob.save => pcaDisk'.record # <<>> /\ pcaDisk'.record[1] = s
  BY <1>9
<1>11. DiskTyped' /\ Plain(pcaCall.tail)'
  BY <1>3, <1>5, <1>8, <1>9, EmptyFile DEF DiskTyped, Optional, Plain
<1>12. RecordRight'
  <2>1. SizeOf(pcaDisk.part)' = Len(pcaDisk.part[1]) /\ Scored <= Len(pcaDisk.part[1])
        /\ Len(pcaDisk.part[1]) \in Nat
    BY <1>3, <1>4, <1>9, LenProperties DEF SizeOf, Begins, Plain
  <2> QED
    BY <1>2, <1>3, <1>4, <1>5, <1>7, <1>9, <1>10, <2>1 DEF RecordRight, JobKept
<1>13. ScoresRight'
  <2>1. Scored' = Scored + 0 /\ NRows' = NRows
    BY <1>2, <1>8, EmptyFile DEF Scored, JobKept
  <2> QED
    BY <1>2, <1>3, <1>4, <1>5, <1>8, <1>9, <1>10, <2>1, EmptyFile DEF ScoresRight, Writing
<1> QED
  BY <1>1, <1>3, <1>5, <1>8, <1>9, <1>10, <1>11, <1>12, <1>13, WriteMoves DEF DiskFields, Writing

LEMMA NameScoresKeeps == ASSUME PcaIInv, NameScores PROVE PcaIInv'
<1> DEFINE c == pcaCall.state
           old == pcaCall.tail
           whole == Flushed(old)
<1>1. /\ pcaCall.pc \in Writing /\ pcaCall.pc = "score" /\ Rest /\ Scored = NRows
      /\ pcaJob.save => old = <<>>
  BY DEF NameScores, Writing
<1>2. PICK file : /\ Flushed(SubSeq(old, 1, Len(old))) = <<file>> /\ Plain(file)
                  /\ Begins(file, pcaCall.at, c.fit, c.sign)
                  /\ Begins(file, pcaCall.at + Len(old), c.fit, c.sign)
  BY <1>1, WholeTail, FlushedIs
<1>3. whole = <<file>> /\ SizeOf(whole) = Len(file)
  <2>1. whole = <<file>>
    BY <1>1, <1>2, WholeTail
  <2> HIDE DEF whole
  <2> QED
    BY <2>1 DEF SizeOf
<1>4. /\ pcaJob' = pcaJob /\ matrix' = matrix /\ shards' = shards /\ halted' = halted /\ JobKept
  BY <1>1, SameJob DEF Rest
<1>5. /\ DOMAIN pcaCall = CallFields /\ DOMAIN pcaDisk = DiskFields /\ DiskTyped
      /\ pcaJob \in PcaJobs /\ matrix \in Nat /\ ~Resident /\ halted \in Nat /\ StateRight(c)
      /\ Scored = pcaCall.at + Len(old) /\ pcaDisk.scores = <<>> /\ c.stage = "fit"
      /\ c.fit = FitFrom(c.sign) /\ c.sign \in 0..matrix /\ pcaCall.at \in Nat
  BY <1>1, AtScores
<1> HIDE DEF whole
<1>6. CASE SizeOf(whole) # NRows
  <2>1. pcaDisk' = [pcaDisk EXCEPT !.part = whole] /\ PcaEnds("idle")
    BY <1>6 DEF NameScores, whole
  <2>2. /\ DOMAIN pcaDisk' = DiskFields /\ pcaDisk'.part = <<file>>
        /\ pcaDisk'.record = pcaDisk.record /\ pcaDisk'.scores = pcaDisk.scores
        /\ pcaDisk'.manifest = pcaDisk.manifest /\ pcaDisk'.init = pcaDisk.init
        /\ pcaDisk'.initPart = pcaDisk.initPart
    BY <1>3, <1>5, <2>1 DEF DiskFields
  <2> QED
    BY <1>1, <1>2, <1>4, <1>5, <2>1, <2>2, CallStops DEF PcaEnds
<1>7. CASE SizeOf(whole) = NRows
  <2>1. /\ pcaDisk' = [pcaDisk EXCEPT !.part = <<>>, !.scores = whole]
        /\ pcaCall' = [pcaCall EXCEPT !.pc = "manifest", !.tail = <<>>]
    BY <1>7 DEF NameScores, whole
  <2>2. whole = <<ScoresFrom(c.sign)>>
    BY <1>1, <1>2, <1>3, <1>5, <1>7, WholeFile
  <2>3. /\ DOMAIN pcaCall' = CallFields /\ pcaCall'.pc = "manifest" /\ pcaCall'.tail = <<>>
        /\ \A f \in CallFields \ {"pc", "tail"} : pcaCall'[f] = pcaCall[f]
        /\ pcaCall'.state = c
    BY <1>5, <2>1 DEF CallFields
  <2>4. /\ DOMAIN pcaDisk' = DiskFields /\ pcaDisk'.part = <<>>
        /\ pcaDisk'.scores = <<ScoresFrom(c.sign)>> /\ pcaDisk'.scores # <<>>
        /\ pcaDisk'.record = pcaDisk.record /\ pcaDisk'.manifest = pcaDisk.manifest
        /\ pcaDisk'.initPart = pcaDisk.initPart /\ pcaDisk'.init = pcaDisk.init
    BY <1>5, <2>1, <2>2 DEF DiskFields
  <2>5. pcaDisk.manifest = <<>> /\ pcaDisk.initPart = <<>> /\ pcaDisk.init = <<>>
    BY <1>5 DEF PcaIInv, NamesRight
  <2>6. \A q : StateRight(q) => StateRight(q)'
    BY <1>4, <1>5, StateLater
  <2>7. PcaTypeOK'
    <3>1. DiskTyped'
      BY <1>5, <2>4 DEF DiskTyped, Optional
    <3>2. /\ pcaCall'.pc \in Working /\ pcaCall'.resume \in BOOLEAN /\ pcaCall'.at \in Nat
          /\ pcaCall'.seen \in Nat /\ DOMAIN pcaCall'.state = StateFields
      BY <2>3 DEF PcaIInv, PcaTypeOK, Working, Sealing, CallFields
    <3> QED
      BY <1>4, <2>3, <3>1, <3>2, EmptyFile DEF PcaIInv, PcaTypeOK, DiskTyped, Plain
  <2>8. RecordRight'
    <3>1. pcaDisk.record # <<>> => StateRight(pcaDisk.record[1])'
      BY <2>4, <2>6 DEF PcaIInv, RecordRight
    <3> QED
      BY <1>4, <2>4, <3>1 DEF PcaIInv, RecordRight, JobKept
  <2>9. CallRight'
    <3>1. StateRight(c)'
      BY <1>5, <2>3, <2>6
    <3>2. Resident' = Resident /\ pcaJob'.save = pcaJob.save /\ pcaCall.pc \in Working
      BY <1>1, <1>4 DEF JobKept, Working
    <3> QED
      BY <1>4, <1>5, <2>3, <2>4, <3>1, <3>2
      DEF PcaIInv, CallRight, Working, Ending, Sealing, Writing, Fitting, CallFields
  <2>10. PassRight' /\ ScoresRight'
    BY <2>3 DEF PassRight, ScoresRight, Writing
  <2>11. NamesRight'
    <3>1. \A v : ScoresFrom(v)' = ScoresFrom(v) /\ FitFrom(v)' = FitFrom(v)
      BY <1>4 DEF JobKept
    <3>2. pcaCall'.result = pcaCall.result
      BY <2>3 DEF CallFields
    <3>3. pcaCall'.result # <<>> =>
             pcaCall'.result = <<[fit |-> FitFrom(0)', scores |-> ScoresFrom(0)']>>
      BY <3>1, <3>2 DEF PcaIInv, NamesRight
    <3>4. \E v \in 0..matrix' : /\ pcaDisk'.scores = <<ScoresFrom(v)'>>
                                /\ v = pcaCall'.state.sign
      BY <1>4, <1>5, <2>3, <2>4, <3>1
    <3> QED
      BY <1>4, <1>5, <2>3, <2>4, <2>5, <3>1, <3>3, <3>4
      DEF NamesRight, Working, Sealing, Fitting, Ending, Writing
  <2>12. ShardsRight' /\ PcaWorkResumes'
    BY <1>4, <1>5, <2>3 DEF PcaIInv, ShardsRight, Launching, Over, JobKept, PcaWorkResumes
  <2> QED
    BY <2>7, <2>8, <2>9, <2>10, <2>11, <2>12 DEF PcaIInv
<1> QED
  BY <1>6, <1>7

-----------------------------------------------------------------------------
(* The manifest, the end of the record, and the start for t-SNE.           *)

LEMMA EndMoves ==
    ASSUME PcaIInv, pcaCall.pc \in Ending, Rest, NEW next \in {"unlink", "init", "attach"},
           DOMAIN pcaCall' = CallFields, pcaCall'.pc = next,
           \A f \in CallFields \ {"pc"} : pcaCall'[f] = pcaCall[f],
           next = "unlink" =>
              pcaCall.pc \in Sealing /\ pcaDisk'.record = pcaDisk.record,
           DiskTyped', RecordRight', NamesRight'
    PROVE  PcaIInv'
<1> DEFINE c == pcaCall.state
<1>1. /\ pcaJob' = pcaJob /\ matrix' = matrix /\ shards' = shards /\ halted' = halted /\ JobKept
  BY SameJob DEF Rest
<1>2. /\ DOMAIN pcaCall = CallFields /\ matrix \in Nat
      /\ ~Resident /\ pcaCall.tail = <<>>
  BY PcaBounds DEF PcaIInv, PcaTypeOK, CallRight, ScoresRight, Ending, Sealing, Writing
<1>3. /\ DOMAIN pcaCall' = CallFields /\ pcaCall'.pc = next /\ pcaCall'.state = c
      /\ \A f \in CallFields \ {"pc"} : pcaCall'[f] = pcaCall[f]
  BY <1>2 DEF CallFields
<1>4. PcaTypeOK'
  BY <1>1, <1>3 DEF PcaIInv, PcaTypeOK, DiskTyped, Plain, Ending, CallFields, Working, Sealing
<1>5. CallRight'
  <2>1. Resident' = Resident /\ pcaJob'.save = pcaJob.save
    BY <1>1 DEF JobKept
  <2>2. pcaCall.resume => pcaJob.save
    BY DEF PcaIInv, CallRight
  <2>3. CASE next = "unlink"
    <3>1. pcaCall.pc \in Working
      BY <2>3 DEF Working
    <3>2. /\ StateRight(c) /\ pcaCall.seen <= matrix /\ pcaCall.seen <= c.sign
          /\ ~pcaCall.resume => c.done = 0
          /\ c.stage = "fit"
          /\ pcaJob.save => /\ pcaDisk.record # <<>>
                            /\ pcaDisk.record[1].sign = c.sign
                            /\ pcaDisk.record[1].stage = c.stage
                            /\ pcaDisk.record[1].fit = c.fit
      BY <2>3, <3>1 DEF PcaIInv, CallRight
    <3>3. StateRight(c)'
      <4>1. \A q : StateRight(q) => StateRight(q)'
        BY <1>1, <1>2, StateLater
      <4> QED
        BY <1>3, <3>2, <4>1
    <3> QED
      BY <1>1, <1>2, <1>3, <2>1, <2>2, <2>3, <3>2, <3>3
      DEF CallRight, Working, Ending, Sealing, Writing, Fitting, CallFields
  <2>4. CASE next # "unlink"
    BY <1>2, <1>3, <2>1, <2>2, <2>4
    DEF CallRight, Working, Ending, Sealing, Writing, Fitting, CallFields
  <2> QED
    BY <2>3, <2>4
<1>6. PassRight' /\ ScoresRight'
  BY <1>2, <1>3 DEF PassRight, ScoresRight, Writing, CallFields
<1>7. ShardsRight' /\ PcaWorkResumes'
  BY <1>1, <1>2, <1>3 DEF PcaIInv, ShardsRight, Launching, Over, JobKept, PcaWorkResumes
<1> QED
  BY <1>4, <1>5, <1>6, <1>7 DEF PcaIInv

LEMMA VouchPcaKeeps == ASSUME PcaIInv, VouchPca PROVE PcaIInv'
<1> DEFINE c == pcaCall.state
<1>0. PICK m : m = [fit |-> c.fit, init |-> FALSE]
  OBVIOUS
<1>1. /\ pcaCall.pc = "manifest" /\ Rest
      /\ pcaDisk' = [pcaDisk EXCEPT !.manifest = <<m>>]
      /\ pcaCall' = [pcaCall EXCEPT !.pc = "unlink"]
  BY <1>0 DEF VouchPca
<1>2. /\ pcaJob' = pcaJob /\ matrix' = matrix /\ shards' = shards /\ halted' = halted /\ JobKept
  BY <1>1, SameJob DEF Rest
<1>3. /\ DOMAIN pcaCall = CallFields /\ DiskTyped /\ matrix \in Nat
  BY PcaBounds DEF PcaIInv, PcaTypeOK, DiskTyped
<1>4. /\ DOMAIN pcaCall' = CallFields /\ pcaCall'.pc = "unlink" /\ pcaCall'.state = c
      /\ pcaCall'.result = pcaCall.result
      /\ \A f \in CallFields \ {"pc"} : pcaCall'[f] = pcaCall[f]
  BY <1>1, <1>3 DEF CallFields
<1>5. /\ DOMAIN pcaDisk' = DiskFields /\ pcaDisk'.manifest = <<m>>
      /\ pcaDisk'.record = pcaDisk.record /\ pcaDisk'.part = pcaDisk.part
      /\ pcaDisk'.scores = pcaDisk.scores
      /\ pcaDisk'.initPart = pcaDisk.initPart /\ pcaDisk'.init = pcaDisk.init
  BY <1>1, <1>3 DEF DiskTyped, DiskFields
<1>6. DiskTyped' /\ RecordRight'
  BY <1>2, <1>3, <1>5, RecordStays DEF DiskTyped, Optional, Plain
<1>7. c.fit = FitFrom(c.sign)
  <2>1. StateRight(c) /\ c.stage = "fit"
    BY <1>1, AtWork DEF Working, Sealing, PcaIInv, CallRight
  <2> QED
    BY <2>1 DEF StateRight
<1>8. NamesRight'
  <2>1. m.fit = FitFrom(c.sign) /\ DOMAIN m = {"fit", "init"} /\ <<m>>[1] = m /\ <<m>> # <<>>
    BY <1>0, <1>7
  <2>2. /\ pcaDisk.scores # <<>> /\ pcaDisk.init = <<>> /\ pcaDisk.initPart = <<>>
        /\ \E v \in 0..matrix : pcaDisk.scores = <<ScoresFrom(v)>> /\ v = c.sign
    BY <1>1 DEF PcaIInv, NamesRight, Ending, Sealing
  <2>3. \A v : ScoresFrom(v)' = ScoresFrom(v) /\ FitFrom(v)' = FitFrom(v)
    BY <1>2 DEF JobKept
  <2>4. \E v \in 0..matrix' : /\ pcaDisk'.scores = <<ScoresFrom(v)'>>
                              /\ v = pcaCall'.state.sign
                              /\ pcaDisk'.manifest[1].fit = FitFrom(v)'
    BY <1>2, <1>4, <1>5, <2>1, <2>2, <2>3
  <2>5. pcaCall'.result # <<>> =>
           pcaCall'.result = <<[fit |-> FitFrom(0)', scores |-> ScoresFrom(0)']>>
    BY <1>4, <2>3 DEF PcaIInv, NamesRight
  <2> QED
    BY <1>2, <1>4, <1>5, <2>1, <2>2, <2>4, <2>5
    DEF NamesRight, Working, Sealing, Fitting, Ending, Writing
<1> QED
  BY <1>1, <1>4, <1>5, <1>6, <1>8, EndMoves DEF Ending, Sealing

LEMMA UnlinkRecordKeeps == ASSUME PcaIInv, UnlinkRecord PROVE PcaIInv'
<1>1. /\ pcaCall.pc = "unlink" /\ Rest /\ pcaDisk' = [pcaDisk EXCEPT !.record = <<>>]
      /\ \/ pcaCall' = [pcaCall EXCEPT !.pc = "init"]
         \/ PcaEnds("done")
  BY DEF UnlinkRecord
<1>2. /\ pcaJob' = pcaJob /\ matrix' = matrix /\ shards' = shards /\ halted' = halted /\ JobKept
  BY <1>1, SameJob DEF Rest
<1>3. /\ DOMAIN pcaCall = CallFields /\ DiskTyped /\ halted \in Nat /\ ~Resident
      /\ pcaCall.resume \in BOOLEAN /\ (pcaCall.resume => pcaJob.save)
  BY <1>1 DEF PcaIInv, PcaTypeOK, DiskTyped, CallRight, Ending, Sealing
<1>4. /\ DOMAIN pcaDisk' = DiskFields /\ pcaDisk'.record = <<>>
      /\ \A f \in DiskFields \ {"record"} : pcaDisk'[f] = pcaDisk[f]
  BY <1>1, <1>3 DEF DiskTyped, DiskFields
<1>5. DiskTyped' /\ RecordRight'
  BY <1>3, <1>4 DEF DiskTyped, DiskFields, Optional, Plain, RecordRight
<1>6. CASE pcaCall' = [pcaCall EXCEPT !.pc = "init"]
  <2>1. /\ DOMAIN pcaCall' = CallFields /\ pcaCall'.pc = "init"
        /\ pcaCall'.result = pcaCall.result
        /\ \A f \in CallFields \ {"pc"} : pcaCall'[f] = pcaCall[f]
    BY <1>3, <1>6 DEF CallFields
  <2>2. NamesRight'
    BY <1>1, <1>2, <1>4, <2>1 DEF PcaIInv, NamesRight, JobKept, DiskFields, Working, Sealing,
       Fitting, Ending, Writing
  <2> QED
    BY <1>1, <1>5, <2>1, <2>2, EndMoves DEF Ending, Sealing
<1>7. CASE PcaEnds("done")
  <2>1. pcaCall' = AtRest("done", pcaCall.resume)
    BY <1>7 DEF PcaEnds
  <2>2. pcaCall'.pc = "done" /\ pcaCall'.result = <<>>
    BY <2>1 DEF AtRest
  <2>3. NamesRight' /\ PcaWorkResumes'
    BY <1>2, <1>4, <2>2 DEF PcaIInv, NamesRight, JobKept, DiskFields, Working, Sealing,
       Fitting, Ending, Writing, PcaWorkResumes
  <2> QED
    BY <1>2, <1>3, <1>5, <2>1, <2>3, AtRestRight DEF Over
<1> QED
  BY <1>1, <1>6, <1>7

LEMMA WriteInitKeeps == ASSUME PcaIInv, WriteInit PROVE PcaIInv'
<1>1. /\ pcaCall.pc = "init" /\ Rest /\ pcaDisk' = [pcaDisk EXCEPT !.initPart = pcaDisk.scores]
      /\ pcaCall' = pcaCall
  BY DEF WriteInit
<1>2. /\ pcaJob' = pcaJob /\ matrix' = matrix /\ shards' = shards /\ halted' = halted /\ JobKept
  BY <1>1, SameJob DEF Rest
<1>3. /\ DOMAIN pcaCall = CallFields /\ DiskTyped /\ matrix \in Nat
  BY PcaBounds DEF PcaIInv, PcaTypeOK, DiskTyped
<1>4. /\ DOMAIN pcaDisk' = DiskFields /\ pcaDisk'.initPart = pcaDisk.scores
      /\ pcaDisk'.record = pcaDisk.record /\ pcaDisk'.part = pcaDisk.part
      /\ pcaDisk'.scores = pcaDisk.scores /\ pcaDisk'.manifest = pcaDisk.manifest
      /\ pcaDisk'.init = pcaDisk.init
  BY <1>1, <1>3 DEF DiskTyped, DiskFields
<1>5. DiskTyped' /\ RecordRight'
  BY <1>2, <1>3, <1>4, RecordStays DEF DiskTyped, Optional, Plain
<1>6. NamesRight'
  BY <1>1, <1>2, <1>4 DEF PcaIInv, NamesRight, JobKept, Working, Sealing, Fitting, Ending, Writing
<1> QED
  BY <1>1, <1>3, <1>5, <1>6, EndMoves DEF Ending, Sealing

LEMMA NameInitKeeps == ASSUME PcaIInv, NameInit PROVE PcaIInv'
<1>1. /\ pcaCall.pc = "init" /\ Rest /\ pcaDisk.initPart # <<>>
      /\ pcaDisk' = [pcaDisk EXCEPT !.initPart = <<>>, !.init = @ \o pcaDisk.initPart]
      /\ pcaCall' = [pcaCall EXCEPT !.pc = "attach"]
  BY DEF NameInit
<1>2. /\ pcaJob' = pcaJob /\ matrix' = matrix /\ shards' = shards /\ halted' = halted /\ JobKept
  BY <1>1, SameJob DEF Rest
<1>3. /\ DOMAIN pcaCall = CallFields /\ DiskTyped /\ matrix \in Nat
  BY PcaBounds DEF PcaIInv, PcaTypeOK, DiskTyped
<1>4. /\ pcaDisk.init = <<>> /\ pcaDisk.initPart = pcaDisk.scores /\ pcaDisk.scores # <<>>
      /\ \E v \in 0..matrix : pcaDisk.scores = <<ScoresFrom(v)>>
      /\ pcaDisk.manifest # <<>>
  BY <1>1 DEF PcaIInv, NamesRight, Sealing, Ending
<1>5. pcaDisk.init \o pcaDisk.initPart = pcaDisk.scores
  <2>1. PICK x : pcaDisk.scores = <<x>>
    BY <1>4
  <2>2. <<x>> \in Seq({x})
    OBVIOUS
  <2>3. <<>> \o <<x>> = <<x>>
    BY <2>2, ConcatEmptySeq
  <2> QED
    BY <1>4, <2>1, <2>3
<1>6. /\ DOMAIN pcaDisk' = DiskFields /\ pcaDisk'.initPart = <<>> /\ pcaDisk'.init = pcaDisk.scores
      /\ pcaDisk'.record = pcaDisk.record /\ pcaDisk'.part = pcaDisk.part
      /\ pcaDisk'.scores = pcaDisk.scores /\ pcaDisk'.manifest = pcaDisk.manifest
  BY <1>1, <1>3, <1>5 DEF DiskTyped, DiskFields
<1>7. DiskTyped' /\ RecordRight'
  BY <1>2, <1>3, <1>6, RecordStays DEF DiskTyped, Optional, Plain
<1>8. /\ DOMAIN pcaCall' = CallFields /\ pcaCall'.pc = "attach" /\ pcaCall'.result = pcaCall.result
      /\ \A f \in CallFields \ {"pc"} : pcaCall'[f] = pcaCall[f]
  BY <1>1, <1>3 DEF CallFields
<1>9. NamesRight'
  BY <1>1, <1>2, <1>4, <1>6, <1>8
  DEF PcaIInv, NamesRight, JobKept, Working, Sealing, Fitting, Ending, Writing
<1> QED
  BY <1>1, <1>7, <1>8, <1>9, EndMoves DEF Ending, Sealing

LEMMA AttachInitKeeps == ASSUME PcaIInv, AttachInit PROVE PcaIInv'
<1>1. /\ pcaCall.pc = "attach" /\ Rest
      /\ pcaDisk' = [pcaDisk EXCEPT !.manifest[1].init = TRUE]
      /\ pcaCall' = AtRest("done", pcaCall.resume)
  BY DEF AttachInit, PcaEnds
<1>2. /\ pcaJob' = pcaJob /\ matrix' = matrix /\ shards' = shards /\ halted' = halted /\ JobKept
  BY <1>1, SameJob DEF Rest
<1>3. /\ DOMAIN pcaCall = CallFields /\ DiskTyped /\ matrix \in Nat /\ halted \in Nat /\ ~Resident
      /\ pcaCall.resume \in BOOLEAN /\ (pcaCall.resume => pcaJob.save)
  BY <1>1, PcaBounds DEF PcaIInv, PcaTypeOK, DiskTyped, CallRight, Ending
<1>4. /\ pcaDisk.manifest # <<>> /\ pcaDisk.manifest = <<pcaDisk.manifest[1]>>
      /\ DOMAIN pcaDisk.manifest[1] = {"fit", "init"} /\ pcaDisk.scores # <<>>
  BY <1>1 DEF PcaIInv, NamesRight, Ending
<1>5. PICK m : m = [pcaDisk.manifest[1] EXCEPT !.init = TRUE]
  OBVIOUS
<1>6. m.fit = pcaDisk.manifest[1].fit /\ DOMAIN m = {"fit", "init"}
  BY <1>4, <1>5
<1>7. /\ DOMAIN pcaDisk' = DiskFields /\ pcaDisk'.manifest = <<m>>
      /\ pcaDisk'.record = pcaDisk.record /\ pcaDisk'.part = pcaDisk.part
      /\ pcaDisk'.scores = pcaDisk.scores
      /\ pcaDisk'.initPart = pcaDisk.initPart /\ pcaDisk'.init = pcaDisk.init
  <2>1. [pcaDisk.manifest EXCEPT ![1] = m] = <<m>>
    BY <1>4
  <2>2. pcaDisk' = [pcaDisk EXCEPT !.manifest = [@ EXCEPT ![1] = m]]
    BY <1>1, <1>5
  <2> QED
    BY <1>3, <2>1, <2>2 DEF DiskTyped, DiskFields
<1>8. DiskTyped' /\ RecordRight'
  BY <1>2, <1>3, <1>7, RecordStays DEF DiskTyped, Optional, Plain
<1>9. pcaCall'.pc = "done" /\ pcaCall'.result = <<>>
  BY <1>1 DEF AtRest
<1>10. NamesRight' /\ PcaWorkResumes'
  BY <1>2, <1>4, <1>6, <1>7, <1>9
  DEF PcaIInv, NamesRight, JobKept, Working, Sealing, Fitting, Ending, Writing, PcaWorkResumes
<1> QED
  BY <1>1, <1>2, <1>3, <1>8, <1>10, AtRestRight DEF Over

-----------------------------------------------------------------------------
(* Interruptions, and a matrix that changes.                               *)

LEMMA HaltPcaKeeps == ASSUME PcaIInv, HaltPca PROVE PcaIInv'
<1> DEFINE c == pcaCall.state
<1>1. /\ ~Resident /\ halted' = halted + 1 /\ pcaCall' = AtRest("idle", pcaCall.resume)
      /\ pcaJob' = pcaJob /\ matrix' = matrix /\ shards' = shards
      /\ \E n \in 0..Len(pcaCall.tail), init \in {<<>>, pcaDisk.initPart} :
            pcaDisk' = [pcaDisk EXCEPT !.initPart = init,
                !.part = IF pcaCall.pc \in {"score", "record"}
                         THEN Flushed(SubSeq(pcaCall.tail, 1, n)) ELSE @]
  BY DEF HaltPca, PcaEnds
<1>2. PICK n \in 0..Len(pcaCall.tail), init \in {<<>>, pcaDisk.initPart} :
            pcaDisk' = [pcaDisk EXCEPT !.initPart = init,
                !.part = IF pcaCall.pc \in {"score", "record"}
                         THEN Flushed(SubSeq(pcaCall.tail, 1, n)) ELSE @]
  BY <1>1
<1>3. DOMAIN pcaDisk = DiskFields /\ halted \in Nat
  BY DEF PcaIInv, PcaTypeOK
<1>4. /\ DOMAIN pcaDisk' = DiskFields /\ pcaDisk'.record = pcaDisk.record
      /\ pcaDisk'.scores = pcaDisk.scores /\ pcaDisk'.manifest = pcaDisk.manifest
      /\ pcaDisk'.init = pcaDisk.init /\ pcaDisk'.initPart = init
      /\ pcaDisk'.part = IF pcaCall.pc \in Writing THEN Flushed(SubSeq(pcaCall.tail, 1, n))
                         ELSE pcaDisk.part
  BY <1>2, <1>3 DEF DiskFields, Writing
<1>5. CASE pcaCall.pc \in Writing
  <2>1. PICK file : /\ Flushed(SubSeq(pcaCall.tail, 1, n)) = <<file>> /\ Plain(file)
                    /\ Begins(file, pcaCall.at, c.fit, c.sign)
    BY <1>5, FlushedIs
  <2> QED
    BY <1>1, <1>3, <1>4, <1>5, <2>1, CallStops
<1>6. CASE pcaCall.pc \notin Writing
  BY <1>1, <1>3, <1>4, <1>6, CallStops
<1> QED
  BY <1>5, <1>6

-----------------------------------------------------------------------------
(* A matrix in memory over several GPUs.                                   *)

(* With no more GPUs than rows, each has a row. *)
LEMMA ShardCuts ==
    ASSUME pcaJob \in PcaJobs, Resident, NEW k \in 1..pcaJob.workers
    PROVE  /\ ShardOf(k).first = Cut(NRows, pcaJob.workers, k - 1)
           /\ ShardOf(k).last = Cut(NRows, pcaJob.workers, k)
           /\ ShardOf(k).first \in Nat /\ ShardOf(k).last \in Nat
           /\ ShardOf(k).first < ShardOf(k).last /\ ShardOf(k).last <= NRows
           /\ BatchOf(ShardOf(k)) \in Nat \ {0}
<1> DEFINE n == NRows
           t == pcaJob.workers
           x == n * (k - 1)
<1>1. n \in Nat /\ t \in Nat \ {0} /\ t <= n /\ pcaJob.chunk \in Nat \ {0}
  BY JobFacts
<1>2. ShardOf(k).first = Cut(n, t, k - 1) /\ ShardOf(k).last = Cut(n, t, k)
  BY DEF ShardOf, Cut
<1> HIDE DEF n, t
<1>3. k - 1 \in 0..t /\ k \in 0..t /\ k - 1 <= k
  BY <1>1 DEF t
<1>4. /\ Cut(n, t, k - 1) \in 0..n /\ Cut(n, t, k) \in 0..n
  <2>1. \A a \in 0..t : Cut(n, t, a) \in 0..n
    <3>1. ASSUME NEW a \in 0..t PROVE Cut(n, t, a) \in 0..n
      <4>1. a <= a
        BY <1>1
      <4> QED
        BY <1>1, <4>1, CutsGrow
    <3> QED
      BY <3>1
  <2> QED
    BY <1>3, <2>1
<1>5. x \in Nat /\ n * k = x + n /\ x + t <= n * k /\ x + t \in Nat /\ n * k \in Nat
  BY <1>1, <1>3
<1> HIDE DEF x
<1>6. (x + t) \div t = (x \div t) + 1
  <2>1. PICK q : q = x \div t
    OBVIOUS
  <2>2. PICK r : r = x % t
    OBVIOUS
  <2>3. q \in Nat /\ r \in Nat /\ r < t /\ x = q * t + r
    BY <1>1, <1>5, <2>1, <2>2, Division
  <2>4. x + t = (q + 1) * t + r /\ q + 1 \in Nat
    BY <1>1, <2>3
  <2>5. ((q + 1) * t + r) \div t = q + 1
    BY <1>1, <2>3, <2>4, Quotient
  <2> QED
    BY <2>1, <2>4, <2>5
<1>7. (x + t) \div t <= (n * k) \div t
  BY <1>1, <1>5, QuotientGrows
<1>8. Cut(n, t, k - 1) < Cut(n, t, k)
  <2>1. Cut(n, t, k - 1) = x \div t /\ Cut(n, t, k) = (n * k) \div t
    BY DEF Cut, x
  <2> QED
    BY <1>4, <1>6, <1>7, <2>1
<1>9. BatchOf(ShardOf(k)) \in Nat \ {0}
  <2>1. ShardOf(k).last - ShardOf(k).first \in Nat \ {0}
    BY <1>1, <1>2, <1>4, <1>8
  <2> QED
    BY <1>1, <2>1, MinOfTwo DEF BatchOf
<1> QED
  BY <1>1, <1>2, <1>4, <1>8, <1>9 DEF n, t

(* A step of a call whose matrix is in memory. *)
LEMMA ResidentMoves ==
    ASSUME PcaIInv, Resident, pcaJob' = pcaJob, matrix' = matrix, pcaDisk' = pcaDisk,
           halted' \in Nat, DOMAIN pcaCall' = CallFields, DOMAIN pcaCall'.state = StateFields,
           pcaCall'.pc \in Launching \cup {"idle", "done"},
           pcaCall'.resume = FALSE, pcaCall'.at \in Nat, pcaCall'.seen \in Nat,
           pcaCall'.tail = <<>>,
           pcaCall'.result # <<>> =>
              pcaCall'.result = <<[fit |-> FitFrom(0), scores |-> ScoresFrom(0)]>>,
           ShardsRight'
    PROVE  PcaIInv'
<1>1. /\ pcaJob \in PcaJobs /\ matrix \in Nat /\ matrix \in 0..PcaVersions /\ DiskTyped /\ JobKept
  BY PcaBounds, SameJob DEF PcaIInv, PcaTypeOK, DiskTyped
<1>2. PcaTypeOK'
  <2>1. Plain(pcaCall'.tail)
    BY EmptyFile
  <2>2. /\ Optional(pcaDisk'.record) /\ Optional(pcaDisk'.part)
        /\ pcaDisk'.record # <<>> => DOMAIN pcaDisk'.record[1] = StateFields
        /\ pcaDisk'.part # <<>> => Plain(pcaDisk'.part[1])
        /\ DOMAIN pcaDisk' = DiskFields
    BY <1>1 DEF DiskTyped
  <2>3. pcaCall'.pc \in Over \cup Launching
    BY DEF Over
  <2>4. pcaJob' \in PcaJobs /\ matrix' \in 0..PcaVersions
    BY <1>1
  <2> QED
    BY <2>1, <2>2, <2>3, <2>4 DEF PcaTypeOK, Optional, Plain
<1>3. RecordRight'
  BY <1>1, RecordStays
<1>4. CallRight' /\ PassRight' /\ ScoresRight'
  BY <1>1 DEF CallRight, PassRight, ScoresRight, Working, Ending, Fitting, Writing, Sealing,
     Launching, JobKept
<1>5. NamesRight'
  <2>1. pcaCall'.pc \notin {"prepare"} \cup Working \cup Ending
    BY DEF Working, Ending, Fitting, Writing, Sealing, Launching
  <2>2. FitFrom(0)' = FitFrom(0) /\ ScoresFrom(0)' = ScoresFrom(0)
    BY <1>1 DEF JobKept
  <2>3. pcaDisk.scores # <<>> =>
          \E v \in 0..matrix : /\ pcaDisk.scores = <<ScoresFrom(v)>>
                               /\ pcaDisk.manifest # <<>> => pcaDisk.manifest[1].fit = FitFrom(v)
    BY DEF PcaIInv, NamesRight
  <2>4. \A v : FitFrom(v)' = FitFrom(v) /\ ScoresFrom(v)' = ScoresFrom(v)
    BY <1>1 DEF JobKept
  <2>5. pcaDisk'.scores # <<>> =>
          \E v \in 0..matrix' : /\ pcaDisk'.scores = <<ScoresFrom(v)'>>
                                /\ pcaDisk'.manifest # <<>> =>
                                      pcaDisk'.manifest[1].fit = FitFrom(v)'
    BY <2>3, <2>4
  <2> QED
    BY <2>1, <2>2, <2>5 DEF PcaIInv, NamesRight, Working, Sealing, Ending
<1>6. PcaWorkResumes'
  BY DEF PcaWorkResumes, Launching
<1> QED
  BY <1>2, <1>3, <1>4, <1>5, <1>6 DEF PcaIInv

(* The threads of a call are on their way. *)
LEMMA Launched ==
    ASSUME PcaIInv, pcaCall.pc \in Launching
    PROVE  /\ Resident /\ matrix = 0 /\ pcaJob \in PcaJobs
           /\ DOMAIN pcaCall = CallFields /\ DOMAIN pcaCall.state = StateFields
           /\ pcaCall.resume = FALSE /\ pcaCall.at \in Nat
           /\ pcaCall.seen = 0 /\ pcaCall.seen \in Nat
           /\ pcaCall.tail = <<>>
           /\ pcaCall.result # <<>> =>
                 pcaCall.result = <<[fit |-> FitFrom(0), scores |-> ScoresFrom(0)]>>
           /\ DOMAIN shards = 1..pcaJob.workers /\ halted \in Nat
           /\ pcaCall.state.fit \in {<<>>, FitFrom(0)}
           /\ \A k \in DOMAIN shards : ShardRight(k)
<1>1. pcaCall.tail = <<>>
  BY DEF PcaIInv, ScoresRight, Launching, Writing
<1> QED
  BY <1>1 DEF PcaIInv, PcaTypeOK, ShardsRight, NamesRight

(* One thread moves. *)
LEMMA OneShard ==
    ASSUME PcaIInv, pcaCall.pc \in Launching, pcaJob' = pcaJob, matrix' = matrix,
           pcaDisk' = pcaDisk, pcaCall' = pcaCall, halted' \in Nat,
           NEW k \in DOMAIN shards, DOMAIN shards' = DOMAIN shards,
           \A j \in DOMAIN shards \ {k} : shards'[j] = shards[j],
           ShardRight(k)'
    PROVE  PcaIInv'
<1>1. JobKept
  BY SameJob
<1>2. ASSUME NEW j \in DOMAIN shards, j # k PROVE ShardRight(j)'
  <2>1. ShardRight(j) /\ shards'[j] = shards[j]
    BY <1>2, Launched
  <2>2. ShardOf(j)' = ShardOf(j) /\ FitFrom(0)' = FitFrom(0)
    BY <1>1 DEF JobKept
  <2>3. BatchOf(shards[j])' = BatchOf(shards[j])'
    OBVIOUS
  <2>4. PICK s : s = shards[j]
    OBVIOUS
  <2>5. BatchOf(s)' = BatchOf(s)
    BY DEF BatchOf
  <2> QED
    BY <2>1, <2>2, <2>4, <2>5 DEF ShardRight
<1>3. ShardsRight'
  <2>1. \A j \in DOMAIN shards' : ShardRight(j)'
    BY <1>2
  <2> QED
    BY <1>1, <2>1 DEF PcaIInv, ShardsRight, Launching, Over, JobKept
<1>4. /\ Resident /\ DOMAIN pcaCall' = CallFields /\ DOMAIN pcaCall'.state = StateFields
      /\ pcaCall'.pc \in Launching \cup {"idle", "done"}
      /\ pcaCall'.resume = FALSE /\ pcaCall'.at \in Nat /\ pcaCall'.seen \in Nat
      /\ pcaCall'.tail = <<>>
      /\ pcaCall'.result # <<>> =>
            pcaCall'.result = <<[fit |-> FitFrom(0), scores |-> ScoresFrom(0)]>>
  BY Launched
<1> QED
  BY <1>3, <1>4, ResidentMoves

LEMMA LaunchShardKeeps == ASSUME PcaIInv, LaunchShard PROVE PcaIInv'
<1>1. /\ pcaCall.pc \in Launching /\ Unstarted # {}
      /\ pcaJob' = pcaJob /\ matrix' = matrix /\ pcaDisk' = pcaDisk /\ pcaCall' = pcaCall
      /\ halted' = halted
  BY DEF LaunchShard, Launching
<1>2. PICK k : k = Min(Unstarted)
  OBVIOUS
<1>3. k \in DOMAIN shards
  <2>1. DOMAIN shards = 1..pcaJob.workers
    BY <1>1, Launched
  <2>2. Unstarted \subseteq DOMAIN shards /\ DOMAIN shards \subseteq Nat
    BY <2>1 DEF Unstarted
  <2>3. k \in Unstarted
    BY <1>1, <1>2, <2>2, MinIn
  <2> QED
    BY <2>2, <2>3
<1>4. /\ shards' = [shards EXCEPT ![k].pc = "running"]
      /\ shards[k].pc = "new"
  <2>1. k \in Unstarted
    <3>1. DOMAIN shards = 1..pcaJob.workers
      BY <1>1, Launched
    <3>2. Unstarted \subseteq Nat
      BY <3>1 DEF Unstarted
    <3> QED
      BY <1>1, <1>2, <3>2, MinIn
  <2> QED
    BY <1>2, <2>1 DEF LaunchShard, Unstarted
<1>5. ShardRight(k)
  BY <1>1, <1>3, Launched
<1>6. /\ DOMAIN shards' = DOMAIN shards /\ \A j \in DOMAIN shards \ {k} : shards'[j] = shards[j]
      /\ shards'[k] = [shards[k] EXCEPT !.pc = "running"]
  BY <1>3, <1>4
<1>7. ShardRight(k)'
  <2>1. ShardOf(k)' = ShardOf(k) /\ FitFrom(0)' = FitFrom(0)
    BY <1>1, SameJob DEF JobKept
  <2>2. PICK t : t = [shards[k] EXCEPT !.pc = "running"]
    OBVIOUS
  <2>3. /\ DOMAIN t = DOMAIN shards[k] /\ t.pc = "running"
        /\ t.first = shards[k].first /\ t.last = shards[k].last /\ t.at = shards[k].at
        /\ t.sums = shards[k].sums /\ shards'[k] = t
    BY <1>5, <1>6, <2>2 DEF ShardRight
  <2>4. BatchOf(t)' = BatchOf(shards[k])
    BY <1>1, <2>3 DEF BatchOf
  <2> QED
    BY <1>1, <1>5, <2>1, <2>3, <2>4 DEF ShardRight
<1> QED
  BY <1>1, <1>3, <1>6, <1>7, OneShard, Launched

LEMMA LaunchFailsKeeps == ASSUME PcaIInv, LaunchFails PROVE PcaIInv'
<1>1. /\ pcaCall.pc \in Launching
      /\ pcaJob' = pcaJob /\ matrix' = matrix /\ pcaDisk' = pcaDisk /\ shards' = shards
      /\ halted' = halted + 1 /\ pcaCall' = [pcaCall EXCEPT !.pc = "rejoin"]
  BY DEF LaunchFails, Launching
<1>2. /\ DOMAIN pcaCall' = CallFields /\ pcaCall'.pc = "rejoin" /\ pcaCall'.state = pcaCall.state
      /\ \A f \in CallFields \ {"pc"} : pcaCall'[f] = pcaCall[f]
  BY <1>1, Launched DEF CallFields
<1>3. JobKept
  BY <1>1, SameJob
<1>4. ASSUME NEW k \in DOMAIN shards PROVE ShardRight(k)'
  <2>1. ShardRight(k) /\ ShardOf(k)' = ShardOf(k) /\ FitFrom(0)' = FitFrom(0)
    BY <1>1, <1>3, Launched DEF JobKept
  <2>2. PICK s : s = shards[k]
    OBVIOUS
  <2>3. BatchOf(s)' = BatchOf(s)
    BY <1>1 DEF BatchOf
  <2> QED
    BY <1>1, <1>2, <2>1, <2>2, <2>3 DEF ShardRight, Launching
<1>5. ShardsRight'
  <2>1. pcaCall'.seen = pcaCall.seen /\ pcaCall'.resume = pcaCall.resume
    BY <1>2 DEF CallFields
  <2> QED
    BY <1>1, <1>2, <1>3, <1>4, <2>1 DEF PcaIInv, ShardsRight, Launching, Over, JobKept
<1>6. /\ pcaCall'.seen = pcaCall.seen /\ pcaCall'.resume = pcaCall.resume
      /\ pcaCall'.at = pcaCall.at /\ pcaCall'.tail = pcaCall.tail
      /\ pcaCall'.result = pcaCall.result
  BY <1>2 DEF CallFields
<1>7. /\ Resident /\ DOMAIN pcaCall'.state = StateFields
      /\ pcaCall'.pc \in Launching \cup {"idle", "done"} /\ halted' \in Nat
      /\ pcaCall'.resume = FALSE /\ pcaCall'.at \in Nat /\ pcaCall'.seen \in Nat
      /\ pcaCall'.tail = <<>>
      /\ pcaCall'.result # <<>> =>
            pcaCall'.result = <<[fit |-> FitFrom(0), scores |-> ScoresFrom(0)]>>
  <2>1. pcaCall'.pc \in Launching
    BY <1>2 DEF Launching
  <2>2. halted \in Nat
    BY <1>1, Launched
  <2>3. halted' \in Nat
    BY <1>1, <2>2
  <2> QED
    BY <1>1, <1>2, <1>6, <2>1, <2>3, Launched
<1> QED
  BY <1>1, <1>2, <1>5, <1>7, ResidentMoves

(* Only the threads of a call in memory run. *)
LEMMA RunningMeans ==
    ASSUME PcaIInv, Running # {}
    PROVE  pcaCall.pc \in Launching
<1>1. shards # <<>>
  BY DEF Running
<1>2. Resident /\ pcaCall.pc \notin Over
  BY <1>1 DEF PcaIInv, ShardsRight
<1> QED
  BY <1>2 DEF PcaIInv, PcaTypeOK, CallRight, Working, Ending, Launching

LEMMA ShardEndsKeeps ==
    ASSUME PcaIInv, NEW k \in DOMAIN shards, ShardEnds(k) PROVE PcaIInv'
<1>1. /\ k \in Running
      /\ pcaJob' = pcaJob /\ matrix' = matrix /\ pcaDisk' = pcaDisk /\ pcaCall' = pcaCall
  BY DEF ShardEnds
<1>2. pcaCall.pc \in Launching
  BY <1>1, RunningMeans
<1>3. /\ ShardRight(k) /\ halted \in Nat /\ DOMAIN shards = 1..pcaJob.workers
  BY <1>2, Launched
<1>4. PICK pc \in {"ended", "failed"} :
          /\ pc = "ended" => shards[k].at = shards[k].last
          /\ shards' = [shards EXCEPT ![k].pc = pc]
          /\ halted' = halted \/ halted' = halted + 1
  BY DEF ShardEnds
<1>5. halted' \in Nat
  BY <1>3, <1>4
<1>6. PICK t : t = [shards[k] EXCEPT !.pc = pc]
  OBVIOUS
<1>7. /\ DOMAIN shards' = DOMAIN shards /\ \A j \in DOMAIN shards \ {k} : shards'[j] = shards[j]
      /\ shards'[k] = t
  BY <1>4, <1>6
<1>8. ShardRight(k)'
  <2>1. ShardOf(k)' = ShardOf(k) /\ FitFrom(0)' = FitFrom(0)
    BY <1>1, SameJob DEF JobKept
  <2>2. /\ DOMAIN t = DOMAIN shards[k] /\ t.pc = pc
        /\ t.first = shards[k].first /\ t.last = shards[k].last /\ t.at = shards[k].at
        /\ t.sums = shards[k].sums
    BY <1>3, <1>6 DEF ShardRight
  <2>3. BatchOf(t)' = BatchOf(shards[k])
    BY <1>1, <2>2 DEF BatchOf
  <2> QED
    BY <1>1, <1>3, <1>4, <1>7, <2>1, <2>2, <2>3 DEF ShardRight
<1> QED
  BY <1>1, <1>2, <1>5, <1>7, <1>8, OneShard

(* A batch more. *)
LEMMA ShardBatchKeeps ==
    ASSUME PcaIInv, NEW k \in DOMAIN shards, ShardBatch(k) PROVE PcaIInv'
<1> DEFINE s == shards[k]
           d == BatchOf(s)
           fit == pcaCall.state.fit
<1>1. /\ k \in Running /\ s.at < s.last
      /\ pcaJob' = pcaJob /\ matrix' = matrix /\ pcaDisk' = pcaDisk /\ pcaCall' = pcaCall
      /\ halted' = halted
  BY DEF ShardBatch
<1>2. pcaCall.pc \in Launching
  BY <1>1, RunningMeans
<1>3. /\ ShardRight(k) /\ halted \in Nat /\ DOMAIN shards = 1..pcaJob.workers
      /\ pcaCall.seen = 0 /\ fit \in {<<>>, FitFrom(0)} /\ pcaJob \in PcaJobs /\ Resident
  BY <1>2, Launched
<1>4. /\ s.first = ShardOf(k).first /\ s.last = ShardOf(k).last /\ s.at \in s.first..s.last
      /\ (s.at - s.first) % d = 0
      /\ s.sums = IF fit = <<>> THEN <<InChunks(s.first, s.at, d, 0)>>
                  ELSE <<[i \in 1..(s.at - s.first) |-> ScoreAt(FitFrom(0), s.first + i, 0)]>>
      /\ DOMAIN s = {"pc", "first", "last", "at", "sums"} /\ s.pc = "running"
  BY <1>1, <1>2, <1>3 DEF ShardRight, Running
<1>5. /\ s.first \in Nat /\ s.last \in Nat /\ s.at \in Nat /\ s.first <= s.at /\ d \in Nat \ {0}
  <2>1. /\ ShardOf(k).first \in Nat /\ ShardOf(k).last \in Nat
        /\ BatchOf(ShardOf(k)) \in Nat \ {0}
    BY <1>3, ShardCuts
  <2>2. d = BatchOf(ShardOf(k))
    BY <1>4 DEF BatchOf
  <2>3. s.first \in Nat /\ s.last \in Nat
    BY <1>4, <2>1
  <2> HIDE DEF d
  <2> QED
    BY <1>4, <2>1, <2>2, <2>3
<1>6. PICK end : end = Min({s.at + d, s.last})
  OBVIOUS
<1>7. /\ end \in Nat /\ s.at < end /\ end <= s.last /\ end - s.at <= d
      /\ end = s.last \/ (end = s.at + d)
  <2>1. s.at + d \in Int /\ s.last \in Int
    BY <1>5
  <2>2. end = IF s.at + d <= s.last THEN s.at + d ELSE s.last
    BY <1>6, <2>1, MinOfTwo
  <2> HIDE DEF d
  <2> QED
    BY <1>1, <1>5, <2>2
<1>8. end = s.last \/ (end - s.first) % d = 0
  <2>1. PICK e : e = d
    OBVIOUS
  <2>2. PICK a : a = s.at - s.first
    OBVIOUS
  <2>3. PICK q : q = a \div e
    OBVIOUS
  <2>4. a \in Nat /\ e \in Nat \ {0} /\ a % e = 0
    BY <1>4, <1>5, <2>1, <2>2
  <2>5. q \in Nat /\ a = q * e + 0
    BY <2>3, <2>4, Division
  <2>6. a + e = (q + 1) * e + 0 /\ q + 1 \in Nat
    BY <2>4, <2>5
  <2>7. ((q + 1) * e + 0) % e = 0
    BY <2>4, <2>6, Quotient
  <2>8. (a + e) % e = 0
    BY <2>6, <2>7
  <2>9. (s.at + e) - s.first = a + e
    BY <1>5, <2>2, <2>4
  <2> HIDE DEF d
  <2> QED
    BY <1>7, <2>1, <2>8, <2>9
<1> DEFINE rows == RowRange(s.at, end, 0)
           new == IF fit = <<>> THEN AddedByGpu(s.sums, s.at, end, 0)
                  ELSE <<s.sums[1] \o [i \in DOMAIN rows |-> ScoreOf(fit, rows[i])]>>
<1>9. shards' = [shards EXCEPT ![k].at = end, ![k].sums = new]
  BY <1>3, <1>6 DEF ShardBatch, BatchOf
<1>10. new = IF fit = <<>> THEN <<InChunks(s.first, end, d, 0)>>
             ELSE <<[i \in 1..(end - s.first) |-> ScoreAt(FitFrom(0), s.first + i, 0)]>>
  <2>1. CASE fit = <<>>
    <3>1. Append(InChunks(s.first, s.at, d, 0), RowRange(s.at, end, 0)) = InChunks(s.first, end, d, 0)
      <4>1. PICK x : x = s.first
        OBVIOUS
      <4>2. PICK y : y = s.at
        OBVIOUS
      <4>3. PICK e : e = d
        OBVIOUS
      <4>4. /\ x \in Nat /\ y \in Nat /\ end \in Nat /\ e \in Nat \ {0} /\ x <= y /\ y < end
            /\ end - y <= e /\ (y - x) % e = 0
        BY <1>4, <1>5, <1>7, <4>1, <4>2, <4>3
      <4>5. PICK z : z = 0
        OBVIOUS
      <4>6. Append(InChunks(x, y, e, z), RowRange(y, end, z)) = InChunks(x, end, e, z)
        BY <4>4, ChunkAdds
      <4> QED
        BY <4>1, <4>2, <4>3, <4>5, <4>6
    <3>2. s.sums[1] = InChunks(s.first, s.at, d, 0)
      BY <1>4, <2>1
    <3> QED
      BY <2>1, <3>1, <3>2 DEF AddedByGpu
  <2>2. CASE fit # <<>>
    <3> DEFINE m == s.at - s.first
               n == end - s.at
               f == [i \in 1..m |-> ScoreAt(FitFrom(0), s.first + i, 0)]
               g == [i \in 1..n |-> ScoreAt(FitFrom(0), s.at + i, 0)]
               h == [i \in 1..(end - s.first) |-> ScoreAt(FitFrom(0), s.first + i, 0)]
    <3>1. m \in Nat /\ n \in Nat /\ m + n = end - s.first /\ s.first + m = s.at
      BY <1>5, <1>7
    <3>2. s.sums[1] = f /\ fit = FitFrom(0)
      BY <1>3, <1>4, <2>2
    <3>3. [i \in DOMAIN rows |-> ScoreOf(fit, rows[i])] = g
      <4>1. rows = [i \in 1..n |-> RowAt(s.at + i, 0)]
        BY DEF RowRange, RowAt
      <4> QED
        BY <3>2, <4>1 DEF ScoreAt
    <3>4. f = [i \in 1..m |-> f[i]] /\ g = [i \in 1..n |-> g[i]]
      OBVIOUS
    <3>5. \A i \in 1..(m + n) : (IF i <= m THEN f[i] ELSE g[i - m]) = ScoreAt(FitFrom(0), s.first + i, 0)
      <4> SUFFICES ASSUME NEW i \in 1..(m + n)
                   PROVE  (IF i <= m THEN f[i] ELSE g[i - m]) = ScoreAt(FitFrom(0), s.first + i, 0)
        OBVIOUS
      <4>1. CASE i <= m
        <5>1. i \in 1..m
          BY <3>1, <4>1
        <5> QED
          BY <4>1, <5>1
      <4>2. CASE ~(i <= m)
        <5>1. i - m \in 1..n /\ s.at + (i - m) = s.first + i
          <6>1. m \in Int /\ i \in Int /\ n \in Int /\ s.first \in Int
            BY <1>5, <3>1
          <6>2. s.at = s.first + m
            BY <3>1
          <6> HIDE DEF m, n
          <6> QED
            BY <3>1, <4>2, <6>1, <6>2
        <5>2. g[i - m] = ScoreAt(FitFrom(0), s.at + (i - m), 0)
          <6>1. \A j \in 1..n : g[j] = ScoreAt(FitFrom(0), s.at + j, 0)
            OBVIOUS
          <6> HIDE DEF m, n, g
          <6> QED
            BY <5>1, <6>1
        <5> HIDE DEF m, n, g, f
        <5> QED
          BY <4>2, <5>1, <5>2
      <4> QED
        BY <4>1, <4>2
    <3>6. h = [i \in 1..(m + n) |-> ScoreAt(FitFrom(0), s.first + i, 0)]
      BY <3>1
    <3>7. f \o g = h
      <4> HIDE DEF f, g, m, n, h
      <4>1. f \o g = [i \in 1..(m + n) |-> IF i <= m THEN f[i] ELSE g[i - m]]
        BY <3>1, <3>4, BuiltJoin
      <4> QED
        BY <3>5, <3>6, <4>1
    <3> HIDE DEF rows, f, g, h
    <3>8. new = <<h>>
      BY <2>2, <3>2, <3>3, <3>7
    <3> QED
      BY <2>2, <3>8 DEF h
  <2> QED
    BY <2>1, <2>2
<1>11. PICK x : x = new
  OBVIOUS
<1>12. PICK t : t = [s EXCEPT !.at = end, !.sums = x]
  OBVIOUS
<1>13. /\ DOMAIN shards' = DOMAIN shards /\ \A j \in DOMAIN shards \ {k} : shards'[j] = shards[j]
       /\ shards'[k] = t
  <2>1. shards' = [shards EXCEPT ![k].at = end, ![k].sums = x]
    BY <1>9, <1>11
  <2> QED
    BY <1>12, <2>1
<1>14. ShardRight(k)'
  <2>1. ShardOf(k)' = ShardOf(k) /\ FitFrom(0)' = FitFrom(0)
    BY <1>1, SameJob DEF JobKept
  <2>2. /\ DOMAIN t = DOMAIN s /\ t.pc = "running"
        /\ t.first = s.first /\ t.last = s.last /\ t.at = end /\ t.sums = x
    BY <1>4, <1>12
  <2>3. BatchOf(t)' = d
    BY <1>1, <2>2 DEF BatchOf
  <2>4. end \in t.first..t.last /\ (end = t.last \/ (end - t.first) % d = 0)
    BY <1>5, <1>7, <1>8, <2>2
  <2>5. x = IF fit = <<>> THEN <<InChunks(t.first, end, d, 0)>>
            ELSE <<[i \in 1..(end - t.first) |-> ScoreAt(FitFrom(0), t.first + i, 0)]>>
    <3> HIDE DEF new, d, fit
    <3> QED
      BY <1>10, <1>11, <2>2
  <2>6. t.first = ShardOf(k).first /\ t.last = ShardOf(k).last
    BY <1>4, <2>2
  <2>7. DOMAIN t = {"pc", "first", "last", "at", "sums"}
    BY <1>4, <2>2
  <2> HIDE DEF new, d, rows
  <2> QED
    BY <1>1, <1>2, <1>13, <2>1, <2>2, <2>3, <2>4, <2>5, <2>6, <2>7 DEF ShardRight
<1> QED
  BY <1>1, <1>2, <1>3, <1>13, <1>14, OneShard

(* The threads of a call begin with the fit, or with the scores. *)
LEMMA ShardBegins ==
    ASSUME pcaJob \in PcaJobs, Resident, NEW k \in 1..pcaJob.workers
    PROVE  /\ ShardOf(k).at = ShardOf(k).first /\ ShardOf(k).at \in ShardOf(k).first..ShardOf(k).last
           /\ DOMAIN ShardOf(k) = {"pc", "first", "last", "at", "sums"} /\ ShardOf(k).pc = "new"
           /\ (ShardOf(k).at - ShardOf(k).first) % BatchOf(ShardOf(k)) = 0
           /\ ShardOf(k).sums = <<InChunks(ShardOf(k).first, ShardOf(k).at, BatchOf(ShardOf(k)), 0)>>
           /\ ShardOf(k).sums =
                 <<[i \in 1..(ShardOf(k).at - ShardOf(k).first) |->
                        ScoreAt(FitFrom(0), ShardOf(k).first + i, 0)]>>
<1> DEFINE d == BatchOf(ShardOf(k))
           a == ShardOf(k).first
<1>1. a \in Nat /\ d \in Nat \ {0} /\ ShardOf(k).last \in Nat /\ a < ShardOf(k).last
  BY ShardCuts
<1>2. /\ ShardOf(k).at = a /\ DOMAIN ShardOf(k) = {"pc", "first", "last", "at", "sums"}
      /\ ShardOf(k).pc = "new" /\ ShardOf(k).sums = <<<<>>>>
  <2>1. Zero(1) = <<<<>>>>
    BY DEF Zero
  <2> QED
    BY <2>1 DEF ShardOf
<1> HIDE DEF d, a
<1>3. (a - a) % d = 0 /\ a - a = 0
  <2>1. (0 * d + 0) % d = 0
    BY <1>1, Quotient
  <2> QED
    BY <1>1, <2>1
<1>4. InChunks(a, a, d, 0) = <<>>
  <2>1. PICK z : z = 0
    OBVIOUS
  <2>2. InChunks(a, a, d, z) = <<>>
    BY <1>1, NoChunks
  <2> QED
    BY <2>1, <2>2
<1>5. [i \in 1..(a - a) |-> ScoreAt(FitFrom(0), a + i, 0)] = <<>>
  BY <1>3
<1>6. a \in a..ShardOf(k).last
  BY <1>1
<1> QED
  BY <1>2, <1>3, <1>4, <1>5, <1>6 DEF d, a

LEMMA ShardsBegin ==
    ASSUME PcaIInv, Resident, pcaJob' = pcaJob, matrix' = matrix,
           pcaDisk' = pcaDisk, halted' = halted, shards' = Sharded,
           DOMAIN pcaCall' = CallFields, DOMAIN pcaCall'.state = StateFields,
           pcaCall'.pc \in Launching, pcaCall'.resume = FALSE, pcaCall'.at \in Nat,
           pcaCall'.seen = 0, pcaCall'.seen \in Nat, pcaCall'.tail = <<>>,
           pcaCall'.result = <<>> \/
              pcaCall'.result = <<[fit |-> FitFrom(0), scores |-> ScoresFrom(0)]>>,
           pcaCall'.state.fit \in {<<>>, FitFrom(0)},
           pcaCall'.state.moments =
              <<IF pcaJob.centered THEN <<[r \in 1..NRows |-> RowAt(r, 0)]>> ELSE <<>>>>
    PROVE  PcaIInv'
<1>1. pcaJob \in PcaJobs /\ halted \in Nat /\ JobKept
  BY SameJob DEF PcaIInv, PcaTypeOK
<1>2. DOMAIN shards' = 1..pcaJob.workers /\ \A k \in 1..pcaJob.workers : shards'[k] = ShardOf(k)
  BY DEF Sharded
<1>3. ASSUME NEW k \in 1..pcaJob.workers PROVE ShardRight(k)'
  <2>1. PICK s : s = ShardOf(k)
    OBVIOUS
  <2>2. shards'[k] = s /\ ShardOf(k)' = s /\ FitFrom(0)' = FitFrom(0)
    BY <1>1, <1>2, <2>1 DEF JobKept
  <2>3. BatchOf(s)' = BatchOf(s)
    BY DEF BatchOf
  <2>4. /\ s.at = s.first /\ s.at \in s.first..s.last
        /\ DOMAIN s = {"pc", "first", "last", "at", "sums"} /\ s.pc = "new"
        /\ (s.at - s.first) % BatchOf(s) = 0
        /\ s.sums = <<InChunks(s.first, s.at, BatchOf(s), 0)>>
        /\ s.sums = <<[i \in 1..(s.at - s.first) |-> ScoreAt(FitFrom(0), s.first + i, 0)]>>
    BY <1>1, <2>1, ShardBegins
  <2> QED
    BY <2>2, <2>3, <2>4 DEF ShardRight
<1>4. ShardsRight'
  <2>1. /\ NRows' = NRows /\ Resident' = Resident /\ FitFrom(0)' = FitFrom(0)
        /\ pcaCall'.pc \notin Over
    BY <1>1 DEF JobKept, Launching, Over
  <2>2. matrix = 0
    BY DEF PcaIInv, ShardsRight
  <2>3. \A k \in DOMAIN shards' : ShardRight(k)'
    BY <1>2, <1>3
  <2> QED
    BY <1>2, <2>1, <2>2, <2>3 DEF ShardsRight
<1> QED
  BY <1>1, <1>4, ResidentMoves

LEMMA CallResidentKeeps == ASSUME PcaIInv, CallResident PROVE PcaIInv'
<1>1. /\ Resident /\ pcaJob' = pcaJob /\ matrix' = matrix /\ pcaDisk' = pcaDisk
      /\ halted' = halted /\ shards' = Sharded
      /\ pcaCall' = [AtRest("launch", FALSE) EXCEPT !.seen = matrix, !.state.moments =
            IF pcaJob.centered THEN <<<<RowRange(0, NRows, matrix)>>>> ELSE <<<<>>>>]
  BY DEF CallResident
<1>2. matrix = 0 /\ NRows \in Nat
  BY <1>1, JobFacts DEF PcaIInv, ShardsRight, PcaTypeOK
<1>3. RowRange(0, NRows, 0) = [r \in 1..NRows |-> RowAt(r, 0)]
  <2>1. NRows - 0 = NRows /\ \A r \in 1..NRows : 0 + r = r
    BY <1>2
  <2>2. RowRange(0, NRows, 0) = [i \in 1..NRows |-> RowAt(0 + i, 0)]
    BY <2>1 DEF RowRange, RowAt
  <2> QED
    BY <2>1, <2>2
<1>4. PICK m : m = IF pcaJob.centered THEN <<<<RowRange(0, NRows, matrix)>>>> ELSE <<<<>>>>
  OBVIOUS
<1>5. m = <<IF pcaJob.centered THEN <<[r \in 1..NRows |-> RowAt(r, 0)]>> ELSE <<>>>>
  BY <1>2, <1>3, <1>4
<1>6. /\ DOMAIN pcaCall' = CallFields /\ DOMAIN pcaCall'.state = StateFields
      /\ pcaCall'.pc = "launch" /\ pcaCall'.resume = FALSE /\ pcaCall'.at = 0
      /\ pcaCall'.seen = 0 /\ pcaCall'.tail = <<>> /\ pcaCall'.result = <<>>
      /\ pcaCall'.state.fit = <<>> /\ pcaCall'.state.moments = m
  BY <1>1, <1>2, <1>4 DEF AtRest, Fresh, CallFields, StateFields
<1>7. pcaCall'.at \in Nat /\ pcaCall'.seen \in Nat /\ pcaCall'.pc \in Launching
  BY <1>6 DEF Launching
<1> QED
  BY <1>1, <1>5, <1>6, <1>7, ShardsBegin

(* Threads that have all ended have what belongs to all of their rows. *)
LEMMA AllEnded ==
    ASSUME PcaIInv, pcaCall.pc = "launch", Unstarted = {}, Running = {},
           \A k \in DOMAIN shards : shards[k].pc # "failed",
           NEW k \in 1..pcaJob.workers
    PROVE  /\ k \in DOMAIN shards
           /\ shards[k].first = ShardOf(k).first /\ shards[k].last = ShardOf(k).last
           /\ shards[k].sums =
                 IF pcaCall.state.fit = <<>>
                 THEN <<InChunks(ShardOf(k).first, ShardOf(k).last, BatchOf(ShardOf(k)), 0)>>
                 ELSE <<[i \in 1..(ShardOf(k).last - ShardOf(k).first) |->
                             ScoreAt(FitFrom(0), ShardOf(k).first + i, 0)]>>
<1>1. pcaCall.pc \in Launching
  BY DEF Launching
<1>2. k \in DOMAIN shards /\ ShardRight(k)
  BY <1>1, Launched
<1>3. shards[k].pc = "ended"
  BY <1>2 DEF ShardRight, Running, Unstarted
<1>4. /\ shards[k].first = ShardOf(k).first /\ shards[k].last = ShardOf(k).last
      /\ shards[k].at = ShardOf(k).last
  BY <1>2, <1>3 DEF ShardRight
<1>5. BatchOf(shards[k]) = BatchOf(ShardOf(k))
  BY <1>4 DEF BatchOf
<1> QED
  BY <1>1, <1>2, <1>4, <1>5 DEF ShardRight

(* The moments of a matrix in memory, and the sums of its shards. *)
LEMMA FitOfShards ==
    ASSUME Resident, NEW m, NEW all,
           m = IF pcaJob.centered THEN <<[r \in 1..NRows |-> RowAt(r, 0)]>> ELSE <<>>,
           all = [k \in 1..pcaJob.workers |->
                    InChunks(ShardOf(k).first, ShardOf(k).last, BatchOf(ShardOf(k)), 0)]
    PROVE  Append(<<m>>, all) = FitFrom(0) /\ FitFrom(0) # <<>>
<1>1. ~Wide
  BY DEF Wide, Resident
<1>2. FitFrom(0) = <<m, all>>
  BY <1>1 DEF FitFrom, BatchOf
<1>3. Append(<<m>>, all) = <<m, all>>
  BY AppendOne
<1>4. \A x, y : <<x, y>> # <<>>
  OBVIOUS
<1>5. PICK pair : pair = <<m, all>>
  OBVIOUS
<1>6. Append(<<m>>, all) = pair /\ FitFrom(0) = pair
  BY <1>2, <1>3, <1>5
<1>7. pair # <<>>
  BY <1>4, <1>5
<1> QED
  BY <1>6, <1>7

(* Each row is in one shard. *)
LEMMA ShardOfRow ==
    ASSUME pcaJob \in PcaJobs, Resident, DOMAIN shards = 1..pcaJob.workers,
           \A k \in DOMAIN shards : /\ shards[k].first = ShardOf(k).first
                                    /\ shards[k].last = ShardOf(k).last,
           NEW r \in 1..NRows
    PROVE  /\ ShardHolding(r) \in DOMAIN shards
           /\ ShardOf(ShardHolding(r)).first < r /\ r <= ShardOf(ShardHolding(r)).last
<1>1. /\ NRows \in Nat /\ pcaJob.workers \in Nat \ {0}
  BY JobFacts
<1>2. PICK n : n = NRows
  OBVIOUS
<1>3. PICK t : t = pcaJob.workers
  OBVIOUS
<1>4. r - 1 \in 0..(n - 1) /\ n \in Nat /\ t \in Nat \ {0} /\ r \in Nat
  BY <1>1, <1>2, <1>3
<1>5. PICK w \in 1..t : Cut(n, t, w - 1) <= r - 1 /\ r - 1 < Cut(n, t, w)
  BY <1>4, OneThread
<1>6. /\ ShardOf(w).first = Cut(n, t, w - 1) /\ ShardOf(w).last = Cut(n, t, w)
      /\ ShardOf(w).first \in Nat /\ ShardOf(w).last \in Nat
  BY <1>2, <1>3, <1>5, ShardCuts
<1>7. ShardOf(w).first < r /\ r <= ShardOf(w).last
  BY <1>4, <1>5, <1>6
<1>8. \E k \in DOMAIN shards : shards[k].first < r /\ r <= shards[k].last
  BY <1>3, <1>7
<1>9. PICK h : h = ShardHolding(r)
  OBVIOUS
<1>10. h \in DOMAIN shards /\ shards[h].first < r /\ r <= shards[h].last
  BY <1>8, <1>9 DEF ShardHolding
<1> QED
  BY <1>9, <1>10

LEMMA JoinShardsKeeps == ASSUME PcaIInv, JoinShards PROVE PcaIInv'
<1> DEFINE all == [k \in DOMAIN shards |-> shards[k].sums[1]]
           fit == Append(pcaCall.state.moments, all)
           scores == [r \in 1..NRows |-> all[ShardHolding(r)][r - shards[ShardHolding(r)].first]]
           wrong == pcaCall.pc = "rejoin" \/ \E k \in DOMAIN shards : shards[k].pc = "failed"
<1>1. /\ pcaCall.pc \in Launching /\ (pcaCall.pc = "launch" => Unstarted = {}) /\ Running = {}
      /\ pcaJob' = pcaJob /\ matrix' = matrix /\ pcaDisk' = pcaDisk /\ halted' = halted
      /\ IF wrong THEN PcaEnds("idle") /\ UNCHANGED shards
         ELSE IF pcaCall.state.fit = <<>>
         THEN pcaCall' = [pcaCall EXCEPT !.state.fit = fit] /\ shards' = Sharded
         ELSE /\ pcaCall' = [AtRest("done", FALSE) EXCEPT
                       !.result = <<[fit |-> pcaCall.state.fit, scores |-> scores]>>]
              /\ UNCHANGED shards
  BY DEF JoinShards, Joined, Launching
<1>2. /\ Resident /\ matrix = 0 /\ pcaJob \in PcaJobs
      /\ DOMAIN pcaCall = CallFields /\ DOMAIN pcaCall.state = StateFields
      /\ pcaCall.resume = FALSE /\ pcaCall.at \in Nat
      /\ pcaCall.seen = 0 /\ pcaCall.seen \in Nat /\ pcaCall.tail = <<>>
      /\ DOMAIN shards = 1..pcaJob.workers /\ halted \in Nat
      /\ pcaCall.state.fit \in {<<>>, FitFrom(0)}
  BY <1>1, Launched
<1>3. JobKept
  BY <1>1, SameJob
<1>4. pcaCall.result # <<>> =>
         pcaCall.result = <<[fit |-> FitFrom(0), scores |-> ScoresFrom(0)]>>
  BY DEF PcaIInv, NamesRight
<1>5. pcaCall.state.moments =
         <<IF pcaJob.centered THEN <<[r \in 1..NRows |-> RowAt(r, 0)]>> ELSE <<>>>>
  BY <1>1 DEF PcaIInv, ShardsRight
<1> HIDE DEF wrong, scores, fit
<1>6. ASSUME pcaCall'.pc \in Over, shards' = shards PROVE ShardsRight'
  <2>1. pcaCall'.pc \notin Launching /\ Resident' = Resident
    BY <1>3, <1>6 DEF Over, Launching, JobKept
  <2> QED
    BY <1>1, <1>2, <1>6, <2>1 DEF ShardsRight, Running
<1>7. CASE wrong
  <2>1. pcaCall' = AtRest("idle", FALSE) /\ shards' = shards
    BY <1>1, <1>2, <1>7 DEF PcaEnds
  <2>2. /\ DOMAIN pcaCall' = CallFields /\ DOMAIN pcaCall'.state = StateFields
        /\ pcaCall'.pc = "idle" /\ pcaCall'.resume = FALSE /\ pcaCall'.at = 0
        /\ pcaCall'.seen = 0 /\ pcaCall'.tail = <<>> /\ pcaCall'.result = <<>>
    BY <2>1 DEF AtRest, Fresh, CallFields, StateFields
  <2>3. /\ pcaCall'.pc \in Launching \cup {"idle", "done"} /\ pcaCall'.pc \in Over
        /\ pcaCall'.at \in Nat /\ pcaCall'.seen \in Nat /\ halted' \in Nat
    BY <1>1, <1>2, <2>2 DEF Over
  <2>4. ShardsRight'
    BY <1>6, <2>1, <2>3
  <2> QED
    BY <1>1, <1>2, <2>2, <2>3, <2>4, ResidentMoves
<1>8. CASE ~wrong /\ pcaCall.state.fit = <<>>
  <2>1. pcaCall' = [pcaCall EXCEPT !.state.fit = fit] /\ shards' = Sharded
    BY <1>1, <1>8
  <2>2. pcaCall.pc = "launch" /\ \A k \in DOMAIN shards : shards[k].pc # "failed"
    BY <1>1, <1>8 DEF wrong, Launching
  <2>3. all = [k \in 1..pcaJob.workers |->
                  InChunks(ShardOf(k).first, ShardOf(k).last, BatchOf(ShardOf(k)), 0)]
    <3>1. ASSUME NEW k \in 1..pcaJob.workers
          PROVE  shards[k].sums[1]
                    = InChunks(ShardOf(k).first, ShardOf(k).last, BatchOf(ShardOf(k)), 0)
      <4>1. shards[k].sums = <<InChunks(ShardOf(k).first, ShardOf(k).last,
                                        BatchOf(ShardOf(k)), 0)>>
        BY <1>1, <1>8, <2>2, AllEnded
      <4> QED
        BY <4>1
    <3> QED
      BY <1>2, <3>1
  <2>4. fit = FitFrom(0)
    <3>1. PICK m : m = IF pcaJob.centered THEN <<[r \in 1..NRows |-> RowAt(r, 0)]>> ELSE <<>>
      OBVIOUS
    <3>2. fit = Append(<<m>>, all)
      BY <1>5, <3>1 DEF fit
    <3> HIDE DEF all
    <3> QED
      BY <1>2, <2>3, <3>1, <3>2, FitOfShards
  <2>5. PICK s : s = [pcaCall.state EXCEPT !.fit = fit]
    OBVIOUS
  <2>6. /\ DOMAIN pcaCall' = CallFields /\ pcaCall'.state = s
        /\ \A f \in CallFields \ {"state"} : pcaCall'[f] = pcaCall[f]
    BY <1>2, <2>1, <2>5 DEF CallFields
  <2>7. DOMAIN s = StateFields /\ s.fit = fit /\ s.moments = pcaCall.state.moments
    BY <1>2, <2>5 DEF StateFields
  <2>8. /\ pcaCall'.pc = pcaCall.pc /\ pcaCall'.resume = pcaCall.resume
        /\ pcaCall'.at = pcaCall.at /\ pcaCall'.seen = pcaCall.seen
        /\ pcaCall'.tail = pcaCall.tail /\ pcaCall'.result = pcaCall.result
    BY <2>6 DEF CallFields
  <2>9. /\ pcaCall'.pc \in Launching /\ pcaCall'.resume = FALSE /\ pcaCall'.at \in Nat
        /\ pcaCall'.seen = 0 /\ pcaCall'.seen \in Nat /\ pcaCall'.tail = <<>>
    BY <1>1, <1>2, <2>8
  <2>10. pcaCall'.result = <<>> \/
            pcaCall'.result = <<[fit |-> FitFrom(0), scores |-> ScoresFrom(0)]>>
    BY <1>4, <2>8
  <2>11. /\ DOMAIN pcaCall'.state = StateFields /\ pcaCall'.state.fit \in {<<>>, FitFrom(0)}
         /\ pcaCall'.state.moments =
               <<IF pcaJob.centered THEN <<[r \in 1..NRows |-> RowAt(r, 0)]>> ELSE <<>>>>
    BY <1>5, <2>4, <2>6, <2>7
  <2> QED
    BY <1>1, <1>2, <2>1, <2>6, <2>9, <2>10, <2>11, ShardsBegin
<1>9. CASE ~wrong /\ pcaCall.state.fit # <<>>
  <2>1. /\ shards' = shards /\ pcaCall.state.fit = FitFrom(0)
        /\ pcaCall' = [AtRest("done", FALSE) EXCEPT
                       !.result = <<[fit |-> FitFrom(0), scores |-> scores]>>]
    BY <1>1, <1>2, <1>9
  <2>2. pcaCall.pc = "launch" /\ \A k \in DOMAIN shards : shards[k].pc # "failed"
    BY <1>1, <1>9 DEF wrong, Launching
  <2>3. ASSUME NEW k \in DOMAIN shards
        PROVE  /\ shards[k].first = ShardOf(k).first /\ shards[k].last = ShardOf(k).last
               /\ all[k] = [i \in 1..(ShardOf(k).last - ShardOf(k).first) |->
                                ScoreAt(FitFrom(0), ShardOf(k).first + i, 0)]
    <3>1. /\ shards[k].first = ShardOf(k).first /\ shards[k].last = ShardOf(k).last
          /\ shards[k].sums = <<[i \in 1..(ShardOf(k).last - ShardOf(k).first) |->
                                     ScoreAt(FitFrom(0), ShardOf(k).first + i, 0)]>>
      BY <1>1, <1>2, <1>9, <2>2, AllEnded
    <3> QED
      BY <3>1
  <2>4. scores = ScoresFrom(0)
    <3>1. ASSUME NEW r \in 1..NRows
          PROVE  all[ShardHolding(r)][r - shards[ShardHolding(r)].first]
                    = ScoreOf(FitFrom(0), RowAt(r, 0))
      <4>1. PICK h : h = ShardHolding(r)
        OBVIOUS
      <4>2. h \in DOMAIN shards /\ ShardOf(h).first < r /\ r <= ShardOf(h).last
        BY <1>2, <2>3, <4>1, ShardOfRow
      <4>3. ShardOf(h).first \in Nat /\ ShardOf(h).last \in Nat
        BY <1>2, <4>2, ShardCuts
      <4>4. r \in Nat
        BY <1>2, JobFacts
      <4>5. PICK i : i = r - ShardOf(h).first
        OBVIOUS
      <4>6. i \in 1..(ShardOf(h).last - ShardOf(h).first) /\ ShardOf(h).first + i = r
        BY <4>2, <4>3, <4>4, <4>5
      <4>7. all[h][i] = ScoreAt(FitFrom(0), ShardOf(h).first + i, 0)
        BY <2>3, <4>2, <4>6
      <4>8. shards[h].first = ShardOf(h).first
        BY <2>3, <4>2
      <4> HIDE DEF all
      <4> QED
        BY <4>1, <4>5, <4>6, <4>7, <4>8 DEF ScoreAt
    <3> HIDE DEF all
    <3> QED
      BY <3>1 DEF scores, ScoresFrom
  <2>5. /\ DOMAIN pcaCall' = CallFields /\ DOMAIN pcaCall'.state = StateFields
        /\ pcaCall'.pc = "done" /\ pcaCall'.resume = FALSE /\ pcaCall'.at = 0
        /\ pcaCall'.seen = 0 /\ pcaCall'.tail = <<>>
        /\ pcaCall'.result = <<[fit |-> FitFrom(0), scores |-> scores]>>
    BY <2>1 DEF AtRest, Fresh, CallFields, StateFields
  <2>6. /\ pcaCall'.pc \in Launching \cup {"idle", "done"} /\ pcaCall'.pc \in Over
        /\ pcaCall'.at \in Nat /\ pcaCall'.seen \in Nat /\ halted' \in Nat
    BY <1>1, <1>2, <2>5 DEF Over
  <2>7. ShardsRight'
    BY <1>6, <2>1, <2>6
  <2> QED
    BY <1>1, <1>2, <2>4, <2>5, <2>6, <2>7, ResidentMoves
<1> QED
  BY <1>7, <1>8, <1>9

LEMMA NewerKeeps ==
    ASSUME PcaIInv, matrix' \in 0..PcaVersions, matrix <= matrix', Resident => matrix' = matrix,
           pcaJob' = pcaJob, pcaDisk' = pcaDisk, pcaCall' = pcaCall, shards' = shards,
           halted' = halted
    PROVE  PcaIInv'
<1>1. /\ pcaJob' = pcaJob /\ pcaDisk' = pcaDisk /\ pcaCall' = pcaCall /\ shards' = shards
      /\ halted' = halted
  OBVIOUS
<1>2. /\ matrix \in Nat /\ matrix' \in Nat /\ matrix' \in 0..PcaVersions /\ matrix <= matrix' /\ JobKept
  BY <1>1, SameJob, PcaBounds DEF PcaIInv, PcaTypeOK
<1>3. \A q : StateRight(q) => StateRight(q)'
  BY <1>1, <1>2, StateLater
<1>4. PcaTypeOK'
  BY <1>1, <1>2 DEF PcaIInv, PcaTypeOK, Optional, Plain
<1>5. RecordRight'
  BY <1>1, <1>2, RecordStays
<1>6. CallRight'
  <2>1. pcaCall.pc \in Working => StateRight(pcaCall.state)'
    BY <1>1, <1>3 DEF PcaIInv, CallRight
  <2>2. pcaCall.pc \in {"prepare"} \cup Working => pcaCall.seen <= matrix'
    BY <1>1, <1>2 DEF PcaIInv, CallRight, PcaTypeOK
  <2> QED
    BY <1>1, <1>2, <2>1, <2>2 DEF PcaIInv, CallRight, JobKept
<1>7. PassRight' /\ ScoresRight'
  <2>1. PassOnGpu' = PassOnGpu /\ Scored' = Scored
    BY <1>1, <1>2 DEF PassOnGpu, PassesDone, Scored, JobKept
  <2> QED
    BY <1>1, <1>2, <2>1 DEF PcaIInv, PassRight, ScoresRight, JobKept
<1>8. NamesRight'
  <2>1. 0..matrix \subseteq 0..matrix'
    BY <1>2
  <2> QED
    BY <1>1, <1>2, <2>1 DEF PcaIInv, NamesRight, JobKept
<1>9. ShardsRight'
  <2>1. ASSUME pcaCall.pc \in Launching, NEW k \in DOMAIN shards PROVE ShardRight(k)'
    <3>1. ShardRight(k) /\ ShardOf(k)' = ShardOf(k) /\ FitFrom(0)' = FitFrom(0)
      BY <1>2, <2>1, Launched DEF JobKept
    <3>2. PICK s : s = shards[k]
      OBVIOUS
    <3>3. BatchOf(s)' = BatchOf(s)
      BY <1>1 DEF BatchOf
    <3> QED
      BY <1>1, <2>1, <3>1, <3>2, <3>3 DEF ShardRight
  <2>2. /\ NRows' = NRows /\ Resident' = Resident /\ FitFrom(0)' = FitFrom(0)
        /\ Running' = Running
    BY <1>1, <1>2 DEF JobKept, Running
  <2> QED
    BY <1>1, <1>2, <2>1, <2>2 DEF PcaIInv, ShardsRight
<1>10. PcaWorkResumes'
  <2>1. pcaDisk.record # <<>> => pcaDisk.record[1].sign \in 0..matrix
    BY DEF PcaIInv, RecordRight, StateRight
  <2> QED
    BY <1>1, <1>2, <2>1 DEF PcaIInv, PcaWorkResumes
<1> QED
  BY <1>4, <1>5, <1>6, <1>7, <1>8, <1>9, <1>10 DEF PcaIInv

LEMMA ChangeMatrixKeeps == ASSUME PcaIInv, ChangeMatrix PROVE PcaIInv'
<1>1. matrix \in 0..PcaVersions
  BY DEF PcaIInv, PcaTypeOK
<1>2. matrix' \in 0..PcaVersions /\ matrix <= matrix'
  BY <1>1, PcaBounds DEF ChangeMatrix
<1> QED
  BY <1>2, NewerKeeps DEF ChangeMatrix

LEMMA StutterKeeps == ASSUME PcaIInv, UNCHANGED pcaVars PROVE PcaIInv'
<1>1. matrix \in 0..PcaVersions
  BY DEF PcaIInv, PcaTypeOK
<1>2. matrix' \in 0..PcaVersions /\ matrix <= matrix'
  BY <1>1, PcaBounds DEF pcaVars
<1> QED
  BY <1>2, NewerKeeps DEF pcaVars

LEMMA PcaInitRight == PcaInit => PcaIInv
<1> SUFFICES ASSUME PcaInit PROVE PcaIInv
  OBVIOUS
<1>1. /\ pcaJob \in PcaJobs /\ matrix = 0 /\ halted = 0 /\ shards = <<>>
      /\ pcaDisk = [record |-> <<>>, part |-> <<>>, scores |-> <<>>, manifest |-> <<>>,
                     initPart |-> <<>>, init |-> <<>>]
  BY DEF PcaInit
<1>2. /\ DOMAIN pcaCall = CallFields /\ DOMAIN pcaCall.state = StateFields
      /\ pcaCall.pc = "idle" /\ pcaCall.resume = FALSE /\ pcaCall.at = 0
      /\ pcaCall.seen = 0 /\ pcaCall.tail = <<>> /\ pcaCall.result = <<>>
  BY DEF PcaInit, AtRest, Fresh, CallFields, StateFields
<1>3. PcaTypeOK
  <2>1. matrix \in 0..PcaVersions /\ halted \in Nat /\ pcaCall.at \in Nat /\ pcaCall.seen \in Nat
    BY <1>1, <1>2, PcaBounds
  <2>2. /\ DOMAIN pcaDisk = DiskFields /\ pcaDisk.record = <<>> /\ pcaDisk.part = <<>>
    BY <1>1 DEF DiskFields
  <2>3. Plain(pcaCall.tail)
    BY <1>2, EmptyFile
  <2>4. pcaCall.pc \in Over /\ pcaCall.resume \in BOOLEAN
    BY <1>2 DEF Over
  <2> QED
    BY <1>1, <1>2, <2>1, <2>2, <2>3, <2>4 DEF PcaTypeOK, Optional
<1>4. RecordRight /\ PcaWorkResumes
  BY <1>1, <1>2 DEF RecordRight, PcaWorkResumes
<1>5. CallRight /\ PassRight /\ ScoresRight
  BY <1>2 DEF CallRight, PassRight, ScoresRight, Working, Ending, Fitting, Writing, Sealing
<1>6. NamesRight
  BY <1>1, <1>2 DEF NamesRight, Working, Ending, Fitting, Writing, Sealing
<1>7. ShardsRight
  BY <1>1, <1>2 DEF ShardsRight, Launching, Running
<1> QED
  BY <1>3, <1>4, <1>5, <1>6, <1>7 DEF PcaIInv

LEMMA PcaNextKeeps == PcaIInv /\ [PcaNext]_pcaVars => PcaIInv'
<1> SUFFICES ASSUME PcaIInv, [PcaNext]_pcaVars PROVE PcaIInv'
  OBVIOUS
<1>1. CASE PcaFits
  BY <1>1, PrepareKeeps, BeginMeansKeeps, MeanChunkKeeps, EndMeansKeeps, BeginCrossKeeps,
     EnterCrossKeeps, CrossChunkKeeps, EndCrossKeeps, BeginPassKeeps, PassChunkKeeps,
     EndPassKeeps, SaveMomentsKeeps, EndSketchKeeps, ReuseFitKeeps
  DEF PcaFits
<1>2. CASE PcaWrites
  BY <1>2, OpenSinkKeeps, ScoreChunkKeeps, FlushScoresKeeps, RecordScoresKeeps, NameScoresKeeps,
     VouchPcaKeeps, UnlinkRecordKeeps, WriteInitKeeps, NameInitKeeps, AttachInitKeeps
  DEF PcaWrites
<1>3. CASE PcaShards
  <2>1. CASE CallResident \/ LaunchShard \/ LaunchFails \/ JoinShards
    BY <2>1, CallResidentKeeps, LaunchShardKeeps, LaunchFailsKeeps, JoinShardsKeeps
  <2>2. ASSUME NEW k \in DOMAIN shards, ShardBatch(k) \/ ShardEnds(k) PROVE PcaIInv'
    BY <2>2, ShardBatchKeeps, ShardEndsKeeps
  <2> QED
    BY <1>3, <2>1, <2>2 DEF PcaShards
<1>4. CASE HaltPca
  BY <1>4, HaltPcaKeeps
<1>5. CASE ChangeMatrix
  BY <1>5, ChangeMatrixKeeps
<1>6. ASSUME NEW resume \in BOOLEAN, CallPca(resume) PROVE PcaIInv'
  BY <1>6, CallPcaKeeps
<1>7. CASE UNCHANGED pcaVars
  BY <1>7, StutterKeeps
<1> QED
  BY <1>1, <1>2, <1>3, <1>4, <1>5, <1>6, <1>7 DEF PcaNext

LEMMA PcaFromInv == PcaIInv => PcaAsUninterrupted
<1> SUFFICES ASSUME PcaIInv PROVE PcaAsUninterrupted
  OBVIOUS
<1>1. pcaDisk.manifest # <<>> =>
          \E v \in 0..PcaVersions : /\ pcaDisk.manifest[1].fit = FitFrom(v)
                                    /\ pcaDisk.scores = <<ScoresFrom(v)>>
  <2> SUFFICES ASSUME pcaDisk.manifest # <<>>
               PROVE  \E v \in 0..PcaVersions : /\ pcaDisk.manifest[1].fit = FitFrom(v)
                                                /\ pcaDisk.scores = <<ScoresFrom(v)>>
    OBVIOUS
  <2>1. pcaDisk.scores # <<>>
    BY DEF PcaIInv, NamesRight
  <2>2. \E v \in 0..matrix : /\ pcaDisk.scores = <<ScoresFrom(v)>>
                             /\ pcaDisk.manifest[1].fit = FitFrom(v)
    BY <2>1 DEF PcaIInv, NamesRight
  <2>3. 0..matrix \subseteq 0..PcaVersions
    BY PcaBounds DEF PcaIInv, PcaTypeOK
  <2> QED
    BY <2>2, <2>3
<1>2. pcaDisk.init # <<>> => pcaDisk.init = pcaDisk.scores
  BY DEF PcaIInv, NamesRight
<1>3. pcaCall.result # <<>> =>
          pcaCall.result = <<[fit |-> FitFrom(0), scores |-> ScoresFrom(0)]>>
  BY DEF PcaIInv, NamesRight
<1>4. pcaCall.pc \in Over => Joined
  BY DEF PcaIInv, ShardsRight, Joined
<1> QED
  BY <1>1, <1>2, <1>3, <1>4 DEF PcaAsUninterrupted

-----------------------------------------------------------------------------
(* Theorems.                                                               *)

(* The record, the stage in hand, the partial file, the names and the      *)
(* shards agree with one another at every step.                            *)
THEOREM PcaInductive == PcaSpec => []PcaIInv
<1>1. PcaInit => PcaIInv
  BY PcaInitRight
<1>2. PcaIInv /\ [PcaNext]_pcaVars => PcaIInv'
  BY PcaNextKeeps
<1> QED
  BY <1>1, <1>2, PTL DEF PcaSpec

(* For any number of rows, chunk size, threads, devices, interruptions,    *)
(* resumed calls and versions of the matrix: what a manifest vouches for   *)
(* or a call returned has the sums, in the order of their additions, and   *)
(* the scores of an uninterrupted call on one version.                     *)
THEOREM PcaUninterrupted == PcaSpec => []PcaAsUninterrupted
<1> QED
  BY PcaInductive, PcaFromInv, PTL

(* A call that resumes is not refused for what an interruption left, only  *)
(* for want of a record, for another matrix, or because the scores have    *)
(* their name.                                                             *)
THEOREM PcaResumes == PcaSpec => []PcaWorkResumes
<1>1. PcaIInv => PcaWorkResumes
  BY DEF PcaIInv
<1> QED
  BY <1>1, PcaInductive, PTL

=============================================================================
