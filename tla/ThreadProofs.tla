---------------------------- MODULE ThreadProofs ----------------------------
(* Proofs about the threads of the computations in memory: the pool of     *)
(* ParallelExecutor, for any number of threads, items and loops, and the   *)
(* threads of the UMAP layouts, for any number of threads, epochs, batches *)
(* and edges.                                                              *)
EXTENDS WorkerPool, LayoutWorkers, TLAPS, FiniteSetTheorems, WellFoundedInduction, NaturalsInduction

Places == {"wait", "asleep", "run", "fail", "report", "gone"}
Busy(t) == worker[t] \in {"run", "fail", "report"}
Reported == {t \in Workers : seen[t] = generation /\ worker[t] \in {"wait", "asleep"}}

PoolTypeOK ==
    /\ caller \in {"idle", "tell", "work", "await", "asleep", "leave", "tellstop", "join", "ended"}
    /\ loop \in [items : 0..MaxItems, active : Nat \ {0}, size : Nat]
    /\ thrown \in BOOLEAN /\ outcome \in {"none", "ok", "error"}
    /\ task \in BOOLEAN /\ stopping \in BOOLEAN /\ error \in BOOLEAN
    /\ generation \in Nat /\ completed \in Nat
    /\ worker \in [Workers -> Places]
    /\ seen \in [Workers -> Nat]
    /\ chunk \in [Workers -> SUBSET Items]
    /\ faults \subseteq 0..PoolThreads - 1
    /\ did \in [Items -> Nat]

(* Between two loops every worker has seen the last one and rests; while   *)
(* one runs, the count is the number of workers that have reported.        *)
Counted ==
    /\ task <=> InRun
    /\ stopping <=> caller \in {"tellstop", "join", "ended"}
    /\ \A t \in Workers : Busy(t) => InRun /\ seen[t] = generation
    /\ \A t \in Workers : worker[t] = "gone" => stopping
    /\ InRun => completed = Cardinality(Reported)
    /\ caller \in {"idle", "leave"} => \A t \in Workers : seen[t] = generation

(* Who has worked on his chunk of the loop.                                *)
Worked(t) ==
    IF t = 0 THEN caller \in {"await", "asleep"}
    ELSE seen[t] = generation /\ worker[t] # "run"

Shared ==
    InRun =>
        /\ loop.size > 0 /\ loop.items <= loop.active * loop.size
        /\ loop.active <= PoolThreads
        /\ \A t \in Workers : worker[t] = "run" => chunk[t] = ItemsOf(t)
        /\ \A t \in 0..PoolThreads - 1 : \A i \in ItemsOf(t) : did[i] = IF Worked(t) THEN 1 ELSE 0
        /\ \A i \in Items : i >= loop.items => did[i] = 0

Blamed ==
    /\ \A t \in Workers : worker[t] = "fail" => t \in faults
    /\ InRun => /\ \A t \in faults \ {0} : error \/ worker[t] = "fail"
                /\ 0 \in faults <=> thrown
                /\ caller \in {"tell", "work"} => ~thrown
                /\ error => faults # {}
    /\ ~InRun => (outcome = "error" <=> faults # {})

PoolIInv == PoolTypeOK /\ Counted /\ Shared /\ Blamed /\ EachItemOnce

-----------------------------------------------------------------------------
(* Chunks                                                                  *)

LEMMA DivBounds ==
    ASSUME NEW n \in Nat, NEW c \in Nat \ {0}
    PROVE  n \div c \in Nat /\ c * (n \div c) <= n /\ n < c * (n \div c) + c
  OBVIOUS

LEMMA TimesMonotone ==
    ASSUME NEW a \in Nat, NEW b \in Nat, NEW c \in Nat, a < b
    PROVE  a * c + c <= b * c
<1>1. PICK d \in Nat : b = a + 1 + d
  BY b = a + 1 + (b - a - 1), b - a - 1 \in Nat
<1>2. b * c = a * c + c + d * c
  BY <1>1
<1>3. d * c \in Nat
  OBVIOUS
<1> QED
  BY <1>2, <1>3

(* The chunk size of run() leaves no item out.                             *)
LEMMA SizeEnough ==
    ASSUME NEW n \in Nat, NEW a \in Nat \ {0}
    PROVE  LET c == (n + a - 1) \div a
           IN  c \in Nat /\ n <= a * c /\ (n > 0 => c > 0)
<1> DEFINE c == (n + a - 1) \div a
<1>1. n + a - 1 \in Nat
  OBVIOUS
<1>2. c \in Nat /\ n + a - 1 < a * c + a
  BY <1>1, DivBounds
<1>3. a * c \in Nat
  BY <1>2
<1>4. n <= a * c
  BY <1>2, <1>3
<1>5. n > 0 => c > 0
  BY <1>2, <1>4
<1> QED
  BY <1>2, <1>4, <1>5

LEMMA ActiveRange ==
    ASSUME NEW l \in Loops
    PROVE  Active(l) \in 1..PoolThreads
  BY PoolAssumption DEF Active, Less

LEMMA ItemsApart ==
    ASSUME loop.size \in Nat, loop.items \in 0..MaxItems, NEW s \in Nat, NEW t \in Nat, s # t
    PROVE  ItemsOf(s) \cap ItemsOf(t) = {}
<1> SUFFICES ASSUME NEW i \in Items, i \in ItemsOf(s), i \in ItemsOf(t)  PROVE FALSE
  BY DEF ItemsOf
<1> i \in Int
  BY PoolAssumption DEF Items
<1>1. s * loop.size \in Nat /\ t * loop.size \in Nat
  OBVIOUS
<1>2. /\ s * loop.size <= i /\ i < s * loop.size + loop.size
      /\ t * loop.size <= i /\ i < t * loop.size + loop.size
  BY <1>1, PoolAssumption DEF ItemsOf, Less
<1>3. CASE s < t
  BY <1>1, <1>2, <1>3, TimesMonotone
<1>4. CASE t < s
  BY <1>1, <1>2, <1>4, TimesMonotone
<1> QED
  BY <1>3, <1>4

(* Every item of the loop is in the chunk of an active thread, and the     *)
(* threads beyond have none.                                               *)
LEMMA ItemsCovered ==
    ASSUME loop.size \in Nat \ {0}, loop.items \in 0..MaxItems, loop.active \in Nat \ {0},
           loop.items <= loop.active * loop.size
    PROVE  /\ \A i \in Items : i < loop.items => \E t \in 0..loop.active - 1 : i \in ItemsOf(t)
           /\ \A t \in Nat : t >= loop.active => ItemsOf(t) = {}
<1> DEFINE c == loop.size
<1>1. ASSUME NEW i \in Items, i < loop.items
      PROVE  \E t \in 0..loop.active - 1 : i \in ItemsOf(t)
  <2> DEFINE t == i \div c
  <2>1. i \in Nat
    BY PoolAssumption DEF Items
  <2>2. t \in Nat /\ c * t <= i /\ i < c * t + c
    BY <2>1, DivBounds
  <2>3. c * t = t * c
    BY <2>2
  <2>4. t < loop.active
    <3> SUFFICES ASSUME loop.active <= t  PROVE FALSE
      BY <2>2
    <3>1. loop.active * c <= t * c
      <4>1. CASE loop.active = t
        BY <4>1, <2>2
      <4>2. CASE loop.active < t
        <5>1. loop.active * c + c <= t * c
          BY <4>2, <2>2, TimesMonotone
        <5>2. loop.active * c \in Nat /\ t * c \in Nat
          BY <2>2
        <5> QED
          BY <5>1, <5>2
      <4> QED
        BY <4>1, <4>2, <2>2
    <3>2. loop.active * c \in Nat /\ t * c \in Nat
      BY <2>2
    <3> QED
      BY <3>1, <3>2, <2>1, <2>2, <2>3, <1>1
  <2>5. t \in 0..loop.active - 1
    BY <2>2, <2>4
  <2>6. t * c \in Nat
    BY <2>2
  <2>7. i \in ItemsOf(t)
    BY <2>1, <2>2, <2>3, <2>6, <1>1 DEF ItemsOf, Less
  <2> QED
    BY <2>5, <2>7
<1>2. ASSUME NEW t \in Nat, t >= loop.active
      PROVE  ItemsOf(t) = {}
  <2>1. loop.active * c <= t * c
    <3>1. CASE loop.active = t
      BY <3>1
    <3>2. CASE loop.active < t
      <4>1. loop.active * c + c <= t * c
        BY <3>2, TimesMonotone
      <4>2. loop.active * c \in Nat /\ t * c \in Nat
        OBVIOUS
      <4> QED
        BY <4>1, <4>2
    <3> QED
      BY <3>1, <3>2, <1>2
  <2>2. loop.active * c \in Nat /\ t * c \in Nat
    OBVIOUS
  <2> QED
    BY <2>1, <2>2, PoolAssumption DEF ItemsOf, Less, Items
<1> QED
  BY <1>1, <1>2

LEMMA WorkersFinite == IsFiniteSet(Workers)
  BY PoolAssumption, FS_Interval DEF Workers

(* When the count is full, everyone has reported.                          *)
LEMMA AllReported ==
    ASSUME completed = Cardinality(Reported), completed = Cardinality(Workers)
    PROVE  Reported = Workers
<1>1. Reported \subseteq Workers
  BY DEF Reported
<1> QED
  BY <1>1, WorkersFinite, FS_Subset

-----------------------------------------------------------------------------
(* The invariant is inductive                                              *)

LEMMA PoolInitially == PoolInit => PoolIInv
<1> SUFFICES ASSUME PoolInit  PROVE PoolIInv
  OBVIOUS
<1>1. PoolTypeOK
  <2>1. loop \in [items : 0..MaxItems, active : Nat \ {0}, size : Nat]
    BY PoolAssumption DEF PoolInit
  <2>2. worker \in [Workers -> Places] /\ seen \in [Workers -> Nat] /\ did \in [Items -> Nat]
    BY DEF PoolInit, Places
  <2>3. chunk \in [Workers -> SUBSET Items]
    BY DEF PoolInit
  <2> QED
    BY <2>1, <2>2, <2>3 DEF PoolInit, PoolTypeOK
<1>2. Counted
  BY DEF PoolInit, Counted, InRun, Busy
<1>3. Shared /\ Blamed /\ EachItemOnce
  BY DEF PoolInit, Shared, Blamed, EachItemOnce, InRun
<1> QED
  BY <1>1, <1>2, <1>3 DEF PoolIInv

(* A step that leaves the loop and the count alone, the caller between or  *)
(* within loops as before.                                                 *)
LEMMA CallerKeeps ==
    ASSUME PoolIInv, RunAlone \/ Destroy \/ TellStop \/ Join
    PROVE  PoolIInv'
<1> USE PoolAssumption DEF PoolIInv
<1>1. CASE RunAlone
  <2> USE DEF RunAlone
  <2>1. PoolTypeOK'
    BY <1>1 DEF PoolTypeOK, Items
  <2>2. Counted'
    BY <1>1 DEF Counted, InRun, Busy
  <2>3. Shared' /\ Blamed'
    BY <1>1 DEF Shared, Blamed, InRun, Counted, Busy
  <2>4. EachItemOnce'
    BY <1>1 DEF EachItemOnce
  <2> QED
    BY <2>1, <2>2, <2>3, <2>4
<1>2. CASE Destroy
  <2> USE DEF Destroy
  <2>1. PoolTypeOK'
    BY <1>2 DEF PoolTypeOK
  <2>2. Counted'
    BY <1>2 DEF Counted, InRun, Busy
  <2>3. Shared' /\ Blamed' /\ EachItemOnce'
    BY <1>2 DEF Shared, Blamed, EachItemOnce, InRun
  <2> QED
    BY <2>1, <2>2, <2>3
<1>3. CASE TellStop
  <2> USE DEF TellStop, Wake
  <2>1. PoolTypeOK'
    BY <1>3 DEF PoolTypeOK, Places
  <2>2. Counted'
    BY <1>3 DEF Counted, InRun, Busy, PoolTypeOK
  <2>3. Shared' /\ Blamed' /\ EachItemOnce'
    BY <1>3 DEF Shared, Blamed, EachItemOnce, InRun, PoolTypeOK
  <2> QED
    BY <2>1, <2>2, <2>3
<1>4. CASE Join
  <2> USE DEF Join
  <2>1. PoolTypeOK'
    BY <1>4 DEF PoolTypeOK
  <2>2. Counted'
    BY <1>4 DEF Counted, InRun, Busy
  <2>3. Shared' /\ Blamed' /\ EachItemOnce'
    BY <1>4 DEF Shared, Blamed, EachItemOnce, InRun
  <2> QED
    BY <2>1, <2>2, <2>3
<1> QED
  BY <1>1, <1>2, <1>3, <1>4

(* A new generation: no worker has reported, no item is worked on.         *)
LEMMA PostKeeps == PoolIInv /\ Post => PoolIInv'
<1> SUFFICES ASSUME PoolIInv, Post  PROVE PoolIInv'
  OBVIOUS
<1> USE PoolAssumption DEF PoolIInv
<1>1. PICK l \in Loops : /\ Active(l) > 1 /\ l.items >= 2
                         /\ loop' = [items |-> l.items, active |-> Active(l), size |-> ChunkSize(l)]
  BY DEF Post
<1>2. l.items \in 0..MaxItems /\ Active(l) \in 1..PoolThreads
  BY <1>1, ActiveRange
<1>3. /\ ChunkSize(l) \in Nat /\ ChunkSize(l) > 0
      /\ l.items <= Active(l) * ChunkSize(l)
  BY <1>1, <1>2, SizeEnough DEF ChunkSize
<1>4. PoolTypeOK'
  <2>1. loop' \in [items : 0..MaxItems, active : Nat \ {0}, size : Nat]
    BY <1>1, <1>2, <1>3
  <2>2. did' \in [Items -> Nat]
    BY DEF Post
  <2>3. /\ task' = TRUE /\ completed' = 0 /\ error' = FALSE /\ generation' = generation + 1
        /\ thrown' = FALSE /\ outcome' = "none" /\ faults' = {} /\ caller' = "tell"
        /\ UNCHANGED <<stopping, worker, seen, chunk>>
    BY DEF Post
  <2>4. generation' \in Nat /\ faults' \subseteq 0..PoolThreads - 1
    BY <2>3 DEF PoolTypeOK
  <2>5. /\ stopping' \in BOOLEAN /\ worker' \in [Workers -> Places]
        /\ seen' \in [Workers -> Nat] /\ chunk' \in [Workers -> SUBSET Items]
    BY <2>3 DEF PoolTypeOK
  <2> HIDE DEF PoolIInv
  <2> QED
    BY <2>1, <2>2, <2>3, <2>4, <2>5 DEF PoolTypeOK
<1>5. Counted'
  <2>1. Reported' = {}
    BY DEF Reported, Post, Counted, PoolTypeOK
  <2>2. completed' = Cardinality(Reported')
    BY <2>1, FS_EmptySet DEF Post
  <2> QED
    BY <2>2 DEF Counted, InRun, Busy, Post
<1>6. Shared'
  <2>1. /\ loop'.size > 0 /\ loop'.items <= loop'.active * loop'.size
        /\ loop'.active <= PoolThreads
    BY <1>1, <1>2, <1>3
  <2>2. \A t \in Workers : worker'[t] # "run"
    BY DEF Counted, Busy, Post, InRun
  <2>3. \A i \in Items : did'[i] = 0
    BY DEF Post
  <2>4. \A t \in 0..PoolThreads - 1 : ~Worked(t)'
    BY DEF Worked, Post, Counted, PoolTypeOK, Workers
  <2>5. \A t \in 0..PoolThreads - 1 : \A i \in ItemsOf(t)' : i \in Items
    BY DEF ItemsOf
  <2> QED
    BY <2>1, <2>2, <2>3, <2>4, <2>5 DEF Shared
<1>7. Blamed' /\ EachItemOnce'
  BY DEF Blamed, EachItemOnce, Post, InRun, Counted, Busy
<1> QED
  BY <1>4, <1>5, <1>6, <1>7

(* Steps of the caller within a loop.                                      *)
LEMMA RunKeeps ==
    ASSUME PoolIInv, Tell \/ OwnChunk \/ WakeCaller
    PROVE  PoolIInv'
<1> USE PoolAssumption DEF PoolIInv
<1>1. loop' = loop /\ generation' = generation /\ seen' = seen
  BY DEF Tell, OwnChunk, WakeCaller
<1>2. \A t : ItemsOf(t)' = ItemsOf(t)
  BY <1>1 DEF ItemsOf
<1>3. InRun /\ InRun'
  BY DEF Tell, OwnChunk, WakeCaller, InRun
<1>4. CASE Tell
  <2> USE DEF Tell, Wake
  <2>1. PoolTypeOK'
    BY <1>4 DEF PoolTypeOK, Places
  <2>2. Reported' = Reported
    BY <1>4 DEF Reported, PoolTypeOK
  <2>3. Counted'
    BY <1>3, <1>4, <2>2 DEF Counted, Busy, PoolTypeOK, InRun
  <2>4. Shared'
    <3>1. \A t \in Workers : worker'[t] = "run" <=> worker[t] = "run"
      BY <1>4 DEF PoolTypeOK
    <3>2. \A t \in 0..PoolThreads - 1 : Worked(t)' = Worked(t)
      BY <1>4, <3>1 DEF Worked, Workers
    <3> QED
      BY <1>1, <1>2, <1>3, <1>4, <3>1, <3>2 DEF Shared
  <2>5. Blamed'
    <3>1. \A t \in Workers : worker'[t] = "fail" <=> worker[t] = "fail"
      BY <1>4 DEF PoolTypeOK
    <3>2. \A t \in faults \ {0} : t \in Workers
      BY DEF PoolTypeOK, Workers
    <3> QED
      BY <1>3, <1>4, <3>1, <3>2 DEF Blamed, InRun
  <2>6. EachItemOnce'
    BY <1>4 DEF EachItemOnce
  <2> QED
    BY <2>1, <2>3, <2>4, <2>5, <2>6
<1>5. CASE OwnChunk
  <2> USE DEF OwnChunk, Work
  <2>1. PoolTypeOK'
    <3>1. did' \in [Items -> Nat]
      BY <1>5 DEF PoolTypeOK
    <3> QED
      BY <1>5, <3>1 DEF PoolTypeOK
  <2>2. Reported' = Reported
    BY <1>5 DEF Reported
  <2>3. Counted'
    BY <1>3, <1>5, <2>2 DEF Counted, Busy, InRun
  <2>4. Shared'
    <3>1. loop.size \in Nat /\ loop.items \in 0..MaxItems
      BY DEF PoolTypeOK
    <3>2. \A t \in Workers : \A i \in ItemsOf(t) : i \notin ItemsOf(0)
      BY <3>1, ItemsApart DEF Workers
    <3>3. \A t \in Workers : Worked(t)' = Worked(t)
      BY <1>5 DEF Worked, Workers
    <3>4. \A t \in Workers : \A i \in ItemsOf(t) : did'[i] = did[i]
      BY <1>5, <3>2 DEF PoolTypeOK, ItemsOf
    <3>5. \A i \in ItemsOf(0) : did'[i] = 1
      <4> SUFFICES ASSUME NEW i \in ItemsOf(0)  PROVE did'[i] = 1
        OBVIOUS
      <4>1. i \in Items
        BY DEF ItemsOf
      <4>2. did[i] = 0
        BY <1>3, <1>5 DEF Shared, Worked
      <4> QED
        BY <1>5, <4>1, <4>2
    <3>6. Worked(0)'
      BY <1>5 DEF Worked
    <3>7. \A t \in 0..PoolThreads - 1 : t = 0 \/ t \in Workers
      BY DEF Workers
    <3>8. \A i \in Items : i >= loop.items => did'[i] = 0
      <4> SUFFICES ASSUME NEW i \in Items, i >= loop.items  PROVE did'[i] = 0
        OBVIOUS
      <4>1. i \notin ItemsOf(0)
        BY <3>1 DEF ItemsOf, Less, Items
      <4>2. did[i] = 0
        BY <1>3 DEF Shared
      <4> QED
        BY <1>5, <4>1, <4>2 DEF PoolTypeOK
    <3>9. \A t \in 0..PoolThreads - 1 : \A i \in ItemsOf(t) : did'[i] = IF Worked(t)' THEN 1 ELSE 0
      BY <1>3, <3>3, <3>4, <3>5, <3>6, <3>7 DEF Shared
    <3> QED
      BY <1>1, <1>2, <1>3, <1>5, <3>8, <3>9 DEF Shared
  <2>5. Blamed'
    <3>1. ~thrown /\ 0 \notin faults
      BY <1>3, <1>5 DEF Blamed
    <3>2. CASE thrown'
      <4>1. faults' = faults \cup {0}
        BY <1>5, <3>2
      <4> QED
        BY <1>3, <1>5, <3>2, <4>1 DEF Blamed
    <3>3. CASE ~thrown'
      <4>1. faults' = faults
        BY <1>5, <3>3
      <4> QED
        BY <1>3, <1>5, <3>1, <3>3, <4>1 DEF Blamed
    <3> QED
      BY <3>2, <3>3
  <2>6. EachItemOnce'
    BY <1>5 DEF EachItemOnce
  <2> QED
    BY <2>1, <2>3, <2>4, <2>5, <2>6
<1>6. CASE WakeCaller
  <2> USE DEF WakeCaller
  <2>1. PoolTypeOK'
    BY <1>6 DEF PoolTypeOK
  <2>2. Reported' = Reported
    BY <1>6 DEF Reported
  <2>3. Counted'
    BY <1>3, <1>6, <2>2 DEF Counted, Busy, InRun
  <2>4. Shared'
    <3>1. \A t : Worked(t)' = Worked(t)
      BY <1>6 DEF Worked
    <3> QED
      BY <1>1, <1>2, <1>3, <1>6, <3>1 DEF Shared
  <2>5. Blamed' /\ EachItemOnce'
    BY <1>3, <1>6 DEF Blamed, EachItemOnce
  <2> QED
    BY <2>1, <2>3, <2>4, <2>5
<1> QED
  BY <1>4, <1>5, <1>6

(* The caller stops waiting only when every worker has reported.           *)
LEMMA AwaitKeeps == PoolIInv /\ Await => PoolIInv'
<1> SUFFICES ASSUME PoolIInv, Await  PROVE PoolIInv'
  OBVIOUS
<1> USE PoolAssumption DEF PoolIInv
<1>1. /\ caller = "await"
      /\ UNCHANGED <<loop, loops, thrown, generation, completed, stopping, error, worker, seen,
                     chunk, faults, did>>
  BY DEF Await
<1>2. Reported' = Reported /\ \A t : ItemsOf(t)' = ItemsOf(t)
  BY <1>1 DEF Reported, ItemsOf
<1>3. InRun
  BY <1>1 DEF InRun
<1>4. CASE ~AllDone
  <2>1. caller' = "asleep" /\ outcome' = outcome /\ task' = task
    BY <1>4 DEF Await
  <2>2. InRun' /\ \A t : Worked(t)' = Worked(t)
    BY <1>1, <2>1 DEF InRun, Worked
  <2>3. PoolTypeOK'
    BY <1>1, <2>1 DEF PoolTypeOK
  <2>4. Counted'
    BY <1>1, <1>2, <1>3, <2>1, <2>2 DEF Counted, Busy
  <2>5. Shared'
    BY <1>1, <1>2, <1>3, <2>2 DEF Shared
  <2>6. Blamed' /\ EachItemOnce'
    BY <1>1, <1>3, <2>1, <2>2 DEF Blamed, EachItemOnce
  <2> QED
    BY <2>3, <2>4, <2>5, <2>6
<1>5. CASE AllDone
  <2>1. /\ task' = FALSE
        /\ outcome' = IF thrown \/ error THEN "error" ELSE "ok"
        /\ caller' = IF thrown \/ error THEN "leave" ELSE "idle"
    BY <1>5 DEF Await
  <2>2. ~InRun'
    BY <2>1 DEF InRun
  <2>3. \A t \in Workers : seen[t] = generation /\ worker[t] \in {"wait", "asleep"}
    BY <1>3, <1>5, AllReported DEF AllDone, Counted, Reported
  <2>4. PoolTypeOK'
    BY <1>1, <2>1 DEF PoolTypeOK
  <2>5. Counted'
    BY <1>1, <2>1, <2>2, <2>3 DEF Counted, Busy
  <2>6. Blamed'
    <3>1. \A t \in faults \ {0} : t \in Workers
      BY DEF PoolTypeOK, Workers
    <3>2. faults # {} <=> thrown \/ error
      BY <1>3, <2>3, <3>1 DEF Blamed
    <3> QED
      BY <1>1, <2>1, <2>2, <2>3, <3>2 DEF Blamed
  <2>7. EachItemOnce'
    <3> SUFFICES ASSUME NEW i \in Items
                 PROVE  did[i] = IF i < loop.items THEN 1 ELSE 0
      BY <1>1 DEF EachItemOnce
    <3>1. /\ loop.size \in Nat \ {0} /\ loop.items \in 0..MaxItems /\ loop.active \in Nat \ {0}
          /\ loop.items <= loop.active * loop.size /\ loop.active <= PoolThreads
      BY <1>3 DEF PoolTypeOK, Shared
    <3>2. CASE i < loop.items
      <4>1. PICK t \in 0..loop.active - 1 : i \in ItemsOf(t)
        BY <3>1, <3>2, ItemsCovered
      <4>2. t \in 0..PoolThreads - 1
        BY <3>1, <4>1
      <4>3. Worked(t)
        BY <1>1, <2>3, <4>2 DEF Worked, Workers
      <4> QED
        BY <1>3, <3>2, <4>1, <4>2, <4>3 DEF Shared
    <3>3. CASE ~(i < loop.items)
      <4>1. i >= loop.items
        BY <3>1, <3>3 DEF Items
      <4> QED
        BY <1>3, <3>3, <4>1 DEF Shared
    <3> QED
      BY <3>2, <3>3
  <2> QED
    BY <2>2, <2>4, <2>5, <2>6, <2>7 DEF Shared
<1> QED
  BY <1>4, <1>5

(* Waking, looking and sleeping leave the count and the items alone.       *)
LEMMA LookKeeps ==
    ASSUME PoolIInv, NEW t \in Workers, Look(t) \/ WakeWorker(t)
    PROVE  PoolIInv'
<1> USE PoolAssumption DEF PoolIInv
<1>1. UNCHANGED <<caller, loop, loops, thrown, outcome, task, generation, completed, stopping,
                  error, faults, did>>
  BY DEF Look, WakeWorker
<1>2. /\ \A s : ItemsOf(s)' = ItemsOf(s)
      /\ InRun' = InRun /\ EachItemOnce'
  BY <1>1 DEF ItemsOf, InRun, EachItemOnce
<1>3. worker[t] \in {"wait", "asleep"}
  BY DEF Look, WakeWorker
<1>4. CASE /\ seen' = seen /\ chunk' = chunk
           /\ \/ worker' = [worker EXCEPT ![t] = "asleep"]
              \/ worker' = [worker EXCEPT ![t] = "wait"]
  <2>1. PoolTypeOK'
    BY <1>1, <1>4 DEF PoolTypeOK, Places
  <2>2. Reported' = Reported
    BY <1>1, <1>3, <1>4 DEF Reported, PoolTypeOK
  <2>3. Counted'
    BY <1>1, <1>2, <1>3, <1>4, <2>2 DEF Counted, Busy, PoolTypeOK
  <2>4. \A s \in Workers : /\ worker'[s] = "run" <=> worker[s] = "run"
                           /\ worker'[s] = "fail" <=> worker[s] = "fail"
    BY <1>3, <1>4 DEF PoolTypeOK
  <2>5. \A s \in 0..PoolThreads - 1 : Worked(s)' = Worked(s)
    BY <1>1, <1>4, <2>4 DEF Worked, Workers
  <2>6. Shared'
    BY <1>1, <1>2, <1>4, <2>4, <2>5 DEF Shared
  <2>7. Blamed'
    <3>1. \A s \in faults \ {0} : s \in Workers
      BY DEF PoolTypeOK, Workers
    <3> QED
      BY <1>1, <1>2, <2>4, <3>1 DEF Blamed
  <2> QED
    BY <1>2, <2>1, <2>3, <2>6, <2>7
<1>5. CASE /\ stopping /\ seen' = seen /\ chunk' = chunk
           /\ worker' = [worker EXCEPT ![t] = "gone"]
  <2>1. PoolTypeOK'
    BY <1>1, <1>5 DEF PoolTypeOK, Places
  <2>2. ~InRun
    BY <1>5 DEF Counted, InRun
  <2>3. Counted'
    BY <1>1, <1>2, <1>5, <2>2 DEF Counted, Busy, PoolTypeOK
  <2>4. Shared' /\ Blamed'
    BY <1>1, <1>2, <1>5, <2>2 DEF Shared, Blamed, PoolTypeOK
  <2> QED
    BY <1>2, <2>1, <2>3, <2>4
<1>6. CASE /\ seen[t] # generation /\ ~stopping
           /\ LET mine == IF t < loop.active THEN ItemsOf(t) ELSE {}
              IN  /\ seen' = [seen EXCEPT ![t] = generation]
                  /\ chunk' = [chunk EXCEPT ![t] = mine]
                  /\ worker' = [worker EXCEPT ![t] = IF mine = {} THEN "report" ELSE "run"]
  <2> DEFINE mine == IF t < loop.active THEN ItemsOf(t) ELSE {}
  <2>1. mine = ItemsOf(t) /\ InRun
    <3>1. InRun
      BY <1>6 DEF Counted, InRun, PoolTypeOK
    <3>2. t \in Nat
      BY DEF Workers
    <3>3. CASE t < loop.active
      BY <3>1, <3>3
    <3>4. CASE ~(t < loop.active)
      <4>1. /\ loop.size \in Nat \ {0} /\ loop.items \in 0..MaxItems /\ loop.active \in Nat \ {0}
            /\ loop.items <= loop.active * loop.size
        BY <3>1 DEF PoolTypeOK, Shared
      <4>2. t >= loop.active
        BY <3>2, <3>4, <4>1
      <4> QED
        BY <3>1, <3>2, <3>4, <4>1, <4>2, ItemsCovered
    <3> QED
      BY <3>3, <3>4
  <2>2. /\ seen' = [seen EXCEPT ![t] = generation]
        /\ chunk' = [chunk EXCEPT ![t] = ItemsOf(t)]
        /\ worker' = [worker EXCEPT ![t] = IF ItemsOf(t) = {} THEN "report" ELSE "run"]
    BY <1>6, <2>1
  <2>3. PoolTypeOK'
    <3>1. ItemsOf(t) \in SUBSET Items
      BY DEF ItemsOf
    <3> QED
      BY <1>1, <2>2, <3>1 DEF PoolTypeOK, Places
  <2>4. Reported' = Reported
    BY <1>1, <1>6, <2>2 DEF Reported, PoolTypeOK
  <2>5. Counted'
    BY <1>1, <1>2, <1>6, <2>1, <2>2, <2>4 DEF Counted, Busy, PoolTypeOK
  <2>6. Shared'
    <3>1. \A s \in Workers : worker'[s] = "run" => chunk'[s] = ItemsOf(s)
      BY <2>1, <2>2 DEF Shared, PoolTypeOK
    <3>2. \A s \in 0..PoolThreads - 1 : s # t => Worked(s)' = Worked(s)
      BY <1>1, <2>2 DEF Worked, Workers, PoolTypeOK
    <3>3. t \in 0..PoolThreads - 1 /\ t # 0
      BY DEF Workers
    <3>4. ~Worked(t)
      BY <1>6, <3>3 DEF Worked
    <3>5. ItemsOf(t) # {} => ~Worked(t)'
      BY <2>2, <3>3 DEF Worked, PoolTypeOK
    <3>6. \A s \in 0..PoolThreads - 1 : \A i \in ItemsOf(s) :
             did[i] = IF Worked(s)' THEN 1 ELSE 0
      BY <2>1, <3>2, <3>4, <3>5 DEF Shared
    <3> QED
      BY <1>1, <1>2, <2>1, <3>1, <3>6 DEF Shared
  <2>7. Blamed'
    <3>1. \A s \in faults \ {0} : s \in Workers
      BY DEF PoolTypeOK, Workers
    <3>2. \A s \in Workers : worker'[s] = "fail" <=> worker[s] = "fail"
      BY <1>3, <2>2 DEF PoolTypeOK
    <3> QED
      BY <1>1, <1>2, <3>1, <3>2 DEF Blamed
  <2> QED
    BY <1>2, <2>3, <2>5, <2>6, <2>7
<1> QED
  BY <1>4, <1>5, <1>6 DEF Look, WakeWorker, NothingNew

(* A worker works on the chunk it has copied, which is nobody else's.      *)
LEMMA WorkKeeps ==
    ASSUME PoolIInv, NEW t \in Workers, Run(t)
    PROVE  PoolIInv'
<1> USE PoolAssumption DEF PoolIInv
<1>1. /\ UNCHANGED <<caller, loop, loops, thrown, outcome, task, generation, completed, stopping,
                     error, seen, chunk>>
      /\ worker[t] = "run"
      /\ did' = [i \in Items |-> did[i] + (IF i \in chunk[t] THEN 1 ELSE 0)]
      /\ \/ worker' = [worker EXCEPT ![t] = "report"] /\ faults' = faults
         \/ worker' = [worker EXCEPT ![t] = "fail"] /\ faults' = faults \cup {t}
  BY DEF Run, Work
<1>2. (\A s : ItemsOf(s)' = ItemsOf(s)) /\ InRun' = InRun
  BY <1>1 DEF ItemsOf, InRun
<1>3. InRun /\ seen[t] = generation /\ chunk[t] = ItemsOf(t)
  BY <1>1 DEF Counted, Busy, Shared
<1>4. t \in 0..PoolThreads - 1 /\ t # 0 /\ t \in Nat
  BY DEF Workers
<1>5. PoolTypeOK'
  <2>1. did' \in [Items -> Nat]
    BY <1>1 DEF PoolTypeOK
  <2>2. worker' \in [Workers -> Places]
    BY <1>1 DEF PoolTypeOK, Places
  <2>3. faults' \subseteq 0..PoolThreads - 1
    BY <1>1, <1>4 DEF PoolTypeOK
  <2> QED
    BY <1>1, <2>1, <2>2, <2>3 DEF PoolTypeOK
<1>6. Reported' = Reported
  <2>1. \A s \in Workers : worker'[s] \in {"wait", "asleep"} <=> worker[s] \in {"wait", "asleep"}
    BY <1>1 DEF PoolTypeOK
  <2> QED
    BY <1>1, <2>1 DEF Reported, Workers
<1>7. Counted'
  <2>1. \A s \in Workers : Busy(s)' => Busy(s)
    BY <1>1 DEF Busy, PoolTypeOK
  <2>2. \A s \in Workers : worker'[s] = "gone" => worker[s] = "gone"
    BY <1>1 DEF PoolTypeOK
  <2> QED
    BY <1>1, <1>2, <1>6, <2>1, <2>2 DEF Counted, Workers
<1>8. Shared'
  <2>1. loop.size \in Nat /\ loop.items \in 0..MaxItems
    BY DEF PoolTypeOK
  <2>2. \A s \in 0..PoolThreads - 1 : s # t => \A i \in ItemsOf(s) : i \notin ItemsOf(t)
    BY <2>1, <1>4, ItemsApart
  <2>3. \A s \in 0..PoolThreads - 1 : s # t => Worked(s)' = Worked(s)
    BY <1>1 DEF Worked, Workers, PoolTypeOK
  <2>4. ~Worked(t) /\ Worked(t)'
    BY <1>1, <1>3, <1>4 DEF Worked, PoolTypeOK
  <2>5. \A s : \A i \in ItemsOf(s) : i \in Items
    BY DEF ItemsOf
  <2>6. \A i \in ItemsOf(t) : did'[i] = 1
    BY <1>1, <1>3, <1>4, <2>4, <2>5 DEF Shared
  <2>7. \A i \in Items : i \notin ItemsOf(t) => did'[i] = did[i]
    BY <1>1, <1>3 DEF PoolTypeOK
  <2>8. \A s \in 0..PoolThreads - 1 : \A i \in ItemsOf(s) : did'[i] = IF Worked(s)' THEN 1 ELSE 0
    <3> SUFFICES ASSUME NEW s \in 0..PoolThreads - 1, NEW i \in ItemsOf(s)
                 PROVE  did'[i] = IF Worked(s)' THEN 1 ELSE 0
      OBVIOUS
    <3>1. CASE s = t
      BY <3>1, <2>4, <2>6
    <3>2. CASE s # t
      BY <1>3, <3>2, <2>2, <2>3, <2>5, <2>7 DEF Shared
    <3> QED
      BY <3>1, <3>2
  <2>9. \A i \in Items : i >= loop.items => did'[i] = 0
    <3> SUFFICES ASSUME NEW i \in Items, i >= loop.items  PROVE did'[i] = 0
      OBVIOUS
    <3>1. t * loop.size \in Nat
      BY <1>4, <2>1
    <3>2. i \notin ItemsOf(t)
      BY <2>1, <3>1 DEF ItemsOf, Less, Items
    <3> QED
      BY <1>3, <2>7, <3>2 DEF Shared
  <2>10. \A s \in Workers : worker'[s] = "run" => worker[s] = "run"
    BY <1>1 DEF PoolTypeOK
  <2> QED
    BY <1>1, <1>2, <1>3, <2>8, <2>9, <2>10 DEF Shared
<1>9. Blamed'
  <2>1. \A s \in faults \ {0} : s \in Workers
    BY DEF PoolTypeOK, Workers
  <2>2. CASE worker' = [worker EXCEPT ![t] = "report"] /\ faults' = faults
    <3>1. \A s \in Workers : worker'[s] = "fail" <=> worker[s] = "fail"
      BY <1>1, <2>2 DEF PoolTypeOK
    <3> QED
      BY <1>1, <1>2, <1>3, <2>1, <2>2, <3>1 DEF Blamed
  <2>3. CASE worker' = [worker EXCEPT ![t] = "fail"] /\ faults' = faults \cup {t}
    <3>1. \A s \in Workers : worker'[s] = "fail" <=> worker[s] = "fail" \/ s = t
      BY <1>1, <2>3 DEF PoolTypeOK
    <3>2. 0 \in faults' <=> 0 \in faults
      BY <1>4, <2>3
    <3> QED
      BY <1>1, <1>2, <1>3, <1>4, <2>1, <2>3, <3>1, <3>2 DEF Blamed
  <2> QED
    BY <1>1, <2>2, <2>3
<1>10. EachItemOnce'
  BY <1>1, <1>3 DEF EachItemOnce, InRun
<1> QED
  BY <1>5, <1>7, <1>8, <1>9, <1>10

LEMMA RecordErrorKeeps ==
    ASSUME PoolIInv, NEW t \in Workers, RecordError(t)
    PROVE  PoolIInv'
<1> USE PoolAssumption DEF PoolIInv
<1>1. /\ UNCHANGED <<caller, loop, loops, thrown, outcome, task, generation, completed, stopping,
                     seen, chunk, faults, did>>
      /\ worker[t] = "fail" /\ error' = TRUE
      /\ worker' = [worker EXCEPT ![t] = "report"]
  BY DEF RecordError
<1>2. (\A s : ItemsOf(s)' = ItemsOf(s)) /\ InRun' = InRun /\ InRun
  BY <1>1 DEF ItemsOf, InRun, Counted, Busy
<1>3. PoolTypeOK'
  BY <1>1 DEF PoolTypeOK, Places
<1>4. Reported' = Reported
  BY <1>1 DEF Reported, PoolTypeOK
<1>5. Counted'
  BY <1>1, <1>2, <1>4 DEF Counted, Busy, PoolTypeOK
<1>6. Shared'
  <2>1. \A s \in Workers : worker'[s] = "run" <=> worker[s] = "run"
    BY <1>1 DEF PoolTypeOK
  <2>2. \A s \in 0..PoolThreads - 1 : Worked(s)' = Worked(s)
    BY <1>1, <2>1 DEF Worked, Workers
  <2> QED
    BY <1>1, <1>2, <2>1, <2>2 DEF Shared
<1>7. Blamed'
  <2>1. \A s \in Workers : worker'[s] = "fail" => worker[s] = "fail"
    BY <1>1 DEF PoolTypeOK
  <2>2. t \in faults
    BY <1>1 DEF Blamed
  <2> QED
    BY <1>1, <1>2, <2>1, <2>2 DEF Blamed
<1>8. EachItemOnce'
  BY <1>1 DEF EachItemOnce
<1> QED
  BY <1>3, <1>5, <1>6, <1>7, <1>8

(* One more has reported, and the count says so.                           *)
LEMMA ReportKeeps ==
    ASSUME PoolIInv, NEW t \in Workers, Report(t)
    PROVE  PoolIInv'
<1> USE PoolAssumption DEF PoolIInv
<1>1. /\ UNCHANGED <<loop, loops, thrown, outcome, task, generation, stopping, error, seen,
                     faults, did>>
      /\ worker[t] = "report" /\ completed' = completed + 1
      /\ worker' = [worker EXCEPT ![t] = "wait"]
      /\ chunk' = [chunk EXCEPT ![t] = {}]
  BY DEF Report
<1>0. caller' = caller \/ (caller = "asleep" /\ caller' = "await")
  <2>1. caller' = IF completed + 1 = Cardinality(Workers) THEN Roused(caller) ELSE caller
    BY DEF Report
  <2> QED
    BY <2>1 DEF Roused
<1>2. (\A s : ItemsOf(s)' = ItemsOf(s)) /\ InRun' /\ InRun /\ seen[t] = generation
  BY <1>0, <1>1 DEF ItemsOf, InRun, Counted, Busy
<1>3. PoolTypeOK'
  <2>1. chunk' \in [Workers -> SUBSET Items]
    BY <1>1 DEF PoolTypeOK
  <2>2. worker' \in [Workers -> Places] /\ completed' \in Nat
    BY <1>1 DEF PoolTypeOK, Places
  <2>3. caller' \in {"idle", "tell", "work", "await", "asleep", "leave", "tellstop", "join", "ended"}
    BY <1>0 DEF PoolTypeOK
  <2> QED
    BY <1>1, <2>1, <2>2, <2>3 DEF PoolTypeOK
<1>4. Reported' = Reported \cup {t} /\ t \notin Reported
  BY <1>1, <1>2 DEF Reported, PoolTypeOK
<1>5. Cardinality(Reported') = Cardinality(Reported) + 1
  <2>1. Reported \subseteq Workers
    BY DEF Reported
  <2>2. IsFiniteSet(Reported)
    BY <2>1, WorkersFinite, FS_Subset
  <2> QED
    BY <1>4, <2>2, FS_AddElement
<1>6. Counted'
  <2>1. completed' = Cardinality(Reported')
    BY <1>1, <1>2, <1>5 DEF Counted
  <2>2. \A s \in Workers : /\ Busy(s)' => Busy(s)
                           /\ worker'[s] = "gone" => worker[s] = "gone"
    BY <1>1 DEF Busy, PoolTypeOK
  <2>3. caller' \notin {"idle", "leave", "tellstop", "join", "ended"}
    BY <1>2 DEF InRun
  <2> QED
    BY <1>1, <1>2, <2>1, <2>2, <2>3 DEF Counted, InRun
<1>7. Shared'
  <2>1. \A s \in Workers : /\ worker'[s] = "run" <=> worker[s] = "run"
                           /\ worker'[s] = "run" => chunk'[s] = chunk[s]
    BY <1>1 DEF PoolTypeOK
  <2>2. \A s \in 0..PoolThreads - 1 : Worked(s)' = Worked(s)
    BY <1>0, <1>1, <2>1 DEF Worked, Workers
  <2> QED
    BY <1>1, <1>2, <2>1, <2>2 DEF Shared
<1>8. Blamed'
  <2>1. \A s \in faults \ {0} : s \in Workers
    BY DEF PoolTypeOK, Workers
  <2>2. \A s \in Workers : worker'[s] = "fail" <=> worker[s] = "fail"
    BY <1>1 DEF PoolTypeOK
  <2>3. caller' \in {"tell", "work"} => caller \in {"tell", "work"}
    BY <1>0
  <2> QED
    BY <1>1, <1>2, <2>1, <2>2, <2>3 DEF Blamed
<1>9. EachItemOnce'
  BY <1>2 DEF EachItemOnce, InRun
<1> QED
  BY <1>3, <1>6, <1>7, <1>8, <1>9

LEMMA PoolInductive == PoolIInv /\ [PoolNext]_poolVars => PoolIInv'
<1> SUFFICES ASSUME PoolIInv, [PoolNext]_poolVars  PROVE PoolIInv'
  OBVIOUS
<1>1. CASE CallerDoes
  BY <1>1, CallerKeeps, PostKeeps, RunKeeps, AwaitKeeps DEF CallerDoes
<1>2. CASE WakeCaller
  BY <1>2, RunKeeps
<1>3. ASSUME NEW t \in Workers, WorkerDoes(t) \/ WakeWorker(t)
      PROVE  PoolIInv'
  BY <1>3, LookKeeps, WorkKeeps, RecordErrorKeeps, ReportKeeps DEF WorkerDoes
<1>4. CASE UNCHANGED poolVars
  BY <1>4 DEF poolVars, PoolIInv, PoolTypeOK, Counted, Shared, Blamed, EachItemOnce, Reported,
              Busy, InRun, Worked, ItemsOf
<1> QED
  BY <1>1, <1>2, <1>3, <1>4 DEF PoolNext

THEOREM PoolInvariant == PoolSpec => []PoolIInv
  BY PoolInitially, PoolInductive, PTL DEF PoolSpec

-----------------------------------------------------------------------------
(* What run() promises                                                     *)

(* No thread works on a task once the run() that posted it is over: a      *)
(* thread without a chunk reports as well, and the caller counts them all. *)
THEOREM TaskStaysAlive == PoolSpec => []TaskAlive
<1>1. PoolIInv => TaskAlive
  BY DEF PoolIInv, Counted, Busy, TaskAlive
<1> QED
  BY <1>1, PoolInvariant, PTL

(* A run() that returns has done each item of its loop once, for every     *)
(* number of threads and of items.                                         *)
THEOREM ItemsDoneOnce == PoolSpec => []EachItemOnce
<1>1. PoolIInv => EachItemOnce
  BY DEF PoolIInv
<1> QED
  BY <1>1, PoolInvariant, PTL

(* run() throws if and only if a chunk of its loop has thrown.             *)
THEOREM ErrorsComeOut == PoolSpec => []ErrorsReported
<1>1. PoolIInv => ErrorsReported
  BY DEF PoolIInv, Blamed, ErrorsReported
<1> QED
  BY <1>1, PoolInvariant, PTL

-----------------------------------------------------------------------------
(* Numbers and sums.                                                       *)

Before == OpToRel(<, Nat)

(* A set of numbers has a least one. *)
LEMMA LeastOf ==
    ASSUME NEW T, T \subseteq Nat, T # {}
    PROVE  \E x \in T : \A y \in T : x <= y
<1>1. PICK x \in T : \A y \in T : ~(<<y, x>> \in Before)
  BY NatLessThanWellFounded, WFMin DEF Before
<1>2. ASSUME NEW y \in T PROVE x <= y
  <2>1. x \in Nat /\ y \in Nat
    BY <1>1
  <2>2. ~(y < x)
    BY <1>1, <2>1 DEF Before, OpToRel
  <2> QED
    BY <2>1, <2>2
<1> QED
  BY <1>2

(* The first n numbers are n.                                              *)
LEMMA FirstNumbers ==
    ASSUME NEW n \in Nat
    PROVE  /\ IsFiniteSet(1..n) /\ Cardinality(1..n) = n
           /\ IsFiniteSet(0..(n - 1)) /\ Cardinality(0..(n - 1)) = n
<1> DEFINE m == n - 1
<1>1. m \in Int /\ m >= -1 /\ n = m + 1
  OBVIOUS
<1> HIDE DEF m
<1>2. IsFiniteSet(0..m) /\ Cardinality(0..m) = m + 1
  BY <1>1, FS_Interval
<1>3. IsFiniteSet(1..n) /\ Cardinality(1..n) = n
  BY FS_Interval
<1> QED
  BY <1>1, <1>2, <1>3 DEF m

(* A part of a finite set is finite and no larger than the set.            *)
LEMMA Within ==
    ASSUME NEW S, IsFiniteSet(S), NEW T, T \subseteq S
    PROVE  /\ IsFiniteSet(T) /\ Cardinality(T) \in Nat /\ Cardinality(S) \in Nat
           /\ Cardinality(T) <= Cardinality(S) /\ (T # S => Cardinality(T) < Cardinality(S))
<1>1. T \in SUBSET S
  OBVIOUS
<1>2. IsFiniteSet(T) /\ Cardinality(T) <= Cardinality(S) /\ (Cardinality(S) = Cardinality(T) => S = T)
  BY <1>1, FS_Subset
<1>3. Cardinality(T) \in Nat /\ Cardinality(S) \in Nat
  BY <1>2, FS_CardinalityType
<1> QED
  BY <1>2, <1>3

(* An element of a sequence over T is in T.                                *)
LEMMA ElementOf == ASSUME NEW T, NEW s \in Seq(T), NEW i \in 1..Len(s) PROVE s[i] \in T
  OBVIOUS

(* What holds of a number whenever it holds of the one before.              *)
LEMMA NumbersAll ==
    ASSUME NEW Good, 0 \in Good, \A n \in Nat : n \in Good => n + 1 \in Good
    PROVE  Nat \subseteq Good
<1>1. ASSUME Nat \ Good # {} PROVE FALSE
  <2>1. PICK n \in Nat \ Good : \A m \in Nat \ Good : n <= m
    BY <1>1, LeastOf
  <2>2. n # 0 /\ n \in Nat /\ n - 1 \in Nat
    BY <2>1
  <2>3. n - 1 \in Good
    BY <2>1, <2>2
  <2>4. n - 1 + 1 \in Good
    BY <2>2, <2>3
  <2> QED
    BY <2>1, <2>2, <2>4
<1> QED
  BY <1>1

(* What holds of a set whenever it holds of all that lack one element.     *)
LEMMA SetsAll ==
    ASSUME NEW S, IsFiniteSet(S), NEW Good, {} \in Good,
           \A s \in SUBSET S : s # {} /\ (\A x \in s : s \ {x} \in Good) => s \in Good
    PROVE  SUBSET S \subseteq Good
<1> DEFINE Right == {n \in Nat : \A s \in SUBSET S : Cardinality(s) <= n => s \in Good}
<1>1. \A s \in SUBSET S : IsFiniteSet(s) /\ Cardinality(s) \in Nat /\ (Cardinality(s) = 0 <=> s = {})
  BY FS_Subset, FS_CardinalityType, FS_EmptySet
<1>2. 0 \in Right
  <2>1. ASSUME NEW s \in SUBSET S, Cardinality(s) <= 0 PROVE s \in Good
    <3>1. Cardinality(s) = 0
      BY <1>1, <2>1
    <3> QED
      BY <1>1, <3>1
  <2> QED
    BY <2>1
<1>3. ASSUME NEW n \in Nat, n \in Right PROVE n + 1 \in Right
  <2>1. ASSUME NEW s \in SUBSET S, Cardinality(s) <= n + 1, s # {} PROVE s \in Good
    <3>1. ASSUME NEW x \in s PROVE s \ {x} \in Good
      <4>1. Cardinality(s \ {x}) = Cardinality(s) - 1
        BY <1>1, FS_RemoveElement
      <4>2. s \ {x} \in SUBSET S /\ Cardinality(s \ {x}) <= n
        BY <1>1, <2>1, <4>1
      <4> QED
        BY <1>3, <4>2
    <3> QED
      BY <2>1, <3>1
  <2>2. \A s \in SUBSET S : Cardinality(s) <= n + 1 => s \in Good
    BY <2>1
  <2> QED
    BY <2>2
<1> HIDE DEF Right
<1>4. Nat \subseteq Right
  BY <1>2, <1>3, NumbersAll
<1>5. ASSUME NEW s \in SUBSET S PROVE s \in Good
  <2>1. Cardinality(s) \in Right /\ Cardinality(s) <= Cardinality(s)
    BY <1>1, <1>4
  <2> QED
    BY <2>1 DEF Right
<1> QED
  BY <1>5

Total(f, S) == SumFunctionOnSet(f, S)
One(s) == CHOOSE x \in s : TRUE
Totals(f, D, g) == g = [s \in D |-> IF s = {} THEN 0 ELSE f[One(s)] + g[s \ {One(s)}]]
UpTo(S, n) == {s \in SUBSET S : Cardinality(s) <= n}

(* Taking one element out of a finite set leaves one element less.         *)
LEMMA OneOf ==
    ASSUME NEW S, IsFiniteSet(S), NEW s \in SUBSET S, s # {}
    PROVE  /\ One(s) \in s /\ IsFiniteSet(s) /\ s \ {One(s)} \in SUBSET S
           /\ Cardinality(s) \in Nat \ {0} /\ Cardinality(s \ {One(s)}) = Cardinality(s) - 1
<1>1. One(s) \in s
  BY DEF One
<1>2. IsFiniteSet(s)
  BY FS_Subset
<1>3. Cardinality(s) \in Nat /\ Cardinality(s \ {One(s)}) = Cardinality(s) - 1
  BY <1>1, <1>2, FS_CardinalityType, FS_RemoveElement
<1>4. Cardinality(s) # 0
  BY <1>2, FS_EmptySet
<1> QED
  BY <1>1, <1>2, <1>3, <1>4

(* The function by which a sum is defined is there. *)
LEMMA TotalsExist ==
    ASSUME NEW f, NEW S, IsFiniteSet(S)
    PROVE  \E g : Totals(f, SUBSET S, g)
<1> DEFINE Bad == {n \in Nat : ~ \E g : Totals(f, UpTo(S, n), g)}
<1>1. ASSUME Bad # {} PROVE FALSE
  <2>1. PICK n \in Bad : \A m \in Bad : n <= m
    BY <1>1, LeastOf
  <2>2. CASE n = 0
    <3>1. \A s \in UpTo(S, 0) : s = {}
      <4> SUFFICES ASSUME NEW s \in SUBSET S, Cardinality(s) <= 0, s # {} PROVE FALSE
        BY DEF UpTo
      <4>1. Cardinality(s) \in Nat \ {0}
        BY OneOf
      <4> QED
        BY <4>1
    <3>2. Totals(f, UpTo(S, 0), [s \in UpTo(S, 0) |-> 0])
      BY <3>1 DEF Totals
    <3> QED
      BY <2>1, <2>2, <3>2
  <2>3. CASE n # 0
    <3>1. n - 1 \in Nat /\ n \in Nat /\ n - 1 \notin Bad
      BY <2>1, <2>3
    <3>2. PICK g : Totals(f, UpTo(S, n - 1), g)
      BY <3>1
    <3> DEFINE h == [s \in UpTo(S, n) |-> IF s = {} THEN 0 ELSE f[One(s)] + g[s \ {One(s)}]]
    <3>3. ASSUME NEW s \in UpTo(S, n), s # {}
          PROVE  h[s \ {One(s)}] = g[s \ {One(s)}]
      <4> DEFINE u == s \ {One(s)}
      <4>1. u \in UpTo(S, n - 1) /\ u \in UpTo(S, n)
        BY <3>1, <3>3, OneOf DEF UpTo
      <4>2. g[u] = IF u = {} THEN 0 ELSE f[One(u)] + g[u \ {One(u)}]
        <5> HIDE DEF u
        <5> QED
          BY <3>2, <4>1 DEF Totals
      <4>3. h[u] = IF u = {} THEN 0 ELSE f[One(u)] + g[u \ {One(u)}]
        <5> HIDE DEF u
        <5> QED
          BY <4>1
      <4> QED
        BY <4>2, <4>3
    <3>4. \A s \in UpTo(S, n) :
             h[s] = IF s = {} THEN 0 ELSE f[One(s)] + h[s \ {One(s)}]
      BY <3>3
    <3>5. h = [s \in UpTo(S, n) |-> h[s]]
      OBVIOUS
    <3> HIDE DEF h
    <3>6. Totals(f, UpTo(S, n), h)
      BY <3>4, <3>5 DEF Totals
    <3> QED
      BY <2>1, <3>6
  <2> QED
    BY <2>2, <2>3
<1>2. Cardinality(S) \in Nat
  BY FS_CardinalityType
<1>3. UpTo(S, Cardinality(S)) = SUBSET S
  BY <1>2, FS_Subset, FS_CardinalityType DEF UpTo
<1>4. Cardinality(S) \notin Bad
  BY <1>1
<1> QED
  BY <1>2, <1>3, <1>4

(* A total over S is the value at S of a function of the parts of S that   *)
(* adds up one element after the other.                                    *)
LEMMA TotalIs ==
    ASSUME NEW f, NEW S, IsFiniteSet(S)
    PROVE  \E g : Totals(f, SUBSET S, g) /\ Total(f, S) = g[S]
<1> DEFINE G == CHOOSE g : g = [s \in SUBSET S |->
                     IF s = {} THEN 0 ELSE f[CHOOSE x \in s : TRUE] + g[s \ {CHOOSE x \in s : TRUE}]]
<1>1. Total(f, S) = G[S]
  BY DEF Total, SumFunctionOnSet, FoldFunctionOnSet, MapThenFoldSet
<1>2. G = CHOOSE g : Totals(f, SUBSET S, g)
  BY DEF Totals, One
<1>3. Totals(f, SUBSET S, G)
  BY <1>2, TotalsExist
<1> QED
  BY <1>1, <1>3

(* Such a function for S and one for a part of S agree on that part.       *)
LEMMA TotalsAgree ==
    ASSUME NEW f, NEW S, IsFiniteSet(S), NEW T, T \subseteq S, NEW g, NEW h,
           Totals(f, SUBSET S, g), Totals(f, SUBSET T, h)
    PROVE  g[T] = h[T]
<1> DEFINE U == SUBSET T
           Bad == {Cardinality(u) : u \in {u \in U : g[u] # h[u]}}
<1>1. ASSUME NEW u \in U, g[u] # h[u] PROVE FALSE
  <2>1. Bad \subseteq Nat /\ Bad # {}
    <3>1. \A w \in U : Cardinality(w) \in Nat
      BY Within
    <3> QED
      BY <1>1, <3>1
  <2>2. PICK n \in Bad : \A m \in Bad : n <= m
    BY <2>1, LeastOf
  <2>3. PICK w \in U : g[w] # h[w] /\ Cardinality(w) = n
    BY <2>2
  <2>4. w \in SUBSET S /\ w \in SUBSET T
    BY <2>3
  <2>5. /\ g[w] = IF w = {} THEN 0 ELSE f[One(w)] + g[w \ {One(w)}]
        /\ h[w] = IF w = {} THEN 0 ELSE f[One(w)] + h[w \ {One(w)}]
    BY <2>4 DEF Totals
  <2>6. w # {}
    BY <2>3, <2>5
  <2> DEFINE r == w \ {One(w)}
  <2>7. r \in U /\ Cardinality(w) \in Nat /\ Cardinality(r) = Cardinality(w) - 1
    BY <2>3, <2>4, <2>6, OneOf
  <2>8. g[r] = h[r]
    <3> HIDE DEF r
    <3>1. ASSUME g[r] # h[r] PROVE FALSE
      <4>1. Cardinality(r) \in Bad
        BY <2>7, <3>1
      <4>2. Cardinality(w) <= Cardinality(r)
        BY <2>2, <2>3, <4>1
      <4> QED
        BY <2>7, <4>2
    <3> QED
      BY <3>1
  <2> QED
    BY <2>3, <2>5, <2>8
<1> QED
  BY <1>1

(* The total over no element is 0.                                         *)
LEMMA TotalOfNone == ASSUME NEW f PROVE Total(f, {}) = 0
<1>1. IsFiniteSet({})
  BY FS_EmptySet
<1>2. PICK g : Totals(f, SUBSET {}, g) /\ Total(f, {}) = g[{}]
  BY <1>1, TotalIs
<1>3. g[{}] = 0
  BY <1>2 DEF Totals
<1> QED
  BY <1>2, <1>3

(* The total over a part is the value of that function there.              *)
LEMMA TotalOfPart ==
    ASSUME NEW f, NEW S, IsFiniteSet(S), NEW T, T \subseteq S, NEW g, Totals(f, SUBSET S, g)
    PROVE  Total(f, T) = g[T]
<1>1. IsFiniteSet(T)
  BY Within
<1>2. PICK h : Totals(f, SUBSET T, h) /\ Total(f, T) = h[T]
  BY <1>1, TotalIs
<1>3. g[T] = h[T]
  BY <1>2, TotalsAgree
<1> QED
  BY <1>2, <1>3

(* A total is the value of the element chosen first and the total of the   *)
(* rest.                                                                   *)
LEMMA TotalSplits ==
    ASSUME NEW f, NEW S, IsFiniteSet(S), S # {}
    PROVE  One(S) \in S /\ Total(f, S) = f[One(S)] + Total(f, S \ {One(S)})
<1> DEFINE T == S \ {One(S)}
<1>1. One(S) \in S /\ T \subseteq S
  BY DEF One
<1>2. PICK g : Totals(f, SUBSET S, g) /\ Total(f, S) = g[S]
  BY TotalIs
<1>3. Total(f, T) = g[T]
  <2> HIDE DEF T
  <2> QED
    BY <1>1, <1>2, TotalOfPart
<1>4. g[S] = f[One(S)] + g[T]
  BY <1>2 DEF Totals
<1> QED
  BY <1>1, <1>2, <1>3, <1>4

(* Any element may be added last. *)
LEMMA TotalTypes ==
    ASSUME NEW S, IsFiniteSet(S), NEW f, \A x \in S : f[x] \in Int
    PROVE  \A s \in SUBSET S : Total(f, s) \in Int
<1> DEFINE Good == {s \in SUBSET S : Total(f, s) \in Int}
<1>1. {} \in Good
  BY TotalOfNone
<1>2. ASSUME NEW s \in SUBSET S, s # {}, \A x \in s : s \ {x} \in Good PROVE s \in Good
  <2>1. IsFiniteSet(s)
    BY FS_Subset
  <2>2. One(s) \in s /\ Total(f, s) = f[One(s)] + Total(f, s \ {One(s)})
    BY <1>2, <2>1, TotalSplits
  <2>3. f[One(s)] \in Int /\ Total(f, s \ {One(s)}) \in Int
    BY <1>2, <2>2
  <2> QED
    BY <2>2, <2>3
<1> HIDE DEF Good
<1>3. SUBSET S \subseteq Good
  BY <1>1, <1>2, SetsAll
<1> QED
  BY <1>3 DEF Good

(* A total of integers is an integer.                                      *)
LEMMA TotalType ==
    ASSUME NEW S, IsFiniteSet(S), NEW f, \A x \in S : f[x] \in Int
    PROVE  Total(f, S) \in Int
BY TotalTypes

(* Any element may be taken out of a total first.                          *)
LEMMA TotalAny ==
    ASSUME NEW S, IsFiniteSet(S), NEW f, \A x \in S : f[x] \in Int, NEW x \in S
    PROVE  Total(f, S) = f[x] + Total(f, S \ {x})
<1> DEFINE Good == {s \in SUBSET S : \A y \in s : Total(f, s) = f[y] + Total(f, s \ {y})}
<1>1. {} \in Good
  OBVIOUS
<1>2. ASSUME NEW s \in SUBSET S, s # {}, \A y \in s : s \ {y} \in Good PROVE s \in Good
  <2>1. IsFiniteSet(s)
    BY FS_Subset
  <2> DEFINE c == One(s)
  <2>2. c \in s /\ Total(f, s) = f[c] + Total(f, s \ {c})
    BY <1>2, <2>1, TotalSplits
  <2> HIDE DEF c
  <2>3. ASSUME NEW y \in s, y # c PROVE Total(f, s) = f[y] + Total(f, s \ {y})
    <3>1. Total(f, s \ {c}) = f[y] + Total(f, (s \ {c}) \ {y})
      BY <1>2, <2>2, <2>3
    <3>2. Total(f, s \ {y}) = f[c] + Total(f, (s \ {y}) \ {c})
      BY <1>2, <2>2, <2>3
    <3>3. (s \ {c}) \ {y} = (s \ {y}) \ {c}
      OBVIOUS
    <3>4. Total(f, (s \ {y}) \ {c}) \in Int /\ f[y] \in Int /\ f[c] \in Int
      BY <2>2, TotalTypes
    <3> DEFINE both == Total(f, (s \ {y}) \ {c})
    <3>5. Total(f, s) = f[c] + (f[y] + both) /\ Total(f, s \ {y}) = f[c] + both
      BY <2>2, <3>1, <3>2, <3>3
    <3> HIDE DEF both
    <3>6. f[c] + (f[y] + both) = f[y] + (f[c] + both)
      BY <3>4 DEF both
    <3> QED
      BY <3>5, <3>6
  <2>4. \A y \in s : Total(f, s) = f[y] + Total(f, s \ {y})
    BY <2>2, <2>3
  <2> QED
    BY <2>4
<1> HIDE DEF Good
<1>3. S \in Good
  BY <1>1, <1>2, SetsAll
<1> QED
  BY <1>3 DEF Good

(* One more element adds its value to the total.                           *)
LEMMA TotalAdds ==
    ASSUME NEW S, IsFiniteSet(S), NEW f, NEW x, x \notin S, \A y \in S \cup {x} : f[y] \in Int
    PROVE  Total(f, S \cup {x}) = Total(f, S) + f[x]
<1>1. IsFiniteSet(S \cup {x}) /\ (S \cup {x}) \ {x} = S
  BY FS_AddElement
<1>2. Total(f, S \cup {x}) = f[x] + Total(f, S)
  BY <1>1, TotalAny
<1> QED
  BY <1>2, TotalType

(* Sums of functions that are equal, and of all but one place.             *)
LEMMA TotalSame ==
    ASSUME NEW S, IsFiniteSet(S), NEW f, NEW g, \A x \in S : f[x] = g[x]
    PROVE  Total(f, S) = Total(g, S)
<1> DEFINE Good == {s \in SUBSET S : Total(f, s) = Total(g, s)}
<1>1. {} \in Good
  BY TotalOfNone
<1>2. ASSUME NEW s \in SUBSET S, s # {}, \A x \in s : s \ {x} \in Good PROVE s \in Good
  <2>1. IsFiniteSet(s)
    BY FS_Subset
  <2>2. One(s) \in s /\ Total(f, s) = f[One(s)] + Total(f, s \ {One(s)})
                     /\ Total(g, s) = g[One(s)] + Total(g, s \ {One(s)})
    BY <1>2, <2>1, TotalSplits
  <2> QED
    BY <1>2, <2>2
<1> HIDE DEF Good
<1>3. S \in Good
  BY <1>1, <1>2, SetsAll
<1> QED
  BY <1>3 DEF Good

(* A value that changes changes the total by as much.                      *)
LEMMA TotalChange ==
    ASSUME NEW S, IsFiniteSet(S), NEW f, NEW g, NEW x \in S,
           \A y \in S : f[y] \in Int /\ g[y] \in Int /\ (y # x => f[y] = g[y])
    PROVE  Total(g, S) = Total(f, S) + g[x] - f[x]
<1> DEFINE T == S \ {x}
<1>1. IsFiniteSet(T)
  BY FS_Subset
<1>2. Total(f, S) = f[x] + Total(f, T) /\ Total(g, S) = g[x] + Total(g, T)
  BY TotalAny
<1>3. Total(f, T) = Total(g, T)
  BY <1>1, TotalSame
<1>4. Total(f, T) \in Int
  BY TotalTypes
<1> QED
  BY <1>2, <1>3, <1>4

(* A total of zeros is zero.                                               *)
LEMMA TotalZero ==
    ASSUME NEW S, IsFiniteSet(S), NEW f, \A x \in S : f[x] = 0
    PROVE  Total(f, S) = 0
<1> DEFINE Good == {s \in SUBSET S : Total(f, s) = 0}
<1>1. {} \in Good
  BY TotalOfNone
<1>2. ASSUME NEW s \in SUBSET S, s # {}, \A x \in s : s \ {x} \in Good PROVE s \in Good
  <2>1. IsFiniteSet(s)
    BY FS_Subset
  <2>2. One(s) \in s /\ Total(f, s) = f[One(s)] + Total(f, s \ {One(s)})
    BY <1>2, <2>1, TotalSplits
  <2> QED
    BY <1>2, <2>2
<1> HIDE DEF Good
<1>3. S \in Good
  BY <1>1, <1>2, SetsAll
<1> QED
  BY <1>3 DEF Good

(* The total over two sets without a common element is the sum of their    *)
(* totals.                                                                 *)
LEMMA TotalJoins ==
    ASSUME NEW S, NEW T, IsFiniteSet(S), IsFiniteSet(T), S \cap T = {},
           NEW f, \A x \in S \cup T : f[x] \in Int
    PROVE  Total(f, S \cup T) = Total(f, S) + Total(f, T)
<1> DEFINE Good == {s \in SUBSET T : Total(f, S \cup s) = Total(f, S) + Total(f, s)}
<1>1. {} \in Good
  BY TotalOfNone, TotalType
<1>2. ASSUME NEW s \in SUBSET T, s # {}, \A x \in s : s \ {x} \in Good PROVE s \in Good
  <2>1. IsFiniteSet(s) /\ IsFiniteSet(S \cup s)
    BY FS_Subset, FS_Union
  <2>2. PICK x \in s : TRUE
    BY <1>2
  <2>3. Total(f, S \cup s) = f[x] + Total(f, (S \cup s) \ {x}) /\ Total(f, s) = f[x] + Total(f, s \ {x})
    BY <2>1, <2>2, TotalAny
  <2>4. (S \cup s) \ {x} = S \cup (s \ {x})
    BY <2>2
  <2>5. Total(f, S \cup (s \ {x})) = Total(f, S) + Total(f, s \ {x})
    BY <1>2, <2>2
  <2>6. Total(f, S) \in Int /\ Total(f, s \ {x}) \in Int /\ f[x] \in Int
    BY <2>2, TotalTypes
  <2> DEFINE a == Total(f, S)  b == Total(f, s \ {x})
  <2>7. Total(f, S \cup s) = f[x] + (a + b) /\ Total(f, s) = f[x] + b
    BY <2>3, <2>4, <2>5
  <2>8. f[x] + (a + b) = a + (f[x] + b)
    <3> HIDE DEF a, b
    <3> QED
      BY <2>6 DEF a, b
  <2>9. Total(f, S \cup s) = Total(f, S) + Total(f, s)
    BY <2>7, <2>8
  <2> QED
    BY <2>9
<1> HIDE DEF Good
<1>3. T \in Good
  BY <1>1, <1>2, SetsAll
<1> QED
  BY <1>3 DEF Good

-----------------------------------------------------------------------------
(* Quotients, and parts of a sequence.                                     *)

(* Multiples grow by at least the factor.                                  *)
LEMMA TimesLess ==
    ASSUME NEW a \in Nat, NEW b \in Nat, NEW c \in Nat, a < b
    PROVE  a * c + c <= b * c /\ a * c \in Nat /\ b * c \in Nat
<1>1. PICK d \in Nat : b = a + 1 + d
  BY b = a + 1 + (b - a - 1), b - a - 1 \in Nat
<1>2. b * c = a * c + c + d * c
  BY <1>1
<1>3. d * c \in Nat /\ a * c \in Nat /\ b * c \in Nat
  OBVIOUS
<1> QED
  BY <1>2, <1>3

(* Multiples grow with the number multiplied.                              *)
LEMMA TimesGrow ==
    ASSUME NEW a \in Nat, NEW b \in Nat, NEW c \in Nat, a <= b
    PROVE  a * c <= b * c /\ a * c \in Nat /\ b * c \in Nat
<1>1. CASE a < b
  BY <1>1, TimesLess
<1>2. CASE a = b
  BY <1>2
<1> QED
  BY <1>1, <1>2

(* What n div d means, without the remainder.                              *)
LEMMA Division ==
    ASSUME NEW n \in Nat, NEW d \in Nat \ {0}
    PROVE  n \div d \in Nat /\ (n \div d) * d \in Nat /\ (n \div d) * d <= n /\ n < (n \div d) * d + d
<1>1. n = (n \div d) * d + (n % d)
  OBVIOUS
<1>2. n % d \in Nat /\ n % d < d /\ n \div d \in Nat
  OBVIOUS
<1>3. (n \div d) * d \in Nat
  BY <1>2
<1> QED
  BY <1>1, <1>2, <1>3

(* A number with the bounds of the quotient is the quotient.               *)
LEMMA Quotient ==
    ASSUME NEW n \in Nat, NEW d \in Nat \ {0}, NEW q \in Nat, q * d <= n, n < q * d + d
    PROVE  n \div d = q
<1> DEFINE k == n \div d
<1>1. k \in Nat /\ k * d <= n /\ n < k * d + d /\ k * d \in Nat /\ q * d \in Nat
  BY Division
<1> HIDE DEF k
<1>2. CASE k < q
  BY <1>1, <1>2, TimesLess
<1>3. CASE q < k
  BY <1>1, <1>3, TimesLess
<1> QED
  BY <1>1, <1>2, <1>3 DEF k

(* Quotients grow with the dividend.                                       *)
LEMMA QuotientGrows ==
    ASSUME NEW m \in Nat, NEW n \in Nat, NEW d \in Nat \ {0}, m <= n
    PROVE  m \div d <= n \div d
<1> DEFINE j == m \div d  k == n \div d
<1>1. j \in Nat /\ k \in Nat /\ j * d <= m /\ n < k * d + d /\ j * d \in Nat /\ k * d \in Nat
  BY Division
<1> HIDE DEF j, k
<1>2. CASE k < j
  BY <1>1, <1>2, TimesLess
<1> QED
  BY <1>1, <1>2 DEF j, k

(* Stretches that follow one another cover what they span, once.           *)
LEMMA StretchesCover ==
    ASSUME NEW m \in Nat, NEW n \in Nat, NEW f \in [0..m -> 0..n], f[0] = 0, f[m] = n,
           \A i \in 0..(m - 1) : f[i] <= f[i + 1], NEW x \in 1..n
    PROVE  /\ \E i \in 0..(m - 1) : x \in (f[i] + 1)..f[i + 1]
           /\ \A i, j \in 0..(m - 1) : x \in (f[i] + 1)..f[i + 1] /\ x \in (f[j] + 1)..f[j + 1] => i = j
<1> DEFINE Up == {i \in Nat : i <= m => \A j \in 0..i : f[j] <= f[i]}
<1>1. 0 \in Up
  OBVIOUS
<1>2. ASSUME NEW i \in Nat, i \in Up PROVE i + 1 \in Up
  <2>1. ASSUME i + 1 <= m, NEW j \in 0..(i + 1) PROVE f[j] <= f[i + 1]
    <3>1. f[i] <= f[i + 1] /\ f[i] \in Nat /\ f[i + 1] \in Nat
      BY <2>1
    <3>2. CASE j = i + 1
      BY <3>1, <3>2
    <3>3. CASE j # i + 1
      <4>1. j \in 0..i /\ f[j] \in Nat
        BY <2>1, <3>3
      <4>2. f[j] <= f[i]
        BY <1>2, <2>1, <4>1
      <4> QED
        BY <3>1, <4>1, <4>2
    <3> QED
      BY <3>2, <3>3
  <2> QED
    BY <2>1
<1> HIDE DEF Up
<1>3. Nat \subseteq Up
  BY <1>1, <1>2, NumbersAll
<1>4. \A i \in 0..m : \A j \in 0..i : f[j] <= f[i]
  BY <1>3 DEF Up
<1> DEFINE Reach == {i \in Nat : i <= m /\ x <= f[i]}
<1>5. m \in Reach
  OBVIOUS
<1>6. PICK k \in Reach : \A i \in Reach : k <= i
  <2> HIDE DEF Reach
  <2>1. Reach \subseteq Nat
    BY DEF Reach
  <2> QED
    BY <1>5, <2>1, LeastOf
<1>7. k \in Nat /\ k <= m /\ x <= f[k] /\ k # 0
  BY <1>6
<1>8. k - 1 \in 0..(m - 1) /\ k - 1 + 1 = k /\ f[k - 1] \in Nat /\ k - 1 \notin Reach
  BY <1>6, <1>7
<1>9. f[k - 1] < x
  BY <1>7, <1>8
<1>10. x \in (f[k - 1] + 1)..f[k - 1 + 1]
  BY <1>7, <1>8, <1>9
<1>11. ASSUME NEW i \in 0..(m - 1), NEW j \in 0..(m - 1), i < j,
              x \in (f[i] + 1)..f[i + 1], x \in (f[j] + 1)..f[j + 1]
       PROVE  FALSE
  <2>1. f[i + 1] <= f[j] /\ f[i + 1] \in Nat /\ f[j] \in Nat
    BY <1>4, <1>11
  <2>2. x \in Nat /\ x <= f[i + 1] /\ f[j] + 1 <= x
    BY <1>11
  <2> QED
    BY <2>1, <2>2
<1>12. \A i, j \in 0..(m - 1) : x \in (f[i] + 1)..f[i + 1] /\ x \in (f[j] + 1)..f[j + 1] => i = j
  BY <1>11
<1> QED
  BY <1>8, <1>10, <1>12

(* The borders of the parts of 1..n grow from 0 to n.                      *)
LEMMA CutsGrow ==
    ASSUME NEW n \in Nat, NEW of \in Nat \ {0}, NEW i \in 0..(of - 1)
    PROVE  /\ (n * i) \div of \in 0..n /\ (n * (i + 1)) \div of \in 0..n
           /\ (n * i) \div of <= (n * (i + 1)) \div of
           /\ (n * 0) \div of = 0 /\ (n * of) \div of = n
<1>1. n * i \in Nat /\ n * (i + 1) \in Nat /\ n * of \in Nat /\ n * i <= n * (i + 1) /\ n * (i + 1) <= n * of
  <2>1. i * n <= (i + 1) * n /\ (i + 1) * n <= of * n
    BY TimesGrow
  <2> QED
    BY <2>1
<1>2. (n * of) \div of = n
  BY <1>1, Quotient
<1>3. (n * 0) \div of = 0
  BY Quotient
<1>4. (n * i) \div of <= (n * (i + 1)) \div of /\ (n * (i + 1)) \div of <= (n * of) \div of
  BY <1>1, QuotientGrows
<1>5. (n * i) \div of \in Nat /\ (n * (i + 1)) \div of \in Nat
  BY <1>1, Division
<1> QED
  BY <1>2, <1>3, <1>4, <1>5

(* The parts of parallel_for_chunks cover 1..n and share no number.        *)
LEMMA PartsCover ==
    ASSUME NEW n \in Nat, NEW of \in Nat \ {0}
    PROVE  /\ \A i \in 0..(of - 1) : Part(n, i, of) \subseteq 1..n
           /\ \A x \in 1..n : \E i \in 0..(of - 1) : x \in Part(n, i, of)
           /\ \A x \in 1..n : \A i, j \in 0..(of - 1) :
                 x \in Part(n, i, of) /\ x \in Part(n, j, of) => i = j
<1> DEFINE f == [i \in 0..of |-> (n * i) \div of]
<1>1. f \in [0..of -> 0..n]
  <2>1. ASSUME NEW i \in 0..of PROVE (n * i) \div of \in 0..n
    <3>1. CASE i = of
      <4>1. (n * of) \div of = n
        BY CutsGrow
      <4> QED
        BY <3>1, <4>1
    <3>2. CASE i # of
      BY <2>1, <3>2, CutsGrow
    <3> QED
      BY <3>1, <3>2
  <2> QED
    BY <2>1
<1>2. f[0] = 0 /\ f[of] = n
  BY CutsGrow
<1>3. ASSUME NEW i \in 0..(of - 1) PROVE f[i] <= f[i + 1]
  <2>1. i \in 0..of /\ i + 1 \in 0..of
    OBVIOUS
  <2>2. (n * i) \div of <= (n * (i + 1)) \div of
    BY CutsGrow
  <2> QED
    BY <2>1, <2>2
<1>4. \A i \in 0..(of - 1) : Part(n, i, of) = (f[i] + 1)..f[i + 1]
  BY DEF Part
<1> HIDE DEF f
<1>5. ASSUME NEW i \in 0..(of - 1) PROVE f[i] \in 0..n /\ f[i + 1] \in 0..n
  <2>1. i \in 0..of /\ i + 1 \in 0..of
    OBVIOUS
  <2> QED
    BY <1>1, <2>1
<1>6. ASSUME NEW i \in 0..(of - 1) PROVE Part(n, i, of) \subseteq 1..n
  <2>1. Part(n, i, of) = (f[i] + 1)..f[i + 1]
    BY <1>4
  <2> QED
    BY <1>5, <2>1
<1>7. ASSUME NEW x \in 1..n
      PROVE  /\ \E i \in 0..(of - 1) : x \in Part(n, i, of)
             /\ \A i, j \in 0..(of - 1) : x \in Part(n, i, of) /\ x \in Part(n, j, of) => i = j
  <2>1. /\ \E i \in 0..(of - 1) : x \in (f[i] + 1)..f[i + 1]
        /\ \A i, j \in 0..(of - 1) : x \in (f[i] + 1)..f[i + 1] /\ x \in (f[j] + 1)..f[j + 1] => i = j
    BY <1>1, <1>2, <1>3, StretchesCover
  <2> QED
    BY <1>4, <2>1
<1> QED
  BY <1>6, <1>7

-----------------------------------------------------------------------------
(* A call, and the edges it uses.                                          *)

EdgeType == [head : LayoutPoints, tail : LayoutPoints, period : Nat \ {0}]

(* What the assumption on the calls says of the call at work.              *)
LEMMA CallIs ==
    ASSUME call \in LayoutCases
    PROVE  /\ Route \in LayoutRoutes /\ call.threads \in Nat \ {0} /\ call.epochs \in Nat \ {0}
           /\ call.batches \in Nat \ {0} /\ call.rate \in Nat
           /\ call.start \in Seq(Int) /\ Len(call.start) \in Nat
           /\ call.edges \in Seq([head : LayoutPoints, tail : LayoutPoints, period : Nat])
           /\ Len(call.edges) \in Nat
           /\ \A i \in 1..Len(call.edges) :
                 /\ call.edges[i] \in EdgeType
                 /\ call.edges[i].period >= Unit
                 /\ call.rate > 0 => call.edges[i].period % call.rate = 0
           /\ Route # "replay" =>
                 \A i \in 2..Len(call.edges) : call.edges[i - 1].head <= call.edges[i].head
           /\ Unit \in Nat \ {0} /\ SyncEvery \in Nat \ {0} /\ Clip \in Nat \ {0} /\ Bound \in Nat \ {0}
           /\ IsFiniteSet(Team) /\ 0 \in Team
<1>1. /\ Unit \in Nat \ {0} /\ SyncEvery \in Nat \ {0} /\ Clip \in Nat \ {0} /\ Bound \in Nat \ {0}
      /\ Route \in LayoutRoutes /\ call.threads \in Nat \ {0} /\ call.epochs \in Nat \ {0}
      /\ call.batches \in Nat \ {0} /\ call.rate \in Nat /\ call.start \in Seq(Int)
  BY LayoutAssumption DEF Route
<1>2. /\ call.edges \in Seq([head : LayoutPoints, tail : LayoutPoints, period : Nat])
      /\ \A i \in 1..Len(call.edges) :
            /\ call.edges[i].period >= Unit
            /\ call.rate > 0 => call.edges[i].period % call.rate = 0
            /\ Route # "replay" /\ i > 1 => call.edges[i - 1].head <= call.edges[i].head
  BY LayoutAssumption DEF Route, LayoutPoints
<1>3. Len(call.start) \in Nat /\ Len(call.edges) \in Nat
  BY <1>1, <1>2
<1>4. \A i \in 1..Len(call.edges) : call.edges[i] \in [head : LayoutPoints, tail : LayoutPoints, period : Nat]
  BY <1>2, ElementOf
<1>5. ASSUME NEW i \in 1..Len(call.edges) PROVE call.edges[i] \in EdgeType
  <2> DEFINE e == call.edges[i]
  <2>1. e \in [head : LayoutPoints, tail : LayoutPoints, period : Nat] /\ e.period >= Unit
    BY <1>2, <1>4
  <2> HIDE DEF e
  <2>2. e.period \in Nat \ {0} /\ e = [head |-> e.head, tail |-> e.tail, period |-> e.period]
    BY <1>1, <2>1
  <2> QED
    BY <2>1, <2>2 DEF EdgeType, e
<1>6. ASSUME Route # "replay", NEW i \in 2..Len(call.edges)
      PROVE  call.edges[i - 1].head <= call.edges[i].head
  <2>1. i \in 1..Len(call.edges) /\ i > 1
    BY <1>3
  <2> QED
    BY <1>2, <1>6, <2>1
<1>7. IsFiniteSet(Team) /\ 0 \in Team
  <2>1. call.threads \in Nat /\ 0 \in 0..(call.threads - 1)
    BY <1>1
  <2> QED
    BY <2>1, FirstNumbers DEF Team
<1> QED
  BY <1>1, <1>2, <1>3, <1>5, <1>6, <1>7

(* The n-th number of a set, and the elements chosen by it.                *)
Nth(K, n) == CHOOSE i \in K : Cardinality({j \in K : j < i}) = n - 1

(* Of two elements of a finite set of numbers the larger has more elements *)
(* below it.                                                               *)
LEMMA BelowGrows ==
    ASSUME NEW K, K \subseteq Nat, IsFiniteSet(K), NEW a \in K, NEW b \in K, a < b
    PROVE  Cardinality({j \in K : j < a}) < Cardinality({j \in K : j < b})
<1> DEFINE A == {j \in K : j < a}
           B == {j \in K : j < b}
<1>1. a \in Nat /\ b \in Nat /\ \A j \in K : j \in Nat
  OBVIOUS
<1>2. ASSUME NEW j \in A PROVE j \in B
  <2>1. j \in Nat /\ j < a /\ j \in K
    BY <1>1
  <2>2. j < b
    BY <1>1, <2>1
  <2> QED
    BY <2>1, <2>2
<1>3. a \in B /\ a \notin A
  BY <1>1
<1>4. B \subseteq K
  OBVIOUS
<1> HIDE DEF A, B
<1>5. A # B
  BY <1>3
<1>6. IsFiniteSet(B)
  BY <1>4, Within
<1>7. Cardinality(A) < Cardinality(B)
  BY <1>2, <1>5, <1>6, Within
<1> QED
  BY <1>7 DEF A, B

(* A finite set of numbers has an n-th element.                            *)
LEMMA NthIs ==
    ASSUME NEW K, K \subseteq Nat, IsFiniteSet(K), NEW n \in 1..Cardinality(K)
    PROVE  Nth(K, n) \in K /\ Cardinality({j \in K : j < Nth(K, n)}) = n - 1
<1> DEFINE T == 0..(Cardinality(K) - 1)
           f == [i \in K |-> Cardinality({j \in K : j < i})]
<1>1. Cardinality(K) \in Nat
  BY FS_CardinalityType
<1>2. ASSUME NEW i \in K PROVE f[i] \in T
  <2> DEFINE B == {j \in K : j < i}
  <2>0. i \in Nat
    OBVIOUS
  <2>1. B \subseteq K /\ i \notin B
    BY <2>0
  <2>2. B # K
    BY <2>1
  <2>4. f[i] = Cardinality(B)
    OBVIOUS
  <2> HIDE DEF B, f
  <2>3. Cardinality(B) \in Nat /\ Cardinality(B) < Cardinality(K)
    BY <2>1, <2>2, Within
  <2> QED
    BY <1>1, <2>3, <2>4
<1>3. ASSUME NEW a \in K, NEW b \in K, f[a] = f[b] PROVE a = b
  <2>1. a \in Nat /\ b \in Nat /\ f[a] \in Nat
    BY <1>2
  <2>2. CASE a < b
    <3>1. f[a] < f[b]
      BY <2>2, BelowGrows
    <3> QED
      BY <1>3, <2>1, <3>1
  <2>3. CASE b < a
    <3>1. f[b] < f[a]
      BY <2>3, BelowGrows
    <3> QED
      BY <1>3, <2>1, <3>1
  <2> QED
    BY <2>1, <2>2, <2>3
<1>4. f \in Injection(K, T)
  <2>1. f \in [K -> T]
    BY <1>2
  <2> HIDE DEF f, T
  <2> QED
    BY <1>3, <2>1 DEF Injection, IsInjective
<1>5. IsFiniteSet(T) /\ Cardinality(T) = Cardinality(K)
  BY <1>1, FirstNumbers
<1>6. f \in Surjection(K, T)
  <2> HIDE DEF f, T
  <2> QED
    BY <1>4, <1>5, FS_Injection
<1>7. n - 1 \in T
  BY <1>1
<1>8. \E i \in K : f[i] = n - 1
  <2> HIDE DEF f, T
  <2> QED
    BY <1>6, <1>7 DEF Surjection
<1>9. \E i \in K : Cardinality({j \in K : j < i}) = n - 1
  BY <1>8
<1> QED
  BY <1>9 DEF Nth

(* The chosen elements come in the order of their places.                  *)
LEMMA ChosenIs ==
    ASSUME NEW s, NEW K, K \subseteq Nat, IsFiniteSet(K)
    PROVE  /\ Cardinality(K) \in Nat /\ DOMAIN Chosen(s, K) = 1..Cardinality(K)
           /\ \A n \in 1..Cardinality(K) : Nth(K, n) \in K /\ Chosen(s, K)[n] = s[Nth(K, n)]
           /\ \A n, m \in 1..Cardinality(K) : n < m => Nth(K, n) < Nth(K, m)
<1>1. Cardinality(K) \in Nat
  BY FS_CardinalityType
<1>2. Chosen(s, K) = [n \in 1..Cardinality(K) |-> s[Nth(K, n)]]
  BY DEF Chosen, Nth
<1>3. ASSUME NEW n \in 1..Cardinality(K), NEW m \in 1..Cardinality(K), n < m
      PROVE  Nth(K, n) < Nth(K, m)
  <2> DEFINE a == Nth(K, n)
             b == Nth(K, m)
  <2>1. /\ a \in K /\ Cardinality({j \in K : j < a}) = n - 1
        /\ b \in K /\ Cardinality({j \in K : j < b}) = m - 1
    BY NthIs
  <2> HIDE DEF a, b
  <2>2. a # b
    BY <1>3, <2>1
  <2>3. ASSUME b < a PROVE FALSE
    <3>1. Cardinality({j \in K : j < b}) < Cardinality({j \in K : j < a})
      BY <2>1, <2>3, BelowGrows
    <3> QED
      BY <1>3, <2>1, <3>1
  <2>4. a \in Nat /\ b \in Nat
    BY <2>1
  <2> QED
    BY <2>2, <2>3, <2>4 DEF a, b
<1>4. \A n \in 1..Cardinality(K) : Nth(K, n) \in K
  BY NthIs
<1> QED
  BY <1>1, <1>2, <1>3, <1>4

(* The edges that are used keep the properties, and the order, of the edges*)
(* of the call.                                                            *)
LEMMA EdgesRight ==
    ASSUME call \in LayoutCases, edges = LoopEdges(call)
    PROVE  /\ edges \in Seq(EdgeType) /\ Len(edges) \in Nat /\ EdgeIds = 1..Len(edges)
           /\ \A e \in EdgeIds :
                 /\ edges[e] \in EdgeType /\ edges[e].head # edges[e].tail
                 /\ edges[e].period >= Unit
                 /\ call.rate > 0 => edges[e].period % call.rate = 0
           /\ Route # "replay" => \A e, f \in EdgeIds : e <= f => edges[e].head <= edges[f].head
<1> DEFINE K == {i \in 1..Len(call.edges) : Usable(call, call.edges[i])}
<1>1. Len(call.edges) \in Nat
  BY CallIs
<1>2. K \subseteq 1..Len(call.edges) /\ K \subseteq Nat /\ IsFiniteSet(K)
  <2>1. K \subseteq 1..Len(call.edges)
    OBVIOUS
  <2> HIDE DEF K
  <2>2. IsFiniteSet(K)
    BY <1>1, <2>1, FirstNumbers, Within
  <2>3. K \subseteq Nat
    BY <1>1, <2>1
  <2> QED
    BY <2>1, <2>2, <2>3
<1>3. edges = Chosen(call.edges, K)
  BY DEF LoopEdges
<1> HIDE DEF K
<1>4. /\ Cardinality(K) \in Nat /\ DOMAIN edges = 1..Cardinality(K)
      /\ \A n \in 1..Cardinality(K) : Nth(K, n) \in K /\ edges[n] = call.edges[Nth(K, n)]
      /\ \A n, m \in 1..Cardinality(K) : n < m => Nth(K, n) < Nth(K, m)
  <2> DEFINE s == call.edges
  <2>1. edges = Chosen(s, K)
    BY <1>3
  <2> HIDE DEF s
  <2>2. /\ Cardinality(K) \in Nat /\ DOMAIN Chosen(s, K) = 1..Cardinality(K)
        /\ \A n \in 1..Cardinality(K) : Nth(K, n) \in K /\ Chosen(s, K)[n] = s[Nth(K, n)]
        /\ \A n, m \in 1..Cardinality(K) : n < m => Nth(K, n) < Nth(K, m)
    BY <1>2, ChosenIs
  <2> QED
    BY <2>1, <2>2 DEF s
<1>5. edges = [n \in 1..Cardinality(K) |-> edges[n]]
  BY <1>3 DEF Chosen
<1>6. \A n \in 1..Cardinality(K) :
         /\ edges[n] \in EdgeType /\ edges[n].head # edges[n].tail
         /\ edges[n].period >= Unit
         /\ call.rate > 0 => edges[n].period % call.rate = 0
  <2> SUFFICES ASSUME NEW n \in 1..Cardinality(K)
               PROVE  /\ edges[n] \in EdgeType /\ edges[n].head # edges[n].tail
                      /\ edges[n].period >= Unit
                      /\ call.rate > 0 => edges[n].period % call.rate = 0
    OBVIOUS
  <2> DEFINE i == Nth(K, n)
  <2>1. i \in 1..Len(call.edges) /\ edges[n] = call.edges[i] /\ Usable(call, call.edges[i])
    BY <1>2, <1>4 DEF K
  <2> HIDE DEF i
  <2> QED
    BY <2>1, CallIs DEF Usable
<1>7. edges \in Seq(EdgeType) /\ Len(edges) = Cardinality(K)
  BY <1>4, <1>5, <1>6
<1>8. EdgeIds = 1..Len(edges)
  BY DEF EdgeIds
<1>9. ASSUME Route # "replay", NEW e \in EdgeIds, NEW f \in EdgeIds, e <= f
      PROVE  edges[e].head <= edges[f].head
  <2> DEFINE Up == {m \in Nat : m <= Len(call.edges) =>
                        \A k \in 1..m : call.edges[k].head <= call.edges[m].head}
  <2>0. ASSUME NEW k \in 1..Len(call.edges) PROVE call.edges[k].head \in Int
    <3>1. call.edges[k] \in EdgeType /\ Len(call.start) \in Nat
      BY CallIs
    <3> QED
      BY <3>1 DEF EdgeType, LayoutPoints
  <2>1. 0 \in Up
    OBVIOUS
  <2>2. ASSUME NEW m \in Nat, m \in Up PROVE m + 1 \in Up
    <3>1. ASSUME m + 1 <= Len(call.edges), NEW k \in 1..(m + 1)
          PROVE  call.edges[k].head <= call.edges[m + 1].head
      <4>1. CASE k = m + 1
        BY <1>1, <2>0, <3>1, <4>1
      <4>2. CASE k # m + 1
        <5>1. k \in 1..m /\ m \in 1..Len(call.edges) /\ m + 1 \in 2..Len(call.edges) /\ m + 1 - 1 = m
          BY <1>1, <3>1, <4>2
        <5>2. call.edges[k].head <= call.edges[m].head
          BY <2>2, <5>1
        <5>3. call.edges[m].head <= call.edges[m + 1].head
          BY <1>9, <5>1, CallIs
        <5>4. k \in 1..Len(call.edges) /\ m + 1 \in 1..Len(call.edges)
          BY <1>1, <3>1, <5>1
        <5> QED
          BY <2>0, <5>1, <5>2, <5>3, <5>4
      <4> QED
        BY <4>1, <4>2
    <3> QED
      BY <3>1
  <2> HIDE DEF Up
  <2>3. Nat \subseteq Up
    BY <2>1, <2>2, NumbersAll
  <2>4. /\ Nth(K, e) \in K /\ Nth(K, f) \in K /\ (e < f => Nth(K, e) < Nth(K, f))
        /\ edges[e] = call.edges[Nth(K, e)] /\ edges[f] = call.edges[Nth(K, f)]
    BY <1>4, <1>7, <1>8, <1>9
  <2>5. \A a, b \in 1..Len(call.edges) : a <= b => call.edges[a].head <= call.edges[b].head
    BY <1>1, <2>3 DEF Up
  <2>6. Nth(K, e) \in 1..Len(call.edges) /\ Nth(K, f) \in 1..Len(call.edges)
    BY <1>2, <2>4
  <2>7. CASE e = f
    <3>1. edges[e].head \in Int
      BY <2>0, <2>4, <2>6
    <3> QED
      BY <2>7, <3>1
  <2>8. CASE e < f
    <3>1. Nth(K, e) <= Nth(K, f)
      BY <1>1, <2>4, <2>6, <2>8
    <3> QED
      BY <2>4, <2>5, <2>6, <3>1
  <2> QED
    BY <1>7, <1>8, <1>9, <2>7, <2>8
<1> QED
  BY <1>4, <1>6, <1>7, <1>8, <1>9

(* The least element of a set of numbers is one of them.                   *)
LEMMA LeastIn == ASSUME NEW S, S \subseteq Nat, S # {}
                 PROVE  Min(S) \in S /\ \A x \in S : Min(S) <= x
<1>1. \E x \in S : \A y \in S : x <= y
  BY LeastOf
<1> QED
  BY <1>1 DEF Min

(* The boundaries of "atomic" follow one another.                          *)
Later(first) == {b \in first..Len(edges) : ~(b \in 1..Len(edges) - 1 /\ edges[b + 1].head = edges[b].head)}

(* The boundaries of worker_begin grow from 0 to the number of edges.      *)
LEMMA BoundariesGrow ==
    ASSUME call \in LayoutCases, edges = LoopEdges(call)
    PROVE  /\ Boundary(0) = 0 /\ Boundary(call.threads) = Len(edges)
           /\ \A t \in 0..call.threads : Boundary(t) \in 0..Len(edges)
           /\ \A t \in Team : Boundary(t) <= Boundary(t + 1)
<1> DEFINE n == Len(edges)
           m == call.threads
<1>1. n \in Nat /\ m \in Nat \ {0}
  BY CallIs, EdgesRight
<1>2. \A t \in 0..m : Boundary(t) = IF t \in {0, m} THEN (n * t) \div m ELSE Min(Later((n * t) \div m))
  BY DEF Boundary, Later
<1>3. Boundary(0) = 0 /\ Boundary(m) = n
  <2>1. (n * 0) \div m = 0 /\ (n * m) \div m = n
    BY <1>1, CutsGrow
  <2>2. 0 \in 0..m /\ m \in 0..m
    BY <1>1
  <2> HIDE DEF m, n
  <2> QED
    BY <1>2, <2>1, <2>2
<1>4. ASSUME NEW t \in 0..m, t \notin {0, m}
      PROVE  /\ Boundary(t) \in Later((n * t) \div m) /\ (n * t) \div m \in 0..n
             /\ \A b \in Later((n * t) \div m) : Boundary(t) <= b
  <2>1. t \in 0..(m - 1)
    BY <1>1, <1>4
  <2>2. (n * t) \div m \in 0..n
    BY <1>1, <2>1, CutsGrow
  <2>3. n \in Later((n * t) \div m)
    <3>1. n \in ((n * t) \div m)..n /\ n \notin 1..n - 1
      BY <1>1, <2>2
    <3> QED
      BY <3>1 DEF Later
  <2>4. Later((n * t) \div m) \subseteq Nat
    BY <1>1, <2>2 DEF Later
  <2> DEFINE S == Later((n * t) \div m)
  <2>5. Boundary(t) = Min(S)
    BY <1>2, <1>4
  <2> HIDE DEF S
  <2>6. Min(S) \in S /\ \A x \in S : Min(S) <= x
    BY <2>3, <2>4, LeastIn DEF S
  <2> QED
    BY <2>2, <2>5, <2>6 DEF S
<1>5. ASSUME NEW t \in 0..m PROVE Boundary(t) \in 0..n
  <2>1. CASE t \in {0, m}
    BY <1>1, <1>3, <2>1
  <2>2. CASE t \notin {0, m}
    <3>1. Boundary(t) \in Later((n * t) \div m) /\ (n * t) \div m \in 0..n
      BY <1>4, <2>2
    <3>2. Later((n * t) \div m) \subseteq 0..n
      BY <1>1, <3>1 DEF Later
    <3> QED
      BY <3>1, <3>2
  <2> QED
    BY <2>1, <2>2
<1>6. ASSUME NEW t \in Team PROVE Boundary(t) <= Boundary(t + 1)
  <2>1. t \in 0..(m - 1) /\ t \in 0..m /\ t + 1 \in 0..m /\ t + 1 # 0 /\ t # m
    BY <1>1 DEF Team
  <2>2. Boundary(t) \in 0..n /\ Boundary(t + 1) \in 0..n
    BY <1>5, <2>1
  <2>3. CASE t = 0
    BY <1>3, <2>2, <2>3
  <2>4. CASE t + 1 = m
    BY <1>3, <2>2, <2>4
  <2>5. CASE t # 0 /\ t + 1 # m
    <3> DEFINE a == (n * t) \div m
               b == (n * (t + 1)) \div m
    <3>1. /\ Boundary(t) \in Later(a) /\ a \in 0..n /\ \A x \in Later(a) : Boundary(t) <= x
      BY <1>4, <2>1, <2>5
    <3>2. /\ Boundary(t + 1) \in Later(b) /\ b \in 0..n
      BY <1>4, <2>1, <2>5
    <3>3. a <= b
      BY <1>1, <2>1, CutsGrow
    <3> HIDE DEF a, b
    <3>4. b..n \subseteq a..n
      BY <1>1, <3>1, <3>2, <3>3
    <3>5. Later(b) \subseteq Later(a)
      BY <3>4 DEF Later
    <3> QED
      BY <3>1, <3>2, <3>5
  <2> QED
    BY <2>3, <2>4, <2>5
<1> QED
  BY <1>3, <1>5, <1>6

(* Every edge is in the stripe of one thread, in one batch.                *)
Owned(t, b, e) == e \in Stripe(t, b)
BatchIds == 0..(Batches - 1)

(* There is at least one batch, and one alone where sums are not merged.   *)
LEMMA BatchesIs == ASSUME call \in LayoutCases
                   PROVE  Batches \in Nat \ {0} /\ 0 \in BatchIds /\ (Route # "merged" => BatchIds = {0})
<1>1. Batches \in Nat \ {0}
  BY CallIs DEF Batches
<1>2. Route # "merged" => BatchIds = {0}
  BY DEF Batches, BatchIds
<1> QED
  BY <1>1, <1>2 DEF BatchIds

(* A batch is a stretch of edges, and a thread's stripe of it one of the   *)
(* parts of that stretch.                                                  *)
LEMMA MergedStripe ==
    ASSUME call \in LayoutCases, edges = LoopEdges(call), Route = "merged", NEW b \in BatchIds
    PROVE  \E low \in Nat, n \in Nat :
              /\ Part(Len(edges), b, call.batches) = (low + 1)..(low + n)
              /\ \A t \in Team : Stripe(t, b) = {low + k : k \in Part(n, t, call.threads)}
<1> DEFINE whole == Part(Len(edges), b, call.batches)
           low == (Len(edges) * b) \div call.batches
           high == (Len(edges) * (b + 1)) \div call.batches
<1>1. Len(edges) \in Nat /\ call.batches \in Nat \ {0} /\ b \in 0..(call.batches - 1) /\ call.threads \in Nat \ {0}
  BY CallIs, EdgesRight DEF BatchIds, Batches
<1>2. low \in Nat /\ high \in Nat /\ low <= high
  <2> DEFINE n == Len(edges)
             of == call.batches
  <2>1. n \in Nat /\ of \in Nat \ {0} /\ b \in 0..(of - 1)
    BY <1>1
  <2>2. low = (n * b) \div of /\ high = (n * (b + 1)) \div of
    OBVIOUS
  <2> HIDE DEF n, of, low, high
  <2>3. (n * b) \div of \in 0..n /\ (n * (b + 1)) \div of \in 0..n /\ (n * b) \div of <= (n * (b + 1)) \div of
    BY <2>1, CutsGrow
  <2> QED
    BY <2>1, <2>2, <2>3
<1>3. whole = (low + 1)..high
  BY DEF Part
<1> HIDE DEF low, high
<1>4. Cardinality((low + 1)..high) = high - low
  <2> DEFINE first == low + 1
  <2>1. first \in Int /\ high \in Int /\ first <= high + 1 /\ high - first + 1 = high - low
    BY <1>2
  <2> HIDE DEF first
  <2>2. Cardinality(first..high) = IF first > high THEN 0 ELSE high - first + 1
    BY <2>1, FS_Interval
  <2>3. Cardinality(first..high) = high - low
    <3>1. CASE first > high
      BY <1>2, <2>1, <2>2, <3>1
    <3>2. CASE ~(first > high)
      BY <2>1, <2>2, <3>2
    <3> QED
      BY <3>1, <3>2
  <2> QED
    BY <2>3 DEF first
<1>5. \A t \in Team : Stripe(t, b) = {Min(whole) - 1 + k : k \in Part(Cardinality(whole), t, call.threads)}
  BY DEF Stripe
<1> DEFINE n == high - low
<1>6. n \in Nat /\ low + n = high
  BY <1>2
<1>7. Cardinality(whole) = n /\ whole = (low + 1)..(low + n)
  BY <1>3, <1>4, <1>6
<1> HIDE DEF whole, n
<1>8. ASSUME NEW t \in Team PROVE Stripe(t, b) = {low + k : k \in Part(n, t, call.threads)}
  <2>1. Stripe(t, b) = {Min(whole) - 1 + k : k \in Part(n, t, call.threads)}
    BY <1>5, <1>7
  <2>2. CASE n = 0
    <3>1. Part(n, t, call.threads) = {}
      <4>1. t \in 0..(call.threads - 1)
        BY DEF Team
      <4>2. Part(n, t, call.threads) \subseteq 1..n
        BY <1>1, <1>6, <4>1, PartsCover
      <4> QED
        BY <2>2, <4>2
    <3> QED
      BY <2>1, <3>1
  <2>3. CASE n # 0
    <3>1. low + 1 \in whole /\ whole \subseteq Nat
      BY <1>2, <1>6, <1>7, <2>3
    <3>2. Min(whole) \in whole /\ \A x \in whole : Min(whole) <= x
      BY <3>1, LeastIn
    <3>3. Min(whole) = low + 1
      BY <1>2, <1>6, <1>7, <3>1, <3>2
    <3>4. Min(whole) - 1 = low
      BY <1>2, <3>3
    <3> QED
      BY <2>1, <3>4
  <2> QED
    BY <2>2, <2>3
<1> QED
  BY <1>2, <1>6, <1>7, <1>8 DEF whole

(* Every edge of a batch is in the stripe of exactly one thread.           *)
LEMMA MergedOwners ==
    ASSUME call \in LayoutCases, edges = LoopEdges(call), Route = "merged", NEW b \in BatchIds
    PROVE  /\ Part(Len(edges), b, call.batches) \subseteq EdgeIds
           /\ \A t \in Team : Stripe(t, b) \subseteq Part(Len(edges), b, call.batches)
           /\ \A e \in Part(Len(edges), b, call.batches) : \E t \in Team : Owned(t, b, e)
           /\ \A e : \A t, s \in Team : Owned(t, b, e) /\ Owned(s, b, e) => t = s
<1>1. Len(edges) \in Nat /\ call.batches \in Nat \ {0} /\ b \in 0..(call.batches - 1)
      /\ call.threads \in Nat \ {0} /\ EdgeIds = 1..Len(edges)
  BY CallIs, EdgesRight DEF BatchIds, Batches
<1>2. PICK low \in Nat, n \in Nat :
         /\ Part(Len(edges), b, call.batches) = (low + 1)..(low + n)
         /\ \A t \in Team : Stripe(t, b) = {low + k : k \in Part(n, t, call.threads)}
  BY MergedStripe
<1>3. /\ \A t \in Team : Part(n, t, call.threads) \subseteq 1..n
      /\ \A x \in 1..n : \E t \in Team : x \in Part(n, t, call.threads)
      /\ \A x \in 1..n : \A t, s \in Team :
            x \in Part(n, t, call.threads) /\ x \in Part(n, s, call.threads) => t = s
  BY <1>1, PartsCover DEF Team
<1>4. Part(Len(edges), b, call.batches) \subseteq EdgeIds
  BY <1>1, PartsCover
<1>5. ASSUME NEW t \in Team, NEW e PROVE Owned(t, b, e) <=> e - low \in Part(n, t, call.threads) /\ e \in Nat
  <2>1. Owned(t, b, e) <=> \E k \in Part(n, t, call.threads) : e = low + k
    BY <1>2 DEF Owned
  <2>2. ASSUME NEW k \in Part(n, t, call.threads), e = low + k PROVE e - low = k /\ e \in Nat
    <3>1. k \in Nat
      BY <1>3
    <3> QED
      BY <2>2, <3>1
  <2>3. ASSUME e - low \in Part(n, t, call.threads), e \in Nat PROVE e = low + (e - low)
    BY <2>3
  <2> QED
    BY <2>1, <2>2, <2>3
<1>6. ASSUME NEW t \in Team, NEW e \in Stripe(t, b) PROVE e \in Part(Len(edges), b, call.batches)
  <2>1. e - low \in 1..n /\ e \in Nat
    BY <1>3, <1>5, <1>6 DEF Owned
  <2> QED
    BY <1>2, <2>1
<1>7. ASSUME NEW e \in Part(Len(edges), b, call.batches) PROVE \E t \in Team : Owned(t, b, e)
  <2>1. e - low \in 1..n /\ e \in Nat
    BY <1>2
  <2> QED
    BY <1>3, <1>5, <2>1
<1>8. ASSUME NEW e, NEW t \in Team, NEW s \in Team, Owned(t, b, e), Owned(s, b, e) PROVE t = s
  <2>1. e - low \in Part(n, t, call.threads) /\ e - low \in Part(n, s, call.threads)
    BY <1>5, <1>8
  <2>2. e - low \in 1..n
    BY <1>3, <2>1
  <2> QED
    BY <1>3, <2>1, <2>2
<1> QED
  BY <1>4, <1>6, <1>7, <1>8

(* The stripes of a batch share out the edges of the batch, and the batches *)
(* share out the edges.                                                     *)
LEMMA StripesShare ==
    ASSUME call \in LayoutCases, edges = LoopEdges(call)
    PROVE  /\ \A t \in Team, b \in BatchIds : Stripe(t, b) \subseteq EdgeIds
           /\ \A e \in EdgeIds : \E t \in Team, b \in BatchIds : Owned(t, b, e)
           /\ \A e \in EdgeIds : \A t, s \in Team, b, c \in BatchIds :
                 Owned(t, b, e) /\ Owned(s, c, e) => t = s /\ b = c
<1> DEFINE n == Len(edges)
           m == call.threads
<1>1. n \in Nat /\ m \in Nat \ {0} /\ EdgeIds = 1..n /\ Team = 0..(m - 1) /\ Route \in LayoutRoutes
  BY CallIs, EdgesRight DEF Team
<1>2. (Route # "merged" => BatchIds = {0}) /\ 0 \in BatchIds
  BY BatchesIs
<1>3. CASE Route = "atomic"
  <2> DEFINE f == [t \in 0..m |-> Boundary(t)]
  <2>1. f \in [0..m -> 0..n] /\ f[0] = 0 /\ f[m] = n /\ \A t \in 0..(m - 1) : f[t] <= f[t + 1]
    <3>1. 0 \in 0..m /\ m \in 0..m /\ \A t \in 0..(m - 1) : t \in 0..m /\ t + 1 \in 0..m
      BY <1>1
    <3> QED
      BY <1>1, <3>1, BoundariesGrow
  <2>2. ASSUME NEW t \in Team, NEW b \in BatchIds PROVE Stripe(t, b) = (f[t] + 1)..f[t + 1]
    <3>1. t \in 0..m /\ t + 1 \in 0..m
      BY <1>1
    <3>2. f[t] = Boundary(t) /\ f[t + 1] = Boundary(t + 1)
      BY <3>1
    <3>3. Stripe(t, b) = (Boundary(t) + 1)..Boundary(t + 1)
      BY <1>3 DEF Stripe
    <3> QED
      BY <3>2, <3>3
  <2> HIDE DEF f
  <2>3. ASSUME NEW x \in 1..n
        PROVE  /\ \E i \in 0..(m - 1) : x \in (f[i] + 1)..f[i + 1]
               /\ \A i, j \in 0..(m - 1) : x \in (f[i] + 1)..f[i + 1] /\ x \in (f[j] + 1)..f[j + 1] => i = j
    <3> HIDE DEF n, m
    <3>1. n \in Nat /\ m \in Nat
      BY <1>1
    <3> QED
      BY <2>1, <3>1, StretchesCover
  <2>4. \A t \in Team : (f[t] + 1)..f[t + 1] \subseteq 1..n
    <3> HIDE DEF n, m
    <3>1. \A t \in Team : t \in 0..m /\ t + 1 \in 0..m
      BY <1>1
    <3>2. \A t \in Team : f[t] \in 0..n /\ f[t + 1] \in 0..n
      BY <2>1, <3>1
    <3> QED
      BY <1>1, <3>2
  <2>5. \A t \in Team, b \in BatchIds : Stripe(t, b) \subseteq EdgeIds
    <3> HIDE DEF n, m
    <3> QED
      BY <1>1, <2>2, <2>4
  <2>6. ASSUME NEW e \in EdgeIds
        PROVE  /\ \E t \in Team, b \in BatchIds : Owned(t, b, e)
               /\ \A t, s \in Team, b, c \in BatchIds : Owned(t, b, e) /\ Owned(s, c, e) => t = s /\ b = c
    <3> HIDE DEF n, m
    <3>1. \A t \in Team, b \in BatchIds : Owned(t, b, e) <=> e \in (f[t] + 1)..f[t + 1]
      BY <2>2 DEF Owned
    <3> QED
      BY <1>1, <1>2, <1>3, <2>3, <3>1
  <2> QED
    BY <2>5, <2>6
<1>4. CASE Route \in {"sampled", "shared"}
  <2> DEFINE rows == Len(call.start)
  <2>1. rows \in Nat /\ \A e \in EdgeIds : edges[e].head \in 1..rows
    BY CallIs, EdgesRight DEF EdgeType, LayoutPoints
  <2>2. \A t \in Team, b \in BatchIds, e \in EdgeIds : Owned(t, b, e) <=> edges[e].head \in Part(rows, t, m)
    BY <1>4 DEF Owned, Stripe, RowsOf
  <2>3. \A t \in Team, b \in BatchIds : Stripe(t, b) \subseteq EdgeIds
    BY <1>4 DEF Stripe
  <2> HIDE DEF rows, m
  <2>4. /\ \A x \in 1..rows : \E i \in Team : x \in Part(rows, i, m)
        /\ \A x \in 1..rows : \A i, j \in Team : x \in Part(rows, i, m) /\ x \in Part(rows, j, m) => i = j
    BY <1>1, <2>1, PartsCover
  <2> QED
    BY <1>2, <1>4, <2>1, <2>2, <2>3, <2>4
<1>5. CASE Route = "merged"
  <2> DEFINE batches == call.batches
  <2>1. batches \in Nat \ {0} /\ BatchIds = 0..(batches - 1)
    BY <1>5, CallIs DEF BatchIds, Batches
  <2>2. /\ \A x \in 1..n : \E i \in BatchIds : x \in Part(n, i, batches)
        /\ \A x \in 1..n : \A i, j \in BatchIds : x \in Part(n, i, batches) /\ x \in Part(n, j, batches) => i = j
    <3> HIDE DEF n, batches
    <3> QED
      BY <1>1, <2>1, PartsCover
  <2>3. ASSUME NEW b \in BatchIds
        PROVE  /\ Part(n, b, batches) \subseteq EdgeIds
               /\ \A t \in Team : Stripe(t, b) \subseteq Part(n, b, batches)
               /\ \A e \in Part(n, b, batches) : \E t \in Team : Owned(t, b, e)
               /\ \A e : \A t, s \in Team : Owned(t, b, e) /\ Owned(s, b, e) => t = s
    BY <1>5, MergedOwners
  <2> HIDE DEF n, m, batches
  <2>4. ASSUME NEW t \in Team, NEW b \in BatchIds PROVE Stripe(t, b) \subseteq EdgeIds
    BY <2>3
  <2>5. ASSUME NEW e \in EdgeIds PROVE \E t \in Team, b \in BatchIds : Owned(t, b, e)
    <3>1. PICK b \in BatchIds : e \in Part(n, b, batches)
      BY <1>1, <2>2
    <3> QED
      BY <2>3, <3>1
  <2>6. ASSUME NEW e \in EdgeIds, NEW t \in Team, NEW s \in Team, NEW b \in BatchIds, NEW c \in BatchIds,
               Owned(t, b, e), Owned(s, c, e)
        PROVE  t = s /\ b = c
    <3>1. e \in Part(n, b, batches) /\ e \in Part(n, c, batches)
      BY <2>3, <2>6 DEF Owned
    <3>2. b = c
      BY <1>1, <2>2, <3>1
    <3> QED
      BY <2>3, <2>6, <3>2
  <2> QED
    BY <2>4, <2>5, <2>6
<1>6. CASE Route \notin {"atomic", "sampled", "shared", "merged"}
  <2>1. \A t \in Team, b \in BatchIds : Stripe(t, b) = Part(n, t, m)
    BY <1>6 DEF Stripe
  <2> HIDE DEF n, m
  <2>2. /\ \A i \in Team : Part(n, i, m) \subseteq 1..n
        /\ \A x \in 1..n : \E i \in Team : x \in Part(n, i, m)
        /\ \A x \in 1..n : \A i, j \in Team : x \in Part(n, i, m) /\ x \in Part(n, j, m) => i = j
    BY <1>1, PartsCover
  <2> QED
    BY <1>1, <1>2, <1>6, <2>1, <2>2 DEF Owned
<1> QED
  BY <1>3, <1>4, <1>5, <1>6

(* What a thread is.                                                       *)
Steps == {"clear", "work", "force", "load", "store", "arrive", "asleep", "woken", "merge",
           "done", "failed", "stopped", "gone", "returned"}
AddType == [point : LayoutPoints, by : Int]
ThreadType == [at : Steps, epoch : 0..(call.epochs - 1), batch : BatchIds, left : SUBSET EdgeIds,
               edge : 0..Len(edges), forces : Seq(0..Len(call.start)), adds : Seq(AddType),
               old : Int, gate : {1, 2}, seen : Nat]

(* Thread t, at r, has as much left of its stripe as it should.            *)
Right(r, t) ==
    /\ r \in ThreadType
    /\ r.left \subseteq Stripe(t, r.batch)
    /\ r.at \in {"arrive", "asleep", "woken", "merge", "done", "gone", "returned"} => r.left = {}
    /\ r.at \in {"gone", "returned"} => r.epoch = call.epochs - 1 /\ r.batch = Batches - 1
    /\ r.at \in {"force", "load", "store"} => r.edge \in EdgeIds
    /\ r.at = "force" => r.forces # <<>>
    /\ r.at = "merge" => Route = "merged"
    /\ IF r.at \in {"load", "store"} THEN Len(r.adds) \in {1, 2} ELSE r.adds = <<>>

(* In how many epochs edge e of batch b has been passed.                   *)
Rounds(r, b, e) == r.epoch + (IF r.batch > b \/ (r.batch = b /\ e \notin r.left) THEN 1 ELSE 0)
SameRounds(r, q, t) == \A b \in BatchIds : \A e \in Stripe(t, b) : Rounds(q, b, e) = Rounds(r, b, e)

(* What is defined by the call and its edges alone stays as it is.         *)
LEMMA CallStays ==
    ASSUME call' = call, edges' = edges
    PROVE  /\ Route' = Route /\ Team' = Team /\ EdgeIds' = EdgeIds /\ LayoutPoints' = LayoutPoints
           /\ Batches' = Batches /\ BatchIds' = BatchIds /\ FirstStep' = FirstStep
           /\ AddType' = AddType /\ ThreadType' = ThreadType
           /\ \A t, b : Stripe(t, b)' = Stripe(t, b)
           /\ \A r, t : Right(r, t)' <=> Right(r, t)
<1>1. /\ Route' = Route /\ Team' = Team /\ EdgeIds' = EdgeIds /\ LayoutPoints' = LayoutPoints
      /\ Batches' = Batches /\ BatchIds' = BatchIds /\ FirstStep' = FirstStep
  BY DEF Route, Team, EdgeIds, LayoutPoints, Batches, BatchIds, FirstStep
<1>2. AddType' = AddType
  BY <1>1 DEF AddType
<1>3. ThreadType' = ThreadType
  BY <1>1, <1>2 DEF ThreadType
<1>4. \A t, b : Stripe(t, b)' = Stripe(t, b)
  <2>1. \A t : RowsOf(t)' = RowsOf(t)
    BY DEF RowsOf
  <2>2. \A t : Boundary(t)' = Boundary(t)
    BY DEF Boundary
  <2> QED
    BY <1>1, <2>1, <2>2 DEF Stripe
<1>5. \A r, t : Right(r, t)' <=> Right(r, t)
  BY <1>1, <1>3, <1>4 DEF Right
<1> QED
  BY <1>1, <1>2, <1>3, <1>4, <1>5

LayoutType ==
    /\ call \in LayoutCases /\ edges = LoopEdges(call)
    /\ coords \in [LayoutPoints -> Int] /\ given \in [LayoutPoints -> Int]
    /\ delta \in [Team -> [LayoutPoints -> Int]]
    /\ due \in [EdgeIds -> Int] /\ owed \in [EdgeIds -> Int]
    /\ drawn \in [EdgeIds -> [pulls : Int, pushes : Int]]
    /\ opened \in Nat
    /\ thread \in [Team -> ThreadType]

ThreadsRight == \A t \in Team : Right(thread[t], t)
Home == (\E t \in Team : thread[t].at = "returned") => \A t \in Team : thread[t].at = "returned"

(* What most steps leave of the threads.                                   *)
Kept(q, r, t) == /\ Right(q, t) /\ SameRounds(r, q, t) /\ q.adds = r.adds
                 /\ q.at # "returned" /\ r.at # "returned"
AllKept ==
    /\ UNCHANGED <<call, edges, due, owed, given, drawn>>
    /\ opened' \in Nat
    /\ thread' \in [Team -> ThreadType]
    /\ \A t \in Team : Right(thread'[t], t) /\ SameRounds(thread[t], thread'[t], t)
                       /\ thread'[t].adds = thread[t].adds
    /\ Home'

(* What the types say of the constants of a call.                          *)
LEMMA TypeGives ==
    ASSUME LayoutType
    PROVE  /\ call.epochs \in Nat \ {0} /\ call.threads \in Nat \ {0} /\ Len(edges) \in Nat /\ EdgeIds = 1..Len(edges)
           /\ Len(call.start) \in Nat /\ LayoutPoints = 1..Len(call.start)
           /\ Batches \in Nat \ {0} /\ BatchIds = 0..(Batches - 1) /\ 0 \in BatchIds /\ IsFiniteSet(Team) /\ 0 \in Team
           /\ Route \in LayoutRoutes
           /\ \A t \in Team, b \in BatchIds : Stripe(t, b) \subseteq EdgeIds
           /\ \A t \in Team : thread[t] \in ThreadType
BY CallIs, EdgesRight, BatchesIs, StripesShare DEF LayoutType, BatchIds, LayoutPoints

(* A step that only moves one thread on keeps all the others.              *)
LEMMA OneKept ==
    ASSUME LayoutType, ThreadsRight, Home, NEW t \in Team, NEW q, Kept(q, thread[t], t),
           thread' = [thread EXCEPT ![t] = q], opened' \in Nat,
           UNCHANGED <<call, edges, due, owed, given, drawn>>
    PROVE  AllKept
<1>1. thread \in [Team -> ThreadType] /\ q \in ThreadType
  BY DEF LayoutType, Kept, Right
<1>2. thread'[t] = q /\ \A s \in Team : s # t => thread'[s] = thread[s]
  BY <1>1
<1>3. thread' \in [Team -> ThreadType]
  BY <1>1
<1>4. \A s \in Team : SameRounds(thread[s], thread[s], s)
  BY DEF SameRounds
<1>5. ASSUME NEW s \in Team
      PROVE  Right(thread'[s], s) /\ SameRounds(thread[s], thread'[s], s) /\ thread'[s].adds = thread[s].adds
  BY <1>2, <1>4 DEF Kept, ThreadsRight
<1>6. Home'
  <2>1. Team' = Team
    BY CallStays
  <2>2. \A s \in Team : thread[s].at # "returned"
    BY DEF Home, Kept
  <2> QED
    BY <1>2, <2>1, <2>2 DEF Home, Kept
<1> QED
  BY <1>3, <1>5, <1>6 DEF AllKept

(* A thread that goes on to its next stripe has passed every edge of the   *)
(* last one.                                                               *)
LEMMA OnwardKept ==
    ASSUME LayoutType, ThreadsRight, NEW t \in Team, thread[t].left = {}, thread[t].adds = <<>>, thread[t].at # "returned"
    PROVE  Kept(Onward(t), thread[t], t) /\ Onward(t).seen = thread[t].seen
<1> DEFINE r == thread[t]
           q == Onward(t)
<1>1. r \in ThreadType /\ Right(r, t) /\ r.left = {} /\ r.adds = <<>> /\ r.at # "returned"
  BY TypeGives DEF ThreadsRight
<1>2. /\ call.epochs \in Nat \ {0} /\ Batches \in Nat \ {0} /\ BatchIds = 0..(Batches - 1)
      /\ \A b \in BatchIds : Stripe(t, b) \subseteq EdgeIds
      /\ FirstStep \in {"clear", "work"}
  BY TypeGives DEF FirstStep
<1>3. q = IF r.batch + 1 < Batches
          THEN [r EXCEPT !.at = FirstStep, !.batch = @ + 1, !.left = Stripe(t, r.batch + 1)]
          ELSE IF r.epoch + 1 < call.epochs
          THEN [r EXCEPT !.at = FirstStep, !.epoch = @ + 1, !.batch = 0, !.left = Stripe(t, 0)]
          ELSE [r EXCEPT !.at = "gone"]
  BY DEF Onward
<1> HIDE DEF r, q
<1>4. r.batch \in 0..(Batches - 1) /\ r.epoch \in 0..(call.epochs - 1)
  BY <1>1, <1>2 DEF ThreadType
<1>5. CASE r.batch + 1 < Batches
  <2> DEFINE b == r.batch + 1
  <2>1. b \in BatchIds /\ q = [r EXCEPT !.at = FirstStep, !.batch = b, !.left = Stripe(t, b)]
    BY <1>2, <1>3, <1>4, <1>5
  <2>2. r.batch \in Int /\ b = r.batch + 1
    BY <1>4
  <2> HIDE DEF b
  <2>3. q \in ThreadType /\ q.left = Stripe(t, b) /\ q.batch = b /\ q.epoch = r.epoch /\ q.at = FirstStep
        /\ q.adds = r.adds /\ q.seen = r.seen
    BY <1>1, <1>2, <2>1 DEF ThreadType, Steps
  <2>4. Right(q, t)
    BY <1>1, <1>2, <2>3 DEF Right
  <2>5. ASSUME NEW c \in BatchIds, NEW e \in Stripe(t, c) PROVE Rounds(q, c, e) = Rounds(r, c, e)
    <3>1. c \in Int
      BY <1>2
    <3>2. CASE c < b
      BY <1>1, <2>2, <2>3, <3>1, <3>2 DEF Rounds
    <3>3. CASE c = b
      BY <1>1, <2>2, <2>3, <3>1, <3>3 DEF Rounds
    <3>4. CASE c > b
      BY <1>1, <2>2, <2>3, <3>1, <3>4 DEF Rounds
    <3> QED
      BY <2>2, <3>1, <3>2, <3>3, <3>4
  <2> QED
    BY <1>1, <1>2, <2>3, <2>4, <2>5 DEF Kept, SameRounds, q, r
<1>6. CASE ~(r.batch + 1 < Batches) /\ r.epoch + 1 < call.epochs
  <2> DEFINE n == r.epoch + 1
  <2>1. n \in 0..(call.epochs - 1) /\ q = [r EXCEPT !.at = FirstStep, !.epoch = n, !.batch = 0, !.left = Stripe(t, 0)]
    BY <1>2, <1>3, <1>4, <1>6
  <2>2. r.epoch \in Int /\ n = r.epoch + 1 /\ r.batch = Batches - 1 /\ 0 \in BatchIds
    BY <1>2, <1>4, <1>6
  <2> HIDE DEF n
  <2>3. q \in ThreadType /\ q.left = Stripe(t, 0) /\ q.batch = 0 /\ q.epoch = n /\ q.at = FirstStep
        /\ q.adds = r.adds /\ q.seen = r.seen
    BY <1>1, <1>2, <2>1, <2>2 DEF ThreadType, Steps
  <2>4. Right(q, t)
    BY <1>1, <1>2, <2>3 DEF Right
  <2>5. ASSUME NEW c \in BatchIds, NEW e \in Stripe(t, c) PROVE Rounds(q, c, e) = Rounds(r, c, e)
    <3>1. c \in 0..(Batches - 1)
      BY <1>2
    <3>2. CASE c = 0
      BY <1>1, <1>2, <2>2, <2>3, <3>1, <3>2 DEF Rounds
    <3>3. CASE c > 0
      BY <1>1, <1>2, <2>2, <2>3, <3>1, <3>3 DEF Rounds
    <3> QED
      BY <3>1, <3>2, <3>3
  <2> QED
    BY <1>1, <1>2, <2>3, <2>4, <2>5 DEF Kept, SameRounds, q, r
<1>7. CASE ~(r.batch + 1 < Batches) /\ ~(r.epoch + 1 < call.epochs)
  <2>1. q = [r EXCEPT !.at = "gone"]
    BY <1>3, <1>7
  <2>2. r.batch = Batches - 1 /\ r.epoch = call.epochs - 1
    BY <1>2, <1>4, <1>7
  <2>3. q \in ThreadType /\ q.left = r.left /\ q.batch = r.batch /\ q.epoch = r.epoch /\ q.at = "gone"
        /\ q.adds = r.adds /\ q.seen = r.seen
    BY <1>1, <2>1 DEF ThreadType, Steps
  <2>4. Right(q, t)
    BY <1>1, <2>2, <2>3 DEF Right
  <2>5. \A c \in BatchIds : \A e \in Stripe(t, c) : Rounds(q, c, e) = Rounds(r, c, e)
    BY <2>3 DEF Rounds
  <2> QED
    BY <1>1, <2>3, <2>4, <2>5 DEF Kept, SameRounds, q, r
<1> QED
  BY <1>5, <1>6, <1>7

Passing == {"arrive", "asleep", "woken", "merge", "done"}     \* nothing is left of the stripe
Adding == {"force", "load", "store"}

(* A thread that changes its place, its barrier or the value it has loaded *)
(* keeps its stripe.                                                       *)
LEMMA MovedKept ==
    ASSUME NEW r, NEW t, Right(r, t), NEW a \in Steps, NEW g \in {1, 2}, NEW n \in Nat, NEW o \in Int,
           r.at # "returned", a \notin {"returned", "gone"}, a \in Passing => r.left = {}, a = "merge" => Route = "merged",
           a \in Adding => (a = "store" /\ r.at \in {"load", "store"}),
           a \notin Adding => r.adds = <<>>,
           NEW q, q = [r EXCEPT !.at = a, !.gate = g, !.seen = n, !.old = o]
    PROVE  Kept(q, r, t)
<1>1. r \in ThreadType
  BY DEF Right
<1>2. /\ q \in ThreadType /\ q.at = a /\ q.left = r.left /\ q.epoch = r.epoch /\ q.batch = r.batch
      /\ q.adds = r.adds /\ q.forces = r.forces /\ q.edge = r.edge
  BY <1>1 DEF ThreadType
<1>3. Right(q, t)
  BY <1>2 DEF Right, Passing, Adding
<1>4. SameRounds(r, q, t)
  BY <1>2 DEF SameRounds, Rounds
<1> QED
  BY <1>2, <1>3, <1>4 DEF Kept

(* A thread with nothing left of its stripe keeps it so while it waits.    *)
LEMMA RestKept ==
    ASSUME NEW r, NEW t, Right(r, t), r.at # "returned", r.left = {}, r.adds = <<>>,
           NEW a \in {"arrive", "asleep", "woken", "done"}, NEW g \in {1, 2}, NEW n \in Nat, NEW o \in Int,
           NEW q, q = [r EXCEPT !.at = a, !.gate = g, !.seen = n, !.old = o]
    PROVE  Kept(q, r, t)
<1>1. /\ a \in Steps /\ a \notin {"returned", "gone"} /\ a # "merge" /\ a \notin Adding
  BY DEF Steps, Adding
<1> QED
  BY <1>1, MovedKept

(* Clearing the sums passes no edge.                                       *)
LEMMA ClearKept == ASSUME LayoutType, ThreadsRight, Home, NEW t \in Team, Clear(t) PROVE AllKept
<1> DEFINE r == thread[t]
           q == [r EXCEPT !.at = "work"]
<1>1. r \in ThreadType /\ Right(r, t) /\ r.at = "clear" /\ thread' = [thread EXCEPT ![t] = q] /\ opened \in Nat
  BY TypeGives DEF ThreadsRight, Clear, LayoutType
<1>2. q = [r EXCEPT !.at = "work", !.gate = r.gate, !.seen = r.seen, !.old = r.old]
      /\ r.gate \in {1, 2} /\ r.seen \in Nat /\ r.old \in Int
  BY <1>1 DEF ThreadType
<1>3. r.adds = <<>>
  BY <1>1 DEF Right
<1> HIDE DEF r, q
<1>4. Kept(q, r, t)
  BY <1>1, <1>2, <1>3, MovedKept DEF Steps, Passing, Adding
<1> QED
  BY <1>1, <1>4, OneKept DEF Clear, r

(* The end of a stripe passes no edge.                                     *)
LEMMA EndStripeKept == ASSUME LayoutType, ThreadsRight, Home, NEW t \in Team, EndStripe(t) PROVE AllKept
<1> DEFINE r == thread[t]
           meet == \/ Route \in Gated \ {"atomic"}
                   \/ Route = "atomic" /\ ((r.epoch + 1) % SyncEvery = 0 \/ r.epoch + 1 = call.epochs)
           q == IF Route \in Joined THEN [r EXCEPT !.at = "done"]
                ELSE IF meet THEN [r EXCEPT !.at = "arrive", !.gate = 1]
                ELSE Onward(t)
<1>1. r \in ThreadType /\ Right(r, t) /\ r.at = "work" /\ r.left = {} /\ opened \in Nat
  BY TypeGives DEF ThreadsRight, EndStripe, LayoutType
<1>2. r.adds = <<>>
  BY <1>1 DEF Right
<1>3. thread' = [thread EXCEPT ![t] = q]
  BY DEF EndStripe
<1>4. r.gate \in {1, 2} /\ r.seen \in Nat /\ r.old \in Int
  BY <1>1 DEF ThreadType
<1>5. Kept(Onward(t), r, t)
  BY <1>1, <1>2, OnwardKept
<1>6. Kept([r EXCEPT !.at = "done"], r, t)
  <2> DEFINE p0 == [r EXCEPT !.at = "done"]
  <2>1. p0 = [r EXCEPT !.at = "done", !.gate = r.gate, !.seen = r.seen, !.old = r.old]
    BY <1>1 DEF ThreadType
  <2> HIDE DEF r, p0
  <2>2. Kept(p0, r, t)
    BY <1>1, <1>2, <1>4, <2>1, RestKept
  <2> QED
    BY <2>2 DEF p0
<1>7. Kept([r EXCEPT !.at = "arrive", !.gate = 1], r, t)
  <2> DEFINE p0 == [r EXCEPT !.at = "arrive", !.gate = 1]
  <2>1. p0 = [r EXCEPT !.at = "arrive", !.gate = 1, !.seen = r.seen, !.old = r.old]
    BY <1>1 DEF ThreadType
  <2> HIDE DEF r, p0
  <2>2. Kept(p0, r, t)
    BY <1>1, <1>2, <1>4, <2>1, RestKept
  <2> QED
    BY <2>2 DEF p0
<1>8. Kept(q, r, t)
  <2> HIDE DEF r, meet
  <2> QED
    BY <1>5, <1>6, <1>7
<1> HIDE DEF r, q
<1> QED
  BY <1>1, <1>3, <1>8, OneKept DEF EndStripe, r

(* Loading a coordinate passes no edge.                                    *)
LEMMA LoadKept == ASSUME LayoutType, ThreadsRight, Home, NEW t \in Team, Load(t) PROVE AllKept
<1> DEFINE r == thread[t]
           o == coords[Head(r.adds).point]
           q == [r EXCEPT !.old = o, !.at = "store"]
<1>1. r \in ThreadType /\ Right(r, t) /\ r.at = "load" /\ thread' = [thread EXCEPT ![t] = q] /\ opened \in Nat
  BY TypeGives DEF ThreadsRight, Load, LayoutType
<1>2. r.gate \in {1, 2} /\ r.seen \in Nat /\ o \in Int
  <2>1. r.adds \in Seq(AddType) /\ Len(r.adds) \in {1, 2}
    BY <1>1 DEF Right, ThreadType
  <2>2. Head(r.adds) \in AddType
    <3> HIDE DEF r
    <3> QED
      BY <2>1
  <2>3. coords[Head(r.adds).point] \in Int
    <3> HIDE DEF r
    <3> QED
      BY <2>2 DEF AddType, LayoutType
  <2> QED
    BY <1>1, <2>3 DEF ThreadType
<1> HIDE DEF r, o
<1>3. q = [r EXCEPT !.at = "store", !.gate = r.gate, !.seen = r.seen, !.old = o]
  BY <1>1 DEF ThreadType
<1> HIDE DEF q
<1>4. Kept(q, r, t)
  BY <1>1, <1>2, <1>3, MovedKept DEF Steps, Passing, Adding
<1> QED
  BY <1>1, <1>4, OneKept DEF Load, r

(* A spurious wake-up passes no edge.                                      *)
LEMMA WakeAnywayKept == ASSUME LayoutType, ThreadsRight, Home, NEW t \in Team, WakeAnyway(t) PROVE AllKept
<1> DEFINE r == thread[t]
           q == [r EXCEPT !.at = "woken"]
<1>1. r \in ThreadType /\ Right(r, t) /\ r.at = "asleep" /\ thread' = [thread EXCEPT ![t] = q] /\ opened \in Nat
  BY TypeGives DEF ThreadsRight, WakeAnyway, LayoutType
<1>2. q = [r EXCEPT !.at = "woken", !.gate = r.gate, !.seen = r.seen, !.old = r.old]
      /\ r.gate \in {1, 2} /\ r.seen \in Nat /\ r.old \in Int
  BY <1>1 DEF ThreadType
<1>3. r.adds = <<>> /\ r.left = {}
  BY <1>1 DEF Right
<1> HIDE DEF r, q
<1>4. Kept(q, r, t)
  BY <1>1, <1>2, <1>3, MovedKept DEF Steps, Passing, Adding
<1> QED
  BY <1>1, <1>4, OneKept DEF WakeAnyway, r

(* A failure passes no edge.                                               *)
LEMMA FailKept == ASSUME LayoutType, ThreadsRight, Home, NEW t \in Team, Fail(t) PROVE AllKept
<1> DEFINE r == thread[t]
           q == [r EXCEPT !.at = "failed"]
<1>1. r \in ThreadType /\ Right(r, t) /\ r.at = "work" /\ thread' = [thread EXCEPT ![t] = q] /\ opened \in Nat
  BY TypeGives DEF ThreadsRight, Fail, LayoutType
<1>2. q = [r EXCEPT !.at = "failed", !.gate = r.gate, !.seen = r.seen, !.old = r.old]
      /\ r.gate \in {1, 2} /\ r.seen \in Nat /\ r.old \in Int
  BY <1>1 DEF ThreadType
<1>3. r.adds = <<>>
  BY <1>1 DEF Right
<1> HIDE DEF r, q
<1>4. Kept(q, r, t)
  BY <1>1, <1>2, <1>3, MovedKept DEF Steps, Passing, Adding
<1> QED
  BY <1>1, <1>4, OneKept DEF Fail, r

(* The barrier.                                                            *)
LEMMA PassedKept ==
    ASSUME LayoutType, ThreadsRight, NEW t \in Team, thread[t].at \in {"arrive", "woken"}
    PROVE  Kept(Passed(t), thread[t], t)
<1> DEFINE r == thread[t]
<1>1. r \in ThreadType /\ Right(r, t) /\ r.at \in {"arrive", "woken"}
  BY TypeGives DEF ThreadsRight
<1>2. r.adds = <<>> /\ r.left = {} /\ r.at # "returned"
  BY <1>1 DEF Right
<1>3. r.gate \in {1, 2} /\ r.seen \in Nat /\ r.old \in Int
  BY <1>1 DEF ThreadType
<1>4. Kept(Onward(t), r, t)
  BY <1>2, OnwardKept
<1>5. ASSUME Route = "merged" PROVE Kept([r EXCEPT !.at = "merge"], r, t)
  <2> DEFINE p0 == [r EXCEPT !.at = "merge"]
  <2>1. p0 = [r EXCEPT !.at = "merge", !.gate = r.gate, !.seen = r.seen, !.old = r.old]
    BY <1>1 DEF ThreadType
  <2> HIDE DEF r, p0
  <2>2. Kept(p0, r, t)
    BY <1>1, <1>2, <1>3, <1>5, <2>1, MovedKept DEF Steps, Passing, Adding
  <2> QED
    BY <2>2 DEF p0
<1>6. Kept([r EXCEPT !.at = "arrive", !.gate = 2], r, t)
  <2> DEFINE p0 == [r EXCEPT !.at = "arrive", !.gate = 2]
  <2>1. p0 = [r EXCEPT !.at = "arrive", !.gate = 2, !.seen = r.seen, !.old = r.old]
    BY <1>1 DEF ThreadType
  <2> HIDE DEF r, p0
  <2>2. Kept(p0, r, t)
    BY <1>1, <1>2, <1>3, <2>1, MovedKept DEF Steps, Passing, Adding
  <2> QED
    BY <2>2 DEF p0
<1> QED
  BY <1>4, <1>5, <1>6 DEF Passed

(* A wake-up passes no edge.                                               *)
LEMMA AwakeKept == ASSUME LayoutType, ThreadsRight, Home, NEW t \in Team, Awake(t) PROVE AllKept
<1> DEFINE r == thread[t]
           p == Passed(t)
           q == IF Opened(t) THEN [p EXCEPT !.seen = 0] ELSE [r EXCEPT !.at = "asleep"]
<1>1. r \in ThreadType /\ Right(r, t) /\ r.at = "woken" /\ thread' = [thread EXCEPT ![t] = q] /\ opened \in Nat
  BY TypeGives DEF ThreadsRight, Awake, LayoutType
<1>2. r.adds = <<>> /\ r.left = {}
  BY <1>1 DEF Right
<1>3. r.gate \in {1, 2} /\ r.seen \in Nat /\ r.old \in Int
  BY <1>1 DEF ThreadType
<1>4. Kept([r EXCEPT !.at = "asleep"], r, t)
  <2> DEFINE p0 == [r EXCEPT !.at = "asleep"]
  <2>1. p0 = [r EXCEPT !.at = "asleep", !.gate = r.gate, !.seen = r.seen, !.old = r.old]
    BY <1>1 DEF ThreadType
  <2> HIDE DEF r, p0
  <2>2. Kept(p0, r, t)
    BY <1>1, <1>2, <1>3, <2>1, MovedKept DEF Steps, Passing, Adding
  <2> QED
    BY <2>2 DEF p0
<1>5. Kept([p EXCEPT !.seen = 0], r, t)
  <2>1. Kept(p, r, t)
    BY <1>1, PassedKept
  <2> HIDE DEF p, r
  <2> DEFINE q0 == [p EXCEPT !.seen = 0]
  <2>2. p \in ThreadType
    BY <2>1 DEF Kept, Right
  <2>3. /\ q0 \in ThreadType /\ q0.at = p.at /\ q0.left = p.left /\ q0.epoch = p.epoch /\ q0.batch = p.batch
        /\ q0.adds = p.adds /\ q0.forces = p.forces /\ q0.edge = p.edge
    BY <2>2 DEF ThreadType
  <2> HIDE DEF q0
  <2>4. Right(q0, t) /\ SameRounds(r, q0, t)
    BY <2>1, <2>3 DEF Kept, Right, SameRounds, Rounds
  <2> QED
    BY <2>1, <2>3, <2>4 DEF Kept, q0
<1> HIDE DEF r, p
<1>6. Kept(q, r, t)
  BY <1>4, <1>5
<1> HIDE DEF q
<1> QED
  BY <1>1, <1>6, OneKept DEF Awake, r

(* A step that moves several threads on keeps all of them.                 *)
LEMMA ManyKept ==
    ASSUME LayoutType, ThreadsRight, Home, NEW t \in Team, thread[t].at # "returned",
           thread' = [s \in Team |-> thread'[s]],
           \A s \in Team : thread'[s] = thread[s] \/ Kept(thread'[s], thread[s], s), opened' \in Nat,
           UNCHANGED <<call, edges, due, owed, given, drawn>>
    PROVE  AllKept
<1>1. \A s \in Team : thread[s] \in ThreadType /\ Right(thread[s], s)
  BY TypeGives DEF ThreadsRight
<1>2. \A s \in Team : SameRounds(thread[s], thread[s], s)
  BY DEF SameRounds
<1>3. ASSUME NEW s \in Team
      PROVE  Right(thread'[s], s) /\ SameRounds(thread[s], thread'[s], s) /\ thread'[s].adds = thread[s].adds
             /\ thread'[s] \in ThreadType
  BY <1>1, <1>2 DEF Kept, Right
<1>4. thread' \in [Team -> ThreadType]
  BY <1>3
<1>5. Home'
  <2>1. Team' = Team
    BY CallStays
  <2>2. \A s \in Team : thread[s].at # "returned"
    BY DEF Home
  <2> QED
    BY <2>1, <2>2 DEF Home, Kept
<1> QED
  BY <1>3, <1>4, <1>5 DEF AllKept

(* Coming to a barrier, and opening it, passes no edge.                    *)
LEMMA ArriveKept == ASSUME LayoutType, ThreadsRight, Home, NEW t \in Team, Arrive(t) PROVE AllKept
<1> DEFINE r == thread[t]
<1>1. r \in ThreadType /\ Right(r, t) /\ r.at = "arrive" /\ opened \in Nat
  BY TypeGives DEF ThreadsRight, Arrive, LayoutType
<1>2. r.adds = <<>> /\ r.left = {} /\ r.gate \in {1, 2} /\ r.seen \in Nat /\ r.old \in Int
  BY <1>1 DEF Right, ThreadType
<1>3. CASE arrivals = 1
  <2>1. /\ opened' = opened + 1
        /\ thread' = [s \in Team |->
              IF s = t THEN Passed(t)
              ELSE IF thread[s].at = "asleep" THEN [thread[s] EXCEPT !.at = "woken"]
              ELSE thread[s]]
    BY <1>3 DEF Arrive
  <2>2. thread' = [s \in Team |-> thread'[s]]
    BY <2>1
  <2>3. ASSUME NEW s \in Team PROVE thread'[s] = thread[s] \/ Kept(thread'[s], thread[s], s)
    <3>1. CASE s = t
      <4>1. thread'[t] = Passed(t)
        BY <2>1
      <4>2. Kept(Passed(t), thread[t], t)
        BY <1>1, PassedKept
      <4> QED
        BY <3>1, <4>1, <4>2
    <3>2. CASE s # t /\ thread[s].at = "asleep"
      <4> DEFINE p == thread[s]
                 q == [p EXCEPT !.at = "woken"]
      <4>1. p \in ThreadType /\ Right(p, s) /\ p.at = "asleep"
        BY <3>2, TypeGives DEF ThreadsRight
      <4>5. thread'[s] = q
        BY <2>1, <3>2
      <4>2. q = [p EXCEPT !.at = "woken", !.gate = p.gate, !.seen = p.seen, !.old = p.old]
            /\ p.gate \in {1, 2} /\ p.seen \in Nat /\ p.old \in Int
        BY <4>1 DEF ThreadType
      <4>3. p.adds = <<>> /\ p.left = {}
        BY <4>1 DEF Right
      <4> HIDE DEF p, q
      <4>4. Kept(q, p, s)
        BY <4>1, <4>2, <4>3, MovedKept DEF Steps, Passing, Adding
      <4> QED
        BY <4>4, <4>5 DEF p
    <3>3. CASE s # t /\ thread[s].at # "asleep"
      BY <2>1, <3>3
    <3> QED
      BY <3>1, <3>2, <3>3
  <2>4. opened' \in Nat /\ thread[t].at # "returned"
    BY <1>1, <2>1
  <2>5. UNCHANGED <<call, edges, due, owed, given, drawn>>
    BY DEF Arrive
  <2> HIDE DEF r
  <2> QED
    BY <2>2, <2>3, <2>4, <2>5, ManyKept
<1>4. CASE arrivals # 1
  <2> DEFINE q == [r EXCEPT !.at = "asleep", !.seen = opened]
  <2>1. thread' = [thread EXCEPT ![t] = q] /\ opened' = opened
    BY <1>4 DEF Arrive
  <2>2. q = [r EXCEPT !.at = "asleep", !.gate = r.gate, !.seen = opened, !.old = r.old]
    BY <1>1 DEF ThreadType
  <2> HIDE DEF r, q
  <2>3. Kept(q, r, t)
    BY <1>1, <1>2, <2>2, MovedKept DEF Steps, Passing, Adding
  <2> QED
    BY <1>1, <2>1, <2>3, OneKept DEF Arrive, r
<1> QED
  BY <1>3, <1>4

(* Adding the sums passes no edge.                                         *)
LEMMA MergeKept == ASSUME LayoutType, ThreadsRight, Home, Merge PROVE AllKept
<1> DEFINE t == 0
           r == thread[t]
           q == [r EXCEPT !.at = "arrive", !.gate = 2]
<1>1. t \in Team /\ r \in ThreadType /\ Right(r, t) /\ r.at = "merge" /\ thread' = [thread EXCEPT ![t] = q] /\ opened \in Nat
  BY TypeGives DEF ThreadsRight, Merge, LayoutType
<1>2. q = [r EXCEPT !.at = "arrive", !.gate = 2, !.seen = r.seen, !.old = r.old]
      /\ r.seen \in Nat /\ r.old \in Int
  BY <1>1 DEF ThreadType
<1>3. r.adds = <<>> /\ r.left = {}
  BY <1>1 DEF Right
<1> HIDE DEF r, q, t
<1>4. Kept(q, r, t)
  BY <1>1, <1>2, <1>3, MovedKept DEF Steps, Passing, Adding
<1> QED
  BY <1>1, <1>4, OneKept DEF Merge, r

(* The threads of an epoch are joined: each goes on, or all stop.          *)
LEMMA JoinEpochKept == ASSUME LayoutType, ThreadsRight, Home, JoinEpoch PROVE AllKept
<1>1. /\ 0 \in Team /\ opened \in Nat
      /\ \A t \in Team : thread[t] \in ThreadType /\ Right(thread[t], t) /\ thread[t].at \in {"done", "failed"}
      /\ UNCHANGED <<call, edges, due, owed, given, drawn, opened>>
  BY TypeGives DEF ThreadsRight, LayoutType, JoinEpoch
<1>2. \A t \in Team : thread[t].at # "returned" /\ thread[t].adds = <<>>
  BY <1>1 DEF Right
<1>3. CASE Failed
  <2>1. thread' = [t \in Team |-> [thread[t] EXCEPT !.at = "stopped"]]
    BY <1>3 DEF JoinEpoch
  <2>2. thread' = [t \in Team |-> thread'[t]]
    BY <2>1
  <2>3. ASSUME NEW t \in Team PROVE Kept(thread'[t], thread[t], t)
    <3> DEFINE r == thread[t]
               q == [r EXCEPT !.at = "stopped"]
    <3>1. r \in ThreadType /\ Right(r, t) /\ r.at # "returned" /\ r.adds = <<>>
      BY <1>1, <1>2
    <3>4. thread'[t] = q
      BY <2>1
    <3>2. q = [r EXCEPT !.at = "stopped", !.gate = r.gate, !.seen = r.seen, !.old = r.old]
          /\ r.gate \in {1, 2} /\ r.seen \in Nat /\ r.old \in Int
      BY <3>1 DEF ThreadType
    <3> HIDE DEF r, q
    <3>3. Kept(q, r, t)
      <4>1. "stopped" \in Steps /\ "stopped" \notin Passing /\ "stopped" \notin Adding
        BY DEF Steps, Passing, Adding
      <4> QED
        BY <3>1, <3>2, <4>1, MovedKept
    <3> QED
      BY <3>3, <3>4 DEF r
  <2> QED
    BY <1>1, <1>2, <2>2, <2>3, ManyKept
<1>4. CASE ~Failed
  <2>1. thread' = [t \in Team |-> Onward(t)]
    BY <1>4 DEF JoinEpoch
  <2>2. thread' = [t \in Team |-> thread'[t]]
    BY <2>1
  <2>3. ASSUME NEW t \in Team PROVE Kept(thread'[t], thread[t], t)
    <3>1. thread[t].at = "done" /\ thread[t].left = {}
      BY <1>1, <1>4 DEF Failed, Right
    <3>2. Kept(Onward(t), thread[t], t)
      BY <1>2, <3>1, OnwardKept
    <3> QED
      BY <2>1, <3>2
  <2> QED
    BY <1>1, <1>2, <2>2, <2>3, ManyKept
<1> QED
  BY <1>3, <1>4

(* Joining the team passes no edge.                                        *)
LEMMA JoinTeamKept == ASSUME LayoutType, ThreadsRight, Home, JoinTeam PROVE AllKept
<1>1. /\ opened \in Nat
      /\ \A t \in Team : thread[t] \in ThreadType /\ Right(thread[t], t) /\ thread[t].at = "gone"
      /\ UNCHANGED <<call, edges, due, owed, given, drawn, opened>>
      /\ thread' = [t \in Team |-> [thread[t] EXCEPT !.at = "returned"]]
  BY TypeGives DEF ThreadsRight, LayoutType, JoinTeam
<1>2. ASSUME NEW t \in Team
      PROVE  /\ thread'[t] \in ThreadType /\ Right(thread'[t], t) /\ SameRounds(thread[t], thread'[t], t)
             /\ thread'[t].adds = thread[t].adds /\ thread'[t].at = "returned"
  <2> DEFINE r == thread[t]
             q == [r EXCEPT !.at = "returned"]
  <2>1. thread'[t] = q /\ r \in ThreadType /\ Right(r, t) /\ r.at = "gone"
    BY <1>1
  <2> HIDE DEF r
  <2>2. /\ q \in ThreadType /\ q.at = "returned" /\ q.left = r.left /\ q.epoch = r.epoch /\ q.batch = r.batch
        /\ q.adds = r.adds /\ q.forces = r.forces /\ q.edge = r.edge
    BY <2>1 DEF ThreadType, Steps
  <2> HIDE DEF q
  <2>3. Right(q, t)
    BY <2>1, <2>2 DEF Right
  <2>4. SameRounds(r, q, t)
    BY <2>2 DEF SameRounds, Rounds
  <2> QED
    BY <2>1, <2>2, <2>3, <2>4 DEF r
<1>3. thread' \in [Team -> ThreadType]
  BY <1>1, <1>2
<1>4. Home'
  BY <1>1, <1>2, CallStays DEF Home
<1> QED
  BY <1>1, <1>2, <1>3, <1>4 DEF AllKept

(* How often an edge has been pulled before epoch n, and pushed by then.   *)
PulledBy(n, e) == IF n = 0 THEN 0 ELSE Whole(n - 1, e)
PushedBy(k, e) == IF k = 0 \/ call.rate = 0 THEN 0 ELSE Pushes(EpochOf(k, e), e)
Scheduled(e, n) ==
    /\ drawn[e].pulls = PulledBy(n, e) /\ drawn[e].pushes = PushedBy(PulledBy(n, e), e)
    /\ Route \in Stateful =>
          /\ due[e] = (PulledBy(n, e) + 1) * edges[e].period
          /\ call.rate > 0 => owed[e] = NegativePeriod(e) + PushedBy(PulledBy(n, e), e) * NegativePeriod(e)

(* A dividend that grows by no more than the divisor moves the quotient by *)
(* one at most.                                                            *)
LEMMA NextQuotient ==
    ASSUME NEW x \in Nat, NEW u \in Nat, NEW p \in Nat \ {0}, u <= p
    PROVE  /\ x \div p \in Nat /\ (x + u) \div p \in {x \div p, x \div p + 1}
           /\ (x \div p + 1) * p <= x + u <=> (x + u) \div p = x \div p + 1
<1> DEFINE k == x \div p
<1>1. k \in Nat /\ k * p \in Nat /\ k * p <= x /\ x < k * p + p
  BY Division
<1> HIDE DEF k
<1>2. (k + 1) * p = k * p + p /\ (k + 1) * p \in Nat /\ k + 1 \in Nat /\ x + u \in Nat
  BY <1>1
<1>3. CASE k * p + p <= x + u
  <2>1. (k + 1) * p <= x + u /\ x + u < (k + 1) * p + p
    BY <1>1, <1>2, <1>3
  <2>2. (x + u) \div p = k + 1
    BY <1>2, <2>1, Quotient
  <2> QED
    BY <1>1, <2>1, <2>2 DEF k
<1>4. CASE x + u < k * p + p
  <2>1. k * p <= x + u
    BY <1>1
  <2>2. (x + u) \div p = k
    BY <1>1, <1>2, <1>4, <2>1, Quotient
  <2> QED
    BY <1>1, <1>2, <1>4, <2>2 DEF k
<1> QED
  BY <1>1, <1>2, <1>3, <1>4

(* Taking p divisors off the dividend takes p off the quotient.            *)
LEMMA RestQuotient ==
    ASSUME NEW n \in Nat, NEW d \in Nat \ {0}, NEW p \in Nat, p <= n \div d
    PROVE  p * d \in Nat /\ p * d <= n /\ (n - p * d) \div d = n \div d - p
<1> DEFINE q == n \div d
<1>1. q \in Nat /\ q * d \in Nat /\ q * d <= n /\ n < q * d + d
  BY Division
<1> HIDE DEF q
<1>2. p <= q
  BY DEF q
<1>3. PICK r \in Nat : q = p + r
  BY <1>1, <1>2, q = p + (q - p), q - p \in Nat
<1>4. q * d = p * d + r * d /\ p * d \in Nat /\ r * d \in Nat
  BY <1>3
<1> DEFINE s == p * d  z == r * d
<1>5. s \in Nat /\ z \in Nat /\ q * d = s + z
  BY <1>4
<1> HIDE DEF s, z
<1>6. n - s \in Nat /\ z <= n - s /\ n - s < z + d
  BY <1>1, <1>5
<1>7. (n - s) \div d = r
  BY <1>6, Quotient DEF z
<1> QED
  BY <1>1, <1>3, <1>5, <1>6, <1>7 DEF s, q

(* What the types say of an edge: a period of one epoch at least, that the *)
(* rate divides.                                                           *)
LEMMA EdgeGives ==
    ASSUME LayoutType, NEW e \in EdgeIds
    PROVE  /\ edges[e].period \in Nat \ {0} /\ Unit \in Nat \ {0} /\ Unit <= edges[e].period
           /\ edges[e].head \in LayoutPoints /\ edges[e].tail \in LayoutPoints /\ edges[e].head # edges[e].tail
           /\ call.rate \in Nat
           /\ call.rate > 0 => NegativePeriod(e) \in Nat \ {0} /\ NegativePeriod(e) <= edges[e].period
<1> DEFINE p == edges[e].period  r == call.rate
<1>1. /\ edges[e] \in EdgeType /\ p >= Unit /\ (r > 0 => p % r = 0) /\ Unit \in Nat \ {0} /\ r \in Nat
      /\ edges[e].head # edges[e].tail
  BY CallIs, EdgesRight DEF LayoutType
<1>2. p \in Nat \ {0} /\ edges[e].head \in LayoutPoints /\ edges[e].tail \in LayoutPoints
  BY <1>1 DEF EdgeType
<1>3. NegativePeriod(e) = p \div r
  BY DEF NegativePeriod
<1> HIDE DEF p, r
<1>4. ASSUME r > 0 PROVE p \div r \in Nat \ {0} /\ p \div r <= p
  <2> DEFINE q == p \div r
  <2>1. r \in Nat \ {0} /\ p % r = 0
    BY <1>1, <1>4
  <2>2. p = q * r + (p % r) /\ q \in Nat
    BY <1>2, <2>1
  <2> HIDE DEF q
  <2>3. p = q * r
    BY <1>2, <2>1, <2>2
  <2>4. q # 0
    BY <1>2, <2>1, <2>3
  <2>5. q <= p
    <3>1. 1 * q <= r * q
      BY <2>1, <2>2, TimesGrow
    <3> QED
      BY <2>1, <2>2, <2>3, <3>1
  <2> QED
    BY <2>2, <2>4, <2>5 DEF q
<1> QED
  BY <1>1, <1>2, <1>3, <1>4 DEF p, r

(* Both ends of an edge are points.                                        *)
LEMMA EdgeEnds ==
    ASSUME LayoutType, NEW e \in EdgeIds
    PROVE  edges[e].head \in LayoutPoints /\ edges[e].tail \in LayoutPoints
<1>1. edges[e] \in EdgeType
  BY EdgesRight DEF LayoutType
<1> QED
  BY <1>1 DEF EdgeType

(* From one epoch to the next an edge is due once at most, and then the    *)
(* epoch is the one its number of samples stands for.                      *)
LEMMA PullsRight ==
    ASSUME LayoutType, NEW e \in EdgeIds, NEW n \in Nat
    PROVE  /\ PulledBy(n, e) \in Nat /\ PulledBy(n + 1, e) = Whole(n, e)
           /\ PulledBy(n + 1, e) \in {PulledBy(n, e), PulledBy(n, e) + 1}
           /\ PullsDue(n, e) = PulledBy(n + 1, e) - PulledBy(n, e)
           /\ (PulledBy(n, e) + 1) * edges[e].period <= n * Unit <=> PulledBy(n + 1, e) = PulledBy(n, e) + 1
           /\ PulledBy(n + 1, e) = PulledBy(n, e) + 1 => EpochOf(PulledBy(n + 1, e), e) = n
<1> DEFINE p == edges[e].period
           u == Unit
           k == PulledBy(n, e)
           j == PulledBy(n + 1, e)
<1>1. p \in Nat \ {0} /\ u \in Nat \ {0} /\ u <= p
  BY EdgeGives
<1>2. j = (n * u) \div p
  BY DEF PulledBy, Whole
<1>3. CASE n = 0
  <2>1. k = 0
    BY <1>3 DEF PulledBy
  <2>2. j = 0
    <3> HIDE DEF p, u, j
    <3>1. n * u = 0
      BY <1>1, <1>3
    <3>2. 0 \div p = 0
      BY <1>1, Quotient
    <3> QED
      BY <1>2, <3>1, <3>2
  <2>3. ~((k + 1) * p <= n * u)
    <3> HIDE DEF p, u, k
    <3> QED
      BY <1>1, <1>3, <2>1
  <2>4. PullsDue(n, e) = 0
    BY <1>3 DEF PullsDue
  <2>5. j = Whole(n, e)
    BY DEF PulledBy
  <2> QED
    BY <2>1, <2>2, <2>3, <2>4, <2>5
<1>4. CASE n # 0
  <2> DEFINE x == (n - 1) * u
  <2>1. k = x \div p
    BY <1>4 DEF PulledBy, Whole
  <2>2. x \in Nat /\ n * u = x + u /\ n * u \in Nat
    <3> HIDE DEF u
    <3>1. n - 1 \in Nat
      BY <1>4
    <3> QED
      BY <1>1, <3>1
  <2>3. j = Whole(n, e) /\ PullsDue(n, e) = j - k
    BY <1>4 DEF PulledBy, PullsDue
  <2> HIDE DEF x, u, p, k, j
  <2>4. /\ x \div p \in Nat /\ (x + u) \div p \in {x \div p, x \div p + 1}
        /\ (x \div p + 1) * p <= x + u <=> (x + u) \div p = x \div p + 1
    BY <1>1, <2>2, NextQuotient
  <2>5. k \in Nat /\ j \in {k, k + 1} /\ ((k + 1) * p <= n * u <=> j = k + 1)
    BY <1>2, <2>1, <2>2, <2>4
  <2>6. ASSUME j = k + 1 PROVE (j * p + u - 1) \div u = n
    <3>1. x < k * p + p /\ k * p \in Nat
      BY <1>1, <2>1, <2>2, Division
    <3>2. j * p = k * p + p
      BY <1>1, <2>5, <2>6
    <3>3. j * p <= n * u /\ j * p \in Nat
      BY <2>5, <2>6, <1>1
    <3> DEFINE y == j * p + u - 1  z == n * u
    <3>4. y \in Nat /\ z <= y /\ y < z + u
      BY <1>1, <2>2, <3>1, <3>2, <3>3
    <3> HIDE DEF y
    <3>5. y \div u = n
      BY <1>1, <3>4, Quotient
    <3> QED
      BY <3>5 DEF y
  <2>7. EpochOf(j, e) = (j * p + u - 1) \div u
    BY DEF EpochOf, p, u
  <2> QED
    BY <2>3, <2>5, <2>6, <2>7 DEF p, u, k, j
<1> QED
  BY <1>3, <1>4

(* The pushes due by an earlier sample are no more than those due now.     *)
LEMMA PushedRight ==
    ASSUME LayoutType, NEW e \in EdgeIds, NEW n \in Nat, NEW k \in Nat, k <= Whole(n, e)
    PROVE  /\ PushedBy(k, e) \in Nat
           /\ call.rate > 0 /\ k > 0 =>
                 /\ PushedBy(k, e) <= Pushes(n, e) /\ Pushes(n, e) \in Nat
                 /\ NegativePeriod(e) <= n * Unit
<1> DEFINE p == edges[e].period
           u == Unit
           d == NegativePeriod(e)
           m == EpochOf(k, e)
<1>1. p \in Nat \ {0} /\ u \in Nat \ {0} /\ u <= p /\ call.rate \in Nat
      /\ (call.rate > 0 => d \in Nat \ {0} /\ d <= p)
  BY EdgeGives
<1>2. CASE call.rate = 0 \/ k = 0
  BY <1>1, <1>2 DEF PushedBy
<1>3. CASE call.rate > 0 /\ k # 0
  <2>1. PushedBy(k, e) = (m * u - d) \div d /\ Pushes(n, e) = (n * u - d) \div d
    BY <1>3 DEF PushedBy, Pushes
  <2>2. m = (k * p + u - 1) \div u
    BY DEF EpochOf
  <2>3. k <= (n * u) \div p
    BY DEF Whole
  <2> HIDE DEF p, u, d, m
  <2> DEFINE kp == k * p  nu == n * u
  <2>4. kp \in Nat /\ p <= kp /\ nu \in Nat
    <3>1. 1 * p <= k * p /\ k * p \in Nat
      BY <1>1, <1>3, TimesGrow
    <3> QED
      BY <1>1, <3>1
  <2>5. kp <= nu
    <3> DEFINE q == nu \div p
    <3>1. q \in Nat /\ q * p \in Nat /\ q * p <= nu /\ k <= q
      <4> HIDE DEF nu
      <4>1. (nu \div p) \in Nat /\ (nu \div p) * p \in Nat /\ (nu \div p) * p <= nu
        BY <1>1, <2>4, Division
      <4> QED
        BY <2>3, <4>1 DEF nu
    <3> HIDE DEF q, nu
    <3>2. k * p <= q * p
      BY <1>1, <3>1, TimesGrow
    <3> QED
      BY <2>4, <3>1, <3>2
  <2> DEFINE y == kp + u - 1  mu == m * u
  <2>6. y \in Nat /\ m = y \div u
    BY <1>1, <2>2, <2>4
  <2>7. m \in Nat /\ mu \in Nat /\ mu <= y /\ y < mu + u
    <3> HIDE DEF y
    <3> QED
      BY <1>1, <2>6, Division
  <2>8. kp <= mu
    <3> HIDE DEF kp, mu
    <3> QED
      BY <1>1, <2>4, <2>7
  <2>9. m <= n
    <3>1. CASE n < m
      <4>1. n * u + u <= m * u
        BY <1>1, <2>7, <3>1, TimesLess
      <4> HIDE DEF kp
      <4>2. nu + u <= mu
        BY <4>1
      <4> HIDE DEF nu, mu
      <4>3. FALSE
        BY <1>1, <2>4, <2>5, <2>7, <4>2
      <4> QED
        BY <4>3
    <3> QED
      BY <2>7, <3>1
  <2>10. mu <= nu
    BY <1>1, <2>7, <2>9, TimesGrow
  <2> HIDE DEF kp, y, mu, nu
  <2>11. mu - d \in Nat /\ nu - d \in Nat /\ mu - d <= nu - d /\ d \in Nat \ {0} /\ d <= nu
    BY <1>1, <1>3, <2>4, <2>7, <2>8, <2>10
  <2> DEFINE a == mu - d  b == nu - d
  <2>12. (a \div d) \in Nat /\ (b \div d) \in Nat /\ a \div d <= b \div d
    <3>1. a \in Nat /\ b \in Nat /\ a <= b /\ d \in Nat \ {0}
      BY <2>11
    <3> HIDE DEF a, b
    <3> QED
      BY <3>1, Division, QuotientGrows
  <2>13. PushedBy(k, e) = a \div d /\ Pushes(n, e) = b \div d
    BY <2>1 DEF mu, nu
  <2> HIDE DEF a, b
  <2> QED
    BY <1>3, <2>11, <2>12, <2>13 DEF nu, d, u
<1> QED
  BY <1>1, <1>2, <1>3

(* When an edge that kept its schedule is passed in the next epoch, it is  *)
(* pulled and pushed as often as the schedule says.                        *)
LEMMA ScheduleStep ==
    ASSUME LayoutType, NEW e \in EdgeIds, NEW n \in Nat, Route # "sampled", Scheduled(e, n),
           NEW k, k = PulledBy(n, e), NEW j, j = PulledBy(n + 1, e)
    PROVE  /\ k \in Nat /\ j \in {k, k + 1} /\ PullsNow(n, e) = j - k
           /\ PushedBy(k, e) \in Nat /\ PushedBy(j, e) \in Nat
           /\ j = k => PushedBy(j, e) = PushedBy(k, e)
           /\ j = k + 1 => PushesNow(n, e) = PushedBy(j, e) - PushedBy(k, e)
                           /\ PushedBy(j, e) - PushedBy(k, e) \in Nat
<1> DEFINE p == edges[e].period
           u == Unit
           d == NegativePeriod(e)
           a == PushedBy(k, e)
           b == PushedBy(j, e)
<1>1. /\ p \in Nat \ {0} /\ u \in Nat \ {0} /\ u <= p /\ call.rate \in Nat
      /\ (call.rate > 0 => d \in Nat \ {0} /\ d <= p)
  BY EdgeGives
<1>2. /\ k \in Nat /\ j = Whole(n, e) /\ j \in {k, k + 1} /\ PullsDue(n, e) = j - k
      /\ ((k + 1) * p <= n * u <=> j = k + 1) /\ (j = k + 1 => EpochOf(j, e) = n)
  BY PullsRight
<1>3. j \in Nat /\ k <= j
  BY <1>2
<1>4. a \in Nat /\ b \in Nat
  <2> HIDE DEF p, u, d
  <2> QED
    BY <1>2, <1>3, PushedRight
<1>5. PullsNow(n, e) = j - k
  <2>1. CASE Route \in Stateful
    <3>1. due[e] = (k + 1) * p
      BY <2>1 DEF Scheduled
    <3>2. PullsNow(n, e) = IF due[e] <= n * u THEN 1 ELSE 0
      BY <2>1 DEF PullsNow
    <3> HIDE DEF p, u, d, a, b
    <3> QED
      BY <1>2, <3>1, <3>2
  <2>2. CASE Route \notin Stateful
    BY <1>2, <2>2 DEF PullsNow
  <2> QED
    BY <2>1, <2>2
<1>6. ASSUME j = k + 1 PROVE PushesNow(n, e) = b - a /\ b - a \in Nat
  <2>1. CASE call.rate = 0
    <3>1. a = 0 /\ b = 0
      BY <2>1 DEF PushedBy
    <3>2. PushesNow(n, e) = 0
      BY <2>1 DEF PushesNow, PushesOwed, PushesDue
    <3> QED
      BY <3>1, <3>2
  <2>2. CASE call.rate > 0
    <3>1. b = Pushes(n, e) /\ j > 0
      BY <1>1, <1>2, <1>6, <2>2 DEF PushedBy
    <3>2. b \in Nat /\ d <= n * u /\ a <= b
      <4> HIDE DEF p
      <4>1. b \in Nat /\ d <= n * u
        BY <1>2, <1>3, <2>2, <3>1, PushedRight
      <4>2. CASE k = 0
        <5>1. a = 0
          BY <4>2 DEF PushedBy
        <5> HIDE DEF a, b, d, u
        <5> QED
          BY <4>1, <5>1
      <4>3. CASE k # 0
        <5>1. a <= Pushes(n, e)
          BY <1>2, <1>3, <2>2, <4>3, PushedRight
        <5> QED
          BY <3>1, <4>1, <5>1
      <4> QED
        BY <4>1, <4>2, <4>3
    <3>3. b - a \in Nat
      <4> HIDE DEF a, b, p, u, d
      <4> QED
        BY <1>4, <3>2
    <3>4. CASE Route \in Stateful
      <4>1. owed[e] = d + a * d /\ PushesNow(n, e) = PushesOwed(n, e)
        BY <2>2, <3>4 DEF Scheduled, PushesNow
      <4>2. PushesOwed(n, e) = IF n * u < owed[e] THEN 0 ELSE (n * u - owed[e]) \div d
        BY <1>1, <2>2 DEF PushesOwed
      <4>3. b = (n * u - d) \div d
        BY <3>1 DEF Pushes
      <4> HIDE DEF a, b, p, u, d
      <4> DEFINE x == n * u - d
      <4>4. n * u \in Nat /\ d \in Nat \ {0}
        BY <1>1, <2>2
      <4>5. x \in Nat /\ b = x \div d
        <5> DEFINE y == n * u
        <5> HIDE DEF y
        <5>1. y - d \in Nat
          BY <3>2, <4>4 DEF y
        <5> QED
          BY <4>3, <5>1 DEF y
      <4>6. a * d \in Nat /\ a * d <= x /\ (x - a * d) \div d = b - a
        <5> HIDE DEF x
        <5> QED
          BY <1>4, <3>2, <4>4, <4>5, RestQuotient
      <4> DEFINE y == n * u  z == a * d
      <4>7. ~(n * u < owed[e]) /\ n * u - owed[e] = x - a * d
        <5>1. y \in Nat /\ z \in Nat /\ d \in Nat /\ owed[e] = d + z /\ x = y - d /\ z <= x
          BY <4>1, <4>4, <4>6
        <5> HIDE DEF x, y, z
        <5>2. ~(y < owed[e]) /\ y - owed[e] = x - z
          BY <5>1
        <5> QED
          BY <5>2 DEF y, z
      <4> HIDE DEF x, y, z
      <4> QED
        BY <3>3, <4>1, <4>2, <4>6, <4>7
    <3>5. CASE Route \notin Stateful
      <4>1. PushesNow(n, e) = PushesDue(n, e) /\ PullsDue(n, e) = 1
        BY <1>2, <1>6, <3>5 DEF PushesNow
      <4>2. Whole(n, e) - 1 = k
        BY <1>2, <1>6
      <4>3. PushesDue(n, e) = Pushes(n, e) - (IF k < 1 THEN 0 ELSE Pushes(EpochOf(k, e), e))
        BY <1>1, <2>2, <4>1, <4>2 DEF PushesDue
      <4>4. a = IF k < 1 THEN 0 ELSE Pushes(EpochOf(k, e), e)
        BY <1>1, <1>2, <2>2 DEF PushedBy
      <4> HIDE DEF a, b, p, u, d
      <4> QED
        BY <3>1, <3>3, <4>1, <4>3, <4>4
    <3> QED
      BY <3>4, <3>5
  <2> QED
    BY <1>1, <2>1, <2>2
<1> QED
  BY <1>2, <1>4, <1>5, <1>6

OnSchedule ==
    Route # "sampled" =>
        \A t \in Team, b \in BatchIds : \A e \in Stripe(t, b) : \A n \in Nat :
            n = Rounds(thread[t], b, e) => Scheduled(e, n)

(* The schedule is defined by the call and its edges alone.                *)
LEMMA ScheduleStays ==
    ASSUME call' = call, edges' = edges
    PROVE  /\ \A n, e : PulledBy(n, e)' = PulledBy(n, e)
           /\ \A k, e : PushedBy(k, e)' = PushedBy(k, e)
           /\ \A e : NegativePeriod(e)' = NegativePeriod(e)
           /\ \A r, b, e : Rounds(r, b, e)' = Rounds(r, b, e)
<1>1. \A n, e : Whole(n, e)' = Whole(n, e)
  BY DEF Whole
<1>2. \A e : NegativePeriod(e)' = NegativePeriod(e)
  BY DEF NegativePeriod
<1>3. \A n, e : Pushes(n, e)' = Pushes(n, e)
  BY <1>2 DEF Pushes
<1>4. \A n, e : EpochOf(n, e)' = EpochOf(n, e)
  BY DEF EpochOf
<1>5. \A n, e : PulledBy(n, e)' = PulledBy(n, e)
  BY <1>1 DEF PulledBy
<1>6. \A k, e : PushedBy(k, e)' = PushedBy(k, e)
  BY <1>3, <1>4 DEF PushedBy
<1>7. \A r, b, e : Rounds(r, b, e)' = Rounds(r, b, e)
  BY DEF Rounds
<1> QED
  BY <1>2, <1>5, <1>6, <1>7

(* A step that passes no edge keeps every edge on schedule.                *)
LEMMA KeptOnSchedule ==
    ASSUME LayoutType, OnSchedule, UNCHANGED <<call, edges, due, owed, drawn>>,
           \A t \in Team : SameRounds(thread[t], thread'[t], t)
    PROVE  OnSchedule'
<1>1. /\ Route' = Route /\ Team' = Team /\ BatchIds' = BatchIds /\ \A t, b : Stripe(t, b)' = Stripe(t, b)
  BY CallStays
<1>2. ASSUME NEW e, NEW n PROVE Scheduled(e, n)' <=> Scheduled(e, n)
  BY <1>1, ScheduleStays DEF Scheduled
<1>3. ASSUME Route # "sampled", NEW t \in Team, NEW b \in BatchIds, NEW e \in Stripe(t, b),
             NEW n \in Nat, n = Rounds(thread'[t], b, e)
      PROVE  Scheduled(e, n)'
  <2>1. Rounds(thread'[t], b, e) = Rounds(thread[t], b, e)
    BY DEF SameRounds
  <2>2. Scheduled(e, n)
    BY <1>3, <2>1 DEF OnSchedule
  <2> QED
    BY <1>2, <2>2
<1>4. \A t, b, e : Rounds(thread[t], b, e)' = Rounds(thread'[t], b, e)
  BY DEF Rounds
<1> QED
  BY <1>1, <1>3, <1>4 DEF OnSchedule

(* A set of numbers in 1..n is finite.                                     *)
LEMMA CountIn == ASSUME NEW n \in Nat, NEW S, S \subseteq 1..n PROVE IsFiniteSet(S) /\ Cardinality(S) \in Nat
BY FirstNumbers, Within

(* The number of an edge is a number.                                      *)
LEMMA SampleEdgeType == ASSUME LayoutType, NEW t \in Team, NEW e \in EdgeIds PROVE SampleEdge(t, e) \in Nat
<1>1. Len(edges) \in Nat /\ EdgeIds = 1..Len(edges) /\ Stripe(t, 0) \subseteq EdgeIds
  BY TypeGives
<1>2. WorkerOffset(t) \in Nat
  <2> DEFINE S == {f \in EdgeIds : \E s \in 0..t - 1 : edges[f].head \in RowsOf(s)}
  <2>1. S \subseteq 1..Len(edges)
    BY <1>1
  <2>2. WorkerOffset(t) = Cardinality(S)
    BY DEF WorkerOffset
  <2> HIDE DEF S
  <2> QED
    BY <1>1, <2>1, <2>2, CountIn
<1>3. Cardinality({f \in Stripe(t, 0) : f <= e}) \in Nat
  <2> DEFINE S == {f \in Stripe(t, 0) : f <= e}
  <2>1. S \subseteq 1..Len(edges)
    BY <1>1
  <2> HIDE DEF S
  <2>2. Cardinality(S) \in Nat
    BY <1>1, <2>1, CountIn
  <2> QED
    BY <2>2 DEF S
<1> QED
  BY <1>1, <1>2, <1>3 DEF SampleEdge

(* Points are pushed from points.                                          *)
LEMMA PushedFromType ==
    ASSUME LayoutType, NEW e \in EdgeIds, NEW epoch \in Nat, NEW number \in Nat, NEW count \in Nat
    PROVE  PushedFrom(epoch, e, number, count) \in Seq(LayoutPoints)
<1> DEFINE skipped == {edges[e].head} \cup
                   (IF Route \in {"rounds", "sampled", "replay"} THEN {edges[e].tail} ELSE {})
           drawnAt == [s \in 1..count |-> Drawn(epoch, number, s)]
           K == {s \in 1..count : drawnAt[s] \notin skipped}
           from == PushedFrom(epoch, e, number, count)
<1>1. from = Chosen(drawnAt, K)
  BY DEF PushedFrom
<1>2. K \subseteq 1..count /\ K \subseteq Nat
  OBVIOUS
<1>3. \A s \in 1..count : drawnAt[s] \in LayoutPoints
  <2> SUFFICES ASSUME NEW s \in 1..count PROVE Drawn(epoch, number, s) \in LayoutPoints
    OBVIOUS
  <2>1. Len(call.start) \in Nat \ {0} /\ LayoutPoints = 1..Len(call.start)
    <3>1. edges[e].head \in LayoutPoints
      BY EdgeGives
    <3>2. Len(call.start) \in Nat /\ LayoutPoints = 1..Len(call.start)
      BY TypeGives
    <3> QED
      BY <3>1, <3>2
  <2> DEFINE x == 2 * number + epoch + s
             m == Len(call.start)
  <2>2. x \in Nat
    OBVIOUS
  <2>3. Drawn(epoch, number, s) = (x % m) + 1
    BY DEF Drawn
  <2> HIDE DEF x, m
  <2>4. m \in Nat \ {0}
    BY <2>1 DEF m
  <2>5. x % m \in 0..(m - 1)
    BY <2>2, <2>4
  <2> QED
    BY <2>1, <2>3, <2>4, <2>5 DEF m
<1> HIDE DEF drawnAt, K
<1>4. IsFiniteSet(K)
  BY <1>2, CountIn
<1>5. /\ Cardinality(K) \in Nat /\ DOMAIN Chosen(drawnAt, K) = 1..Cardinality(K)
      /\ \A n \in 1..Cardinality(K) : Nth(K, n) \in K /\ Chosen(drawnAt, K)[n] = drawnAt[Nth(K, n)]
  BY <1>2, <1>4, ChosenIs
<1>6. Chosen(drawnAt, K) = [n \in 1..Cardinality(K) |-> Chosen(drawnAt, K)[n]]
  BY DEF Chosen
<1>7. \A n \in 1..Cardinality(K) : Chosen(drawnAt, K)[n] \in LayoutPoints
  BY <1>2, <1>3, <1>5
<1> HIDE DEF from
<1>8. from \in Seq(LayoutPoints)
  BY <1>1, <1>5, <1>6, <1>7
<1> QED
  BY <1>8 DEF from

(* The forces of an edge: its pull, if it is due, and then its pushes.     *)
LEMMA ForcesType ==
    ASSUME NEW S, NEW from \in Seq(S), NEW pulls \in {0, 1}, 0 \notin S
    PROVE  /\ [i \in 1..pulls |-> 0] \o from \in Seq(S \cup {0})
           /\ pulls = 1 => [i \in 1..pulls |-> 0] \o from # <<>>
<1> DEFINE zeros == [i \in 1..pulls |-> 0]
<1>1. zeros \in Seq(S \cup {0}) /\ Len(zeros) = pulls
  OBVIOUS
<1>2. from \in Seq(S \cup {0})
  OBVIOUS
<1> HIDE DEF zeros
<1>3. zeros \o from \in Seq(S \cup {0}) /\ Len(zeros \o from) = pulls + Len(from) /\ Len(from) \in Nat
  BY <1>1, <1>2
<1>4. pulls = 1 => zeros \o from # <<>>
  BY <1>3
<1> QED
  BY <1>3, <1>4 DEF zeros

(* What a thread does when it takes up an edge. *)
Taken(t, r, e, pulls, pushes, forces) ==
    /\ Route # "sampled" => pulls = PullsNow(r.epoch, e)
          /\ pushes = IF pulls = 0 THEN 0 ELSE PushesNow(r.epoch, e)
    /\ pulls = 1 => forces # <<>>
    /\ thread' = [thread EXCEPT ![t] = [r EXCEPT !.left = @ \ {e},
          !.edge = IF pulls = 0 THEN 0 ELSE e, !.forces = forces,
          !.at = IF pulls = 0 THEN "work" ELSE "force"]]
    /\ due' = IF Route \in Stateful /\ pulls > 0
              THEN [due EXCEPT ![e] = @ + edges[e].period] ELSE due
    /\ owed' = IF Route \in Stateful /\ pushes > 0
               THEN [owed EXCEPT ![e] = OwedNext(e, pushes)] ELSE owed
    /\ drawn' = [drawn EXCEPT ![e] =
           [pulls |-> @.pulls + pulls, pushes |-> @.pushes + pushes]]

(* What NextEdge does, with the pulls and pushes that are due.             *)
LEMMA NextEdgeTakes ==
    ASSUME LayoutType, ThreadsRight, OnSchedule, NEW t \in Team, NextEdge(t)
    PROVE  LET r == thread[t]
               e == Min(r.left)
           IN  /\ r \in ThreadType /\ Right(r, t) /\ r.at = "work" /\ e \in r.left /\ e \in EdgeIds
               /\ \E pulls \in {0, 1}, pushes \in Nat, forces \in Seq(LayoutPoints \cup {0}) :
                     Taken(t, r, e, pulls, pushes, forces)
<1> DEFINE r == thread[t]
           e == Min(r.left)
<1>0. r = thread[t] /\ e = Min(r.left)
  OBVIOUS
<1>1. r \in ThreadType /\ Right(r, t) /\ r.at = "work" /\ r.left # {} /\ r.left \subseteq EdgeIds
  BY TypeGives DEF ThreadsRight, NextEdge, ThreadType
<1>2. EdgeIds \subseteq Nat
  BY TypeGives
<1>3. e \in r.left /\ e \in EdgeIds
  BY <1>1, <1>2, LeastIn
<1>4. PICK taken \in IF Route = "sampled" /\ edges[e].period > Unit THEN BOOLEAN ELSE {TRUE} :
           LET pulls == IF Route # "sampled" THEN PullsNow(r.epoch, e) ELSE IF taken THEN 1 ELSE 0
               pushes == IF pulls = 0 THEN 0
                         ELSE IF Route = "sampled" THEN call.rate ELSE PushesNow(r.epoch, e)
               from == PushedFrom(r.epoch, e, SampleEdge(t, e), pushes)
               forces == [i \in 1..pulls |-> 0] \o from
           IN  /\ thread' = [thread EXCEPT ![t].left = @ \ {e},
                    ![t].edge = IF pulls = 0 THEN 0 ELSE e,
                    ![t].forces = forces, ![t].at = IF pulls = 0 THEN "work" ELSE "force"]
               /\ due' = IF Route \in Stateful /\ pulls > 0
                         THEN [due EXCEPT ![e] = @ + edges[e].period] ELSE due
               /\ owed' = IF Route \in Stateful /\ pushes > 0
                          THEN [owed EXCEPT ![e] = OwedNext(e, pushes)] ELSE owed
               /\ drawn' = [drawn EXCEPT ![e] =
                      [pulls |-> @.pulls + pulls, pushes |-> @.pushes + pushes]]
  BY DEF NextEdge
<1> HIDE DEF r, e
<1> DEFINE pulls == IF Route # "sampled" THEN PullsNow(r.epoch, e) ELSE IF taken THEN 1 ELSE 0
           pushes == IF pulls = 0 THEN 0
                     ELSE IF Route = "sampled" THEN call.rate ELSE PushesNow(r.epoch, e)
           from == PushedFrom(r.epoch, e, SampleEdge(t, e), pushes)
           forces == [i \in 1..pulls |-> 0] \o from
<1>5. /\ thread' = [thread EXCEPT ![t].left = @ \ {e},
                    ![t].edge = IF pulls = 0 THEN 0 ELSE e,
                    ![t].forces = forces, ![t].at = IF pulls = 0 THEN "work" ELSE "force"]
      /\ due' = IF Route \in Stateful /\ pulls > 0
                THEN [due EXCEPT ![e] = @ + edges[e].period] ELSE due
      /\ owed' = IF Route \in Stateful /\ pushes > 0
                 THEN [owed EXCEPT ![e] = OwedNext(e, pushes)] ELSE owed
      /\ drawn' = [drawn EXCEPT ![e] =
             [pulls |-> @.pulls + pulls, pushes |-> @.pushes + pushes]]
  BY <1>4
<1>6. r.epoch \in Nat /\ r.batch \in BatchIds /\ call.rate \in Nat
  BY <1>1, TypeGives, CallIs DEF ThreadType, LayoutType
<1>7. pulls \in {0, 1} /\ pushes \in Nat
  <2>1. CASE Route # "sampled"
    <3>1. e \in Stripe(t, r.batch) /\ Rounds(r, r.batch, e) = r.epoch
      BY <1>1, <1>3, <1>6, TypeGives DEF Right, Rounds
    <3>2. Scheduled(e, r.epoch)
      BY <1>6, <1>0, <2>1, <3>1 DEF OnSchedule
    <3> DEFINE k == PulledBy(r.epoch, e)  j == PulledBy(r.epoch + 1, e)
    <3>3. /\ k \in Nat /\ j \in {k, k + 1} /\ PullsNow(r.epoch, e) = j - k
          /\ j = k + 1 => PushesNow(r.epoch, e) \in Nat
      <4> HIDE DEF k, j
      <4> QED
        BY <1>3, <1>6, <2>1, <3>2, ScheduleStep DEF k, j
    <3> HIDE DEF k, j
    <3> QED
      BY <2>1, <3>3
  <2>2. CASE Route = "sampled"
    BY <1>6, <2>2
  <2> QED
    BY <2>1, <2>2
<1>8. Route # "sampled" => pulls = PullsNow(r.epoch, e)
                       /\ pushes = IF pulls = 0 THEN 0 ELSE PushesNow(r.epoch, e)
  OBVIOUS
<1> HIDE DEF pulls, pushes
<1>9. forces \in Seq(LayoutPoints \cup {0}) /\ (pulls = 1 => forces # <<>>)
  <2>1. from \in Seq(LayoutPoints)
    BY <1>3, <1>6, <1>7, SampleEdgeType, PushedFromType
  <2>2. 0 \notin LayoutPoints
    BY TypeGives
  <2> HIDE DEF from
  <2> QED
    BY <1>7, <2>1, <2>2, ForcesType
<1> HIDE DEF forces
<1>10. thread' = [thread EXCEPT ![t] = [r EXCEPT !.left = @ \ {e},
                       !.edge = IF pulls = 0 THEN 0 ELSE e, !.forces = forces,
                       !.at = IF pulls = 0 THEN "work" ELSE "force"]]
  BY <1>1, <1>5, <1>0 DEF LayoutType, ThreadType
<1>11. Taken(t, r, e, pulls, pushes, forces)
  BY <1>5, <1>8, <1>9, <1>10 DEF Taken
<1> QED
  BY <1>1, <1>3, <1>7, <1>9, <1>11 DEF r, e

(* The same, with the thread and its edge named.                           *)
LEMMA NextEdgeIs ==
    ASSUME LayoutType, ThreadsRight, OnSchedule, NEW t \in Team, NextEdge(t), NEW r, r = thread[t],
           NEW e, e = Min(r.left)
    PROVE  /\ r \in ThreadType /\ Right(r, t) /\ r.at = "work" /\ e \in r.left /\ e \in EdgeIds
           /\ \E pulls \in {0, 1}, pushes \in Nat, forces \in Seq(LayoutPoints \cup {0}) :
                 Taken(t, r, e, pulls, pushes, forces)
  BY NextEdgeTakes

(* An edge is passed: its owner has one round more, others have not.       *)
LEMMA NextEdgeKept ==
    ASSUME LayoutType, ThreadsRight, Home, OnSchedule, NEW t \in Team, NextEdge(t)
    PROVE  /\ UNCHANGED <<call, edges, coords, delta, given, opened>>
           /\ due' \in [EdgeIds -> Int] /\ owed' \in [EdgeIds -> Int]
           /\ drawn' \in [EdgeIds -> [pulls : Int, pushes : Int]]
           /\ thread' \in [Team -> ThreadType]
           /\ \A s \in Team : Right(thread'[s], s) /\ thread'[s].adds = thread[s].adds
           /\ Home' /\ OnSchedule'
<1> DEFINE r == thread[t]
           e == Min(r.left)
<1>0. r = thread[t] /\ e = Min(r.left)
  OBVIOUS
<1> HIDE DEF r, e
<1>1. /\ r \in ThreadType /\ Right(r, t) /\ r.at = "work" /\ e \in r.left /\ e \in EdgeIds
  BY <1>0, NextEdgeIs
<1>2. PICK pulls \in {0, 1}, pushes \in Nat, forces \in Seq(LayoutPoints \cup {0}) :
         Taken(t, r, e, pulls, pushes, forces)
  BY <1>0, NextEdgeIs
<1>3.  /\ Route # "sampled" => pulls = PullsNow(r.epoch, e)
             /\ pushes = IF pulls = 0 THEN 0 ELSE PushesNow(r.epoch, e)
       /\ pulls = 1 => forces # <<>>
       /\ due' = IF Route \in Stateful /\ pulls > 0
                 THEN [due EXCEPT ![e] = @ + edges[e].period] ELSE due
       /\ owed' = IF Route \in Stateful /\ pushes > 0
                  THEN [owed EXCEPT ![e] = OwedNext(e, pushes)] ELSE owed
       /\ drawn' = [drawn EXCEPT ![e] =
              [pulls |-> @.pulls + pulls, pushes |-> @.pushes + pushes]]
  BY <1>2 DEF Taken
<1>4. UNCHANGED <<call, edges, coords, delta, given, opened>>
  BY DEF NextEdge, LayoutType
<1> DEFINE q == [r EXCEPT !.left = @ \ {e}, !.edge = IF pulls = 0 THEN 0 ELSE e, !.forces = forces,
                 !.at = IF pulls = 0 THEN "work" ELSE "force"]
<1>5. thread' = [thread EXCEPT ![t] = q] /\ thread \in [Team -> ThreadType]
      /\ \A s \in Team : thread[s] \in ThreadType /\ Right(thread[s], s)
  BY <1>2 DEF LayoutType, ThreadsRight, Taken
<1>6. LayoutPoints \cup {0} = 0..Len(call.start) /\ r.adds = <<>> /\ EdgeIds = 1..Len(edges) /\ Len(edges) \in Nat
  BY <1>1, TypeGives DEF Right
<1>7. /\ q \in ThreadType /\ q.left = r.left \ {e} /\ q.epoch = r.epoch /\ q.batch = r.batch /\ q.adds = r.adds
      /\ q.at \in {"work", "force"} /\ (q.at = "force" => q.edge = e /\ q.forces = forces /\ pulls = 1)
  <2>0. forces \in Seq(0..Len(call.start)) /\ r.left \ {e} \in SUBSET EdgeIds /\ {0, e} \subseteq 0..Len(edges)
    <3>1. forces \in Seq(0..Len(call.start))
      BY <1>6
    <3>2. r.left \in SUBSET EdgeIds
      BY <1>1 DEF ThreadType
    <3>3. {0, e} \subseteq 0..Len(edges)
      BY <1>1, <1>6
    <3> QED
      BY <3>1, <3>2, <3>3
  <2>1. CASE pulls = 0
    <3>1. q = [r EXCEPT !.left = r.left \ {e}, !.edge = 0, !.forces = forces, !.at = "work"]
      BY <2>1
    <3> HIDE DEF q
    <3> QED
      BY <1>1, <2>0, <3>1 DEF ThreadType, Steps
  <2>2. CASE pulls = 1
    <3>1. q = [r EXCEPT !.left = r.left \ {e}, !.edge = e, !.forces = forces, !.at = "force"]
      BY <2>2
    <3> HIDE DEF q
    <3> QED
      BY <1>1, <2>0, <2>2, <3>1 DEF ThreadType, Steps
  <2> QED
    BY <1>2, <1>3, <2>1, <2>2
<1> HIDE DEF q
<1>8. Right(q, t)
  BY <1>1, <1>2, <1>3, <1>6, <1>7 DEF Right
<1>9. thread'[t] = q /\ \A s \in Team : s # t => thread'[s] = thread[s]
  BY <1>5
<1>10. thread' \in [Team -> ThreadType]
  BY <1>5, <1>7
<1>11. ASSUME NEW s \in Team PROVE Right(thread'[s], s) /\ thread'[s].adds = thread[s].adds
  <2>1. CASE s = t
    BY <1>7, <1>8, <1>9, <2>1 DEF r
  <2>2. CASE s # t
    BY <1>5, <1>9, <2>2
  <2> QED
    BY <2>1, <2>2
<1>12. Home'
  <2>1. thread[t].at # "returned"
    BY <1>1 DEF r
  <2>2. \A s \in Team : thread[s].at # "returned"
    BY <2>1 DEF Home
  <2>3. Team' = Team
    BY <1>4, CallStays
  <2>4. \A s \in Team : thread'[s].at # "returned"
    BY <1>7, <1>9, <2>2
  <2> QED
    BY <2>3, <2>4 DEF Home
<1>13. edges[e].period \in Int /\ (Route \in Stateful /\ pushes > 0 => call.rate > 0 /\ OwedNext(e, pushes) \in Int)
  <2>1. edges[e].period \in Int /\ call.rate \in Nat
    BY <1>1, EdgeGives
  <2>2. ASSUME Route \in Stateful, pushes > 0 PROVE call.rate > 0 /\ OwedNext(e, pushes) \in Int
    <3>1. PushesNow(r.epoch, e) # 0 /\ PushesNow(r.epoch, e) = PushesOwed(r.epoch, e)
      BY <1>2, <1>3, <2>2 DEF Stateful, PushesNow
    <3>2. call.rate > 0
      BY <2>1, <3>1 DEF PushesOwed
    <3>3. owed[e] \in Int /\ NegativePeriod(e) \in Int
      BY <1>1, <3>2, EdgeGives DEF LayoutType
    <3> QED
      BY <1>2, <1>3, <3>2, <3>3 DEF OwedNext
  <2> QED
    BY <2>1, <2>2
<1>14. due' \in [EdgeIds -> Int] /\ owed' \in [EdgeIds -> Int]
       /\ drawn' \in [EdgeIds -> [pulls : Int, pushes : Int]]
  <2>1. due \in [EdgeIds -> Int] /\ owed \in [EdgeIds -> Int] /\ drawn \in [EdgeIds -> [pulls : Int, pushes : Int]]
    BY DEF LayoutType
  <2>2. due' \in [EdgeIds -> Int]
    BY <1>1, <1>2, <1>3, <1>13, <2>1
  <2>3. owed' \in [EdgeIds -> Int]
    BY <1>1, <1>2, <1>3, <1>13, <2>1
  <2>4. drawn[e].pulls + pulls \in Int /\ drawn[e].pushes + pushes \in Int
    BY <1>1, <1>2, <1>3, <2>1
  <2>5. drawn' \in [EdgeIds -> [pulls : Int, pushes : Int]]
    BY <1>1, <1>2, <1>3, <2>1, <2>4
  <2> QED
    BY <2>2, <2>3, <2>5
<1> DEFINE n == r.epoch
<1>15. n \in Nat /\ r.batch \in BatchIds /\ e \in Stripe(t, r.batch) /\ Rounds(r, r.batch, e) = n /\ Rounds(q, r.batch, e) = n + 1
  <2>1. n \in Nat /\ r.batch \in BatchIds /\ r.batch \in Int
    BY <1>1, TypeGives DEF ThreadType
  <2>2. e \in Stripe(t, r.batch)
    BY <1>1 DEF Right
  <2> QED
    BY <1>1, <1>7, <2>1, <2>2 DEF Rounds
<1> HIDE DEF n
<1>16. ASSUME Route # "sampled", NEW f, f = e, NEW m \in Nat, m = n + 1 PROVE Scheduled(f, m)'
  <2> DEFINE k == PulledBy(n, e)  j == PulledBy(n + 1, e)
             a == PushedBy(k, e)  b == PushedBy(j, e)
             d == NegativePeriod(e)  p == edges[e].period
  <2>1. Scheduled(e, n)
    BY <1>0, <1>15, <1>16 DEF OnSchedule
  <2>2. /\ k \in Nat /\ j \in {k, k + 1} /\ PullsNow(n, e) = j - k
        /\ a \in Nat /\ b \in Nat
        /\ j = k => b = a
        /\ j = k + 1 => PushesNow(n, e) = b - a /\ b - a \in Nat
    <3> HIDE DEF k, j
    <3> QED
      BY <1>1, <1>15, <1>16, <2>1, ScheduleStep DEF k, j
  <2>3. pulls = PullsNow(n, e) /\ pushes = IF pulls = 0 THEN 0 ELSE PushesNow(n, e)
    BY <1>2, <1>3, <1>16 DEF n
  <2>4. /\ drawn[e].pulls = k /\ drawn[e].pushes = a
        /\ Route \in Stateful => due[e] = (k + 1) * p /\ (call.rate > 0 => owed[e] = d + a * d)
    BY <2>1 DEF Scheduled
  <2>5. p \in Nat /\ (call.rate > 0 => d \in Nat) /\ call.rate \in Nat
    BY <1>1, EdgeGives
  <2> HIDE DEF k, j, a, b, d, p
  <2>6. pulls = j - k /\ pushes = b - a
    BY <2>2, <2>3
  <2>7. drawn'[e].pulls = j /\ drawn'[e].pushes = b
    <3>1. drawn'[e] = [pulls |-> drawn[e].pulls + pulls, pushes |-> drawn[e].pushes + pushes]
      BY <1>1, <1>3 DEF LayoutType
    <3> QED
      BY <2>2, <2>4, <2>6, <3>1
  <2>8. ASSUME Route \in Stateful PROVE due'[e] = (j + 1) * p
    <3>1. due[e] = (k + 1) * p
      BY <2>4, <2>8
    <3>2. due'[e] = IF pulls > 0 THEN due[e] + p ELSE due[e]
      BY <1>1, <1>2, <1>3, <2>8 DEF LayoutType, p
    <3>3. CASE j = k
      <4>1. pulls = 0
        BY <2>2, <2>6, <3>3
      <4> QED
        BY <3>1, <3>2, <3>3, <4>1
    <3>4. CASE j = k + 1
      <4>1. pulls = 1
        BY <2>2, <2>6, <3>4
      <4>2. due'[e] = (k + 1) * p + p
        BY <3>1, <3>2, <4>1
      <4>3. (j + 1) * p = (k + 1) * p + p
        BY <2>2, <2>5, <3>4
      <4> QED
        BY <4>2, <4>3
    <3> QED
      BY <2>2, <3>3, <3>4
  <2>9. ASSUME Route \in Stateful, call.rate > 0 PROVE owed'[e] = d + b * d
    <3>1. owed[e] = d + a * d /\ d \in Nat
      BY <2>4, <2>5, <2>9
    <3>2. owed'[e] = IF pushes > 0 THEN OwedNext(e, pushes) ELSE owed[e]
      BY <1>1, <1>2, <1>3, <2>9 DEF LayoutType
    <3>3. OwedNext(e, pushes) = owed[e] + pushes * d
      BY DEF OwedNext, d
    <3>4. CASE pushes > 0
      <4>1. b = a + pushes
        BY <1>2, <1>3, <2>2, <2>6
      <4>2. b * d = a * d + pushes * d
        BY <1>2, <1>3, <2>2, <3>1, <4>1
      <4>3. a * d \in Nat /\ pushes * d \in Nat
        BY <1>2, <1>3, <2>2, <3>1
      <4> QED
        BY <3>1, <3>2, <3>3, <3>4, <4>2, <4>3
    <3>5. CASE ~(pushes > 0)
      <4>1. b = a
        BY <1>2, <1>3, <2>2, <2>6, <3>5
      <4> QED
        BY <3>1, <3>2, <3>5, <4>1
    <3> QED
      BY <3>4, <3>5
  <2>10. /\ Route' = Route /\ call'.rate = call.rate /\ edges'[f].period = p
         /\ PulledBy(m, f)' = j /\ NegativePeriod(f)' = d
    BY <1>4, <1>16, CallStays, ScheduleStays DEF j, d, p
  <2>11. PushedBy(PulledBy(m, f), f)' = b
    <3>1. PushedBy(PulledBy(m, f), f)' = PushedBy(j, f)
      BY <1>4, <2>10 DEF PushedBy, Pushes, EpochOf, NegativePeriod
    <3> QED
      BY <1>16, <3>1 DEF b
  <2> QED
    BY <1>16, <2>7, <2>8, <2>9, <2>10, <2>11 DEF Scheduled
<1>17. ASSUME Route # "sampled", NEW s \in Team, NEW b \in BatchIds, NEW f \in Stripe(s, b),
              NEW m \in Nat, m = Rounds(thread'[s], b, f)
       PROVE  Scheduled(f, m)'
  <2>1. f \in EdgeIds
    BY TypeGives
  <2>2. CASE f = e
    <3>1. s = t /\ b = r.batch
      BY <1>1, <1>15, <2>2, StripesShare DEF LayoutType, Owned
    <3>2. m = n + 1
      BY <1>9, <1>15, <1>17, <2>2, <3>1
    <3> QED
      BY <1>16, <1>17, <2>2, <3>2
  <2>3. CASE f # e
    <3>1. Rounds(thread'[s], b, f) = Rounds(thread[s], b, f)
      <4>1. CASE s = t
        BY <1>0, <1>7, <1>9, <2>3, <4>1 DEF Rounds
      <4>2. CASE s # t
        BY <1>9, <4>2
      <4> QED
        BY <4>1, <4>2
    <3>2. Scheduled(f, m)
      BY <1>17, <3>1 DEF OnSchedule
    <3>3. drawn'[f] = drawn[f] /\ due'[f] = due[f] /\ owed'[f] = owed[f]
      BY <1>3, <2>1, <2>3 DEF LayoutType
    <3> QED
      BY <1>4, <3>2, <3>3, CallStays, ScheduleStays DEF Scheduled
  <2> QED
    BY <2>2, <2>3
<1>18. OnSchedule'
  <2>1. /\ Route' = Route /\ Team' = Team /\ BatchIds' = BatchIds /\ \A s, b : Stripe(s, b)' = Stripe(s, b)
    BY <1>4, CallStays
  <2>2. \A s, b, f : Rounds(thread[s], b, f)' = Rounds(thread'[s], b, f)
    BY DEF Rounds
  <2> QED
    BY <1>17, <2>1, <2>2 DEF OnSchedule
<1> QED
  BY <1>4, <1>10, <1>11, <1>12, <1>14, <1>18

(* What the additions left of a force will add to point v.                 *)
AddOf(a, v) == IF a.point = v THEN a.by ELSE 0
Pending(adds, v) ==
    IF Len(adds) = 0 THEN 0
    ELSE AddOf(adds[1], v) + (IF Len(adds) = 1 THEN 0 ELSE AddOf(adds[2], v))

(* What one or two additions add to a point.                               *)
LEMMA SumOf ==
    ASSUME NEW adds \in Seq(AddType), Len(adds) \in {1, 2}, NEW v
    PROVE  SumFunction([i \in {i \in DOMAIN adds : adds[i].point = v} |-> adds[i].by]) = Pending(adds, v)
           /\ Pending(adds, v) \in Int
<1> DEFINE K == {i \in DOMAIN adds : adds[i].point = v}
           f == [i \in K |-> adds[i].by]
<1>1. SumFunction(f) = Total(f, K)
  BY DEF SumFunction, Total
<1>2. DOMAIN adds = 1..Len(adds) /\ \A i \in DOMAIN adds : adds[i] \in AddType
  OBVIOUS
<1>3. \A i \in K : f[i] \in Int /\ f[i] = adds[i].by
  BY <1>2 DEF AddType
<1>4. Total(f, {}) = 0
  BY TotalOfNone
<1>5. \A i \in {1, 2} : i \in K <=> i <= Len(adds) /\ adds[i].point = v
  BY <1>2
<1>6. K \subseteq {1, 2}
  BY <1>2
<1> HIDE DEF f, K
<1>7. ASSUME NEW i \in K PROVE Total(f, {i}) = f[i]
  <2>1. Total(f, {} \cup {i}) = Total(f, {}) + f[i]
    <3>1. IsFiniteSet({}) /\ i \notin {} /\ \A y \in {} \cup {i} : f[y] \in Int
      BY <1>3, <1>7, FS_EmptySet
    <3> QED
      BY <3>1, TotalAdds
  <2>2. {} \cup {i} = {i}
    OBVIOUS
  <2> QED
    BY <1>3, <1>4, <1>7, <2>1, <2>2
<1>8. ASSUME 1 \in K, 2 \in K PROVE Total(f, {1, 2}) = f[1] + f[2]
  <2>1. IsFiniteSet({1})
    BY FS_Singleton
  <2>2. 2 \notin {1} /\ \A y \in {1} \cup {2} : f[y] \in Int
    BY <1>3, <1>8
  <2>3. Total(f, {1} \cup {2}) = Total(f, {1}) + f[2]
    <3> DEFINE S == {1}  x == 2
    <3>1. IsFiniteSet(S) /\ x \notin S /\ \A y \in S \cup {x} : f[y] \in Int
      BY <2>1, <2>2
    <3> HIDE DEF S, x
    <3>2. Total(f, S \cup {x}) = Total(f, S) + f[x]
      BY <3>1, TotalAdds
    <3> QED
      BY <3>2 DEF S, x
  <2>4. {1} \cup {2} = {1, 2}
    OBVIOUS
  <2> QED
    BY <1>7, <1>8, <2>3, <2>4
<1>9. Total(f, K) = Pending(adds, v) /\ Pending(adds, v) \in Int
  <2>1. CASE 1 \notin K /\ 2 \notin K
    <3>1. K = {}
      BY <1>6, <2>1
    <3> QED
      BY <1>4, <1>5, <2>1, <3>1 DEF Pending, AddOf
  <2>2. CASE 1 \in K /\ 2 \notin K
    <3>1. K = {1}
      BY <1>6, <2>2
    <3> QED
      BY <1>3, <1>5, <1>7, <2>2, <3>1 DEF Pending, AddOf
  <2>3. CASE 1 \notin K /\ 2 \in K
    <3>1. K = {2}
      BY <1>6, <2>3
    <3> QED
      BY <1>3, <1>5, <1>7, <2>3, <3>1 DEF Pending, AddOf
  <2>4. CASE 1 \in K /\ 2 \in K
    <3>1. K = {1, 2}
      BY <1>6, <2>4
    <3> QED
      BY <1>3, <1>5, <1>8, <2>4, <3>1 DEF Pending, AddOf
  <2> QED
    BY <2>1, <2>2, <2>3, <2>4
<1> QED
  BY <1>1, <1>9 DEF f, K

(* AddAll adds to every point what the additions have for it.              *)
LEMMA AddAllIs ==
    ASSUME NEW sums \in [LayoutPoints -> Int], NEW adds \in Seq(AddType), Len(adds) \in {1, 2}
    PROVE  /\ AddAll(sums, adds) \in [LayoutPoints -> Int]
           /\ \A v \in LayoutPoints : AddAll(sums, adds)[v] = sums[v] + Pending(adds, v)
<1>1. AddAll(sums, adds) = [v \in LayoutPoints |-> sums[v] + Pending(adds, v)]
  BY SumOf DEF AddAll
<1>2. \A v \in LayoutPoints : sums[v] + Pending(adds, v) \in Int
  <2> SUFFICES ASSUME NEW v \in LayoutPoints PROVE sums[v] + Pending(adds, v) \in Int
    OBVIOUS
  <2>1. Pending(adds, v) \in Int
    BY SumOf
  <2> QED
    BY <2>1
<1> QED
  BY <1>1, <1>2

(* A pull adds to one end or to both, a push to the head.                  *)
LEMMA AddsType ==
    ASSUME LayoutType, NEW at \in [LayoutPoints -> Int], NEW epoch \in Nat, NEW e \in EdgeIds,
           NEW v \in 0..Len(call.start)
    PROVE  AddsOf(at, epoch, e, v) \in Seq(AddType) /\ Len(AddsOf(at, epoch, e, v)) \in {1, 2}
<1> DEFINE h == edges[e].head  l == edges[e].tail
<1>1. h \in LayoutPoints /\ l \in LayoutPoints
  BY EdgeEnds
<1>2. Clip \in Int /\ call.epochs \in Int /\ LayoutPoints = 1..Len(call.start)
  <2>1. call \in LayoutCases
    BY DEF LayoutType
  <2>2. Clip \in Int
    BY <2>1, CallIs
  <2>3. call.epochs \in Int
    BY <2>1, CallIs
  <2>4. LayoutPoints = 1..Len(call.start)
    BY DEF LayoutPoints
  <2> QED
    BY <2>2, <2>3, <2>4
<1>3. Rate(epoch) \in Int
  BY <1>2 DEF Rate
<1>4. CASE v = 0
  <2> DEFINE g == Pull(at, e) * Rate(epoch)
  <2>1. Pull(at, e) \in Int
    BY <1>1, <1>2 DEF Pull, Between
  <2>2. g \in Int
    BY <1>3, <2>1
  <2>3. AddsOf(at, epoch, e, v) = <<[point |-> h, by |-> g]>> \o
             (IF Moves(l) THEN <<[point |-> l, by |-> -g]>> ELSE <<>>)
    BY <1>4 DEF AddsOf, PullAdds
  <2> HIDE DEF g, h, l
  <2> DEFINE a == [point |-> h, by |-> g]  b == [point |-> l, by |-> -g]
  <2>4. a \in AddType /\ b \in AddType
    BY <1>1, <2>2 DEF AddType
  <2>5. AddsOf(at, epoch, e, v) = <<a>> \o (IF Moves(l) THEN <<b>> ELSE <<>>)
    BY <2>3
  <2> HIDE DEF a, b
  <2> QED
    BY <2>4, <2>5
<1>5. CASE v # 0
  <2> DEFINE g == Push(at, e, v) * Rate(epoch)
  <2>1. v \in LayoutPoints
    BY <1>2, <1>5
  <2>2. Push(at, e, v) \in Int
    <3> DEFINE d == at[h] - at[v]
    <3>1. d \in Int
      <4>1. at[h] \in Int
        BY <1>1
      <4>2. at[v] \in Int
        BY <2>1
      <4> DEFINE a == at[h]  b == at[v]
      <4> HIDE DEF h
      <4>3. d = a - b /\ a \in Int /\ b \in Int
        BY <4>1, <4>2
      <4> HIDE DEF a, b, d
      <4> QED
        BY <4>3
    <3>2. Push(at, e, v) = Between(-1, d, 1)
      BY DEF Push
    <3> HIDE DEF d
    <3> QED
      BY <3>1, <3>2 DEF Between
  <2>3. g \in Int
    BY <1>3, <2>2
  <2>4. AddsOf(at, epoch, e, v) = <<[point |-> h, by |-> g]>>
    BY <1>5 DEF AddsOf, PushAdds
  <2> HIDE DEF g, h
  <2> DEFINE a == [point |-> h, by |-> g]
  <2>5. a \in AddType
    BY <1>1, <2>3 DEF AddType
  <2> HIDE DEF a
  <2> QED
    BY <2>4, <2>5 DEF a
<1> QED
  BY <1>4, <1>5

(* What a step of one thread leaves that may have computed or added. *)
LEMMA OneActs ==
    ASSUME LayoutType, ThreadsRight, Home, OnSchedule, NEW t \in Team, NEW q, Right(q, t),
           SameRounds(thread[t], q, t), q.at # "returned", thread[t].at # "returned",
           thread' = [thread EXCEPT ![t] = q], UNCHANGED <<call, edges, due, owed, drawn>>
    PROVE  /\ thread' \in [Team -> ThreadType] /\ \A s \in Team : Right(thread'[s], s)
           /\ thread'[t] = q /\ \A s \in Team : s # t => thread'[s] = thread[s]
           /\ Home' /\ OnSchedule'
<1>1. thread \in [Team -> ThreadType] /\ q \in ThreadType /\ \A s \in Team : Right(thread[s], s)
  BY DEF LayoutType, ThreadsRight, Right
<1>2. thread'[t] = q /\ \A s \in Team : s # t => thread'[s] = thread[s]
  BY <1>1
<1>3. thread' \in [Team -> ThreadType]
  BY <1>1
<1>4. \A s \in Team : SameRounds(thread[s], thread'[s], s)
  BY <1>2 DEF SameRounds
<1>5. OnSchedule'
  BY <1>4, KeptOnSchedule
<1>6. Home'
  <2>1. Team' = Team
    BY CallStays
  <2>2. \A s \in Team : thread[s].at # "returned"
    BY DEF Home
  <2> QED
    BY <1>2, <2>1, <2>2 DEF Home
<1> QED
  BY <1>1, <1>2, <1>3, <1>5, <1>6

(* A force passes no edge, and asks for exactly the additions that it      *)
(* leaves to the thread.                                                   *)
LEMMA ForceKept ==
    ASSUME LayoutType, ThreadsRight, Home, OnSchedule, NEW t \in Team, ComputeForce(t)
    PROVE  /\ UNCHANGED <<call, edges, coords, due, owed, drawn, opened>>
           /\ given' \in [LayoutPoints -> Int] /\ delta' \in [Team -> [LayoutPoints -> Int]]
           /\ thread' \in [Team -> ThreadType] /\ \A s \in Team : Right(thread'[s], s)
           /\ \A s \in Team : s # t => thread'[s] = thread[s]
           /\ Home' /\ OnSchedule'
           /\ Route \notin Summed =>
                 /\ thread[t].adds = <<>>
                 /\ \A v \in LayoutPoints : given'[v] = given[v] + Pending(thread'[t].adds, v)
<1> DEFINE r == thread[t]
           adds == AddsOf(coords, r.epoch, r.edge, Head(r.forces))
           last == Len(r.forces) = 1
           slot == IF Route = "shared" THEN 0 ELSE t
<1>1. r \in ThreadType /\ Right(r, t) /\ r.at = "force" /\ r.edge \in EdgeIds /\ r.forces # <<>> /\ r.adds = <<>>
  <2>1. r \in ThreadType /\ Right(r, t) /\ r.at = "force"
    BY TypeGives DEF ThreadsRight, ComputeForce
  <2> HIDE DEF r
  <2> QED
    BY <2>1 DEF Right
<1>2. UNCHANGED <<call, edges, coords, due, owed, drawn, opened>> /\ given' = AddAll(given, adds)
  BY DEF ComputeForce
<1>3. coords \in [LayoutPoints -> Int] /\ given \in [LayoutPoints -> Int] /\ delta \in [Team -> [LayoutPoints -> Int]]
  BY DEF LayoutType
<1>4. slot \in Team
  BY TypeGives
<1>5. /\ Route \in Summed =>
            /\ delta' = [delta EXCEPT ![slot] = AddAll(@, adds)]
            /\ thread' = [thread EXCEPT ![t].forces = Tail(@), ![t].at = IF last THEN "work" ELSE "force"]
      /\ Route \notin Summed =>
            /\ thread' = [thread EXCEPT ![t].forces = Tail(@), ![t].adds = adds, ![t].at = "load"]
            /\ delta' = delta
  BY DEF ComputeForce
<1>6. thread \in [Team -> ThreadType]
  BY DEF LayoutType
<1> DEFINE q1 == [r EXCEPT !.forces = Tail(@), !.at = IF last THEN "work" ELSE "force"]
           q2 == [r EXCEPT !.forces = Tail(@), !.adds = adds, !.at = "load"]
<1>7. /\ Route \in Summed => thread' = [thread EXCEPT ![t] = q1]
      /\ Route \notin Summed => thread' = [thread EXCEPT ![t] = q2]
  BY <1>5, <1>6
<1> HIDE DEF r
<1>8. /\ r.forces \in Seq(0..Len(call.start)) /\ Head(r.forces) \in 0..Len(call.start)
      /\ Tail(r.forces) \in Seq(0..Len(call.start)) /\ (~last => Tail(r.forces) # <<>>) /\ r.epoch \in Nat
  <2>1. r.forces \in Seq(0..Len(call.start)) /\ r.epoch \in 0..(call.epochs - 1)
    BY <1>1 DEF ThreadType
  <2> DEFINE f == r.forces  S == 0..Len(call.start)
  <2>2. f # <<>> /\ f \in Seq(S)
    BY <1>1, <2>1
  <2>3. last <=> Len(f) = 1
    OBVIOUS
  <2> HIDE DEF f, S, last
  <2>4. Head(f) \in S /\ Tail(f) \in Seq(S)
    BY <2>2
  <2>5. Len(f) # 1 => Tail(f) # <<>>
    <3>1. Len(f) \in Nat /\ Len(f) # 0
      BY <2>2
    <3>2. Len(Tail(f)) = Len(f) - 1
      BY <2>2, <3>1
    <3> QED
      BY <3>1, <3>2
  <2>6. r.epoch \in Nat
    BY <2>1, TypeGives
  <2> QED
    BY <2>2, <2>3, <2>4, <2>5, <2>6 DEF f, S
<1>9. adds \in Seq(AddType) /\ Len(adds) \in {1, 2}
  BY <1>1, <1>3, <1>8, AddsType
<1> HIDE DEF adds, slot, last
<1>10. AddAll(given, adds) \in [LayoutPoints -> Int] /\ AddAll(delta[slot], adds) \in [LayoutPoints -> Int]
       /\ \A v \in LayoutPoints : AddAll(given, adds)[v] = given[v] + Pending(adds, v)
  BY <1>3, <1>4, <1>9, AddAllIs
<1>11. delta' \in [Team -> [LayoutPoints -> Int]]
  BY <1>3, <1>4, <1>5, <1>10
<1>12. ASSUME Route \in Summed
       PROVE  /\ thread' \in [Team -> ThreadType] /\ \A s \in Team : Right(thread'[s], s)
              /\ \A s \in Team : s # t => thread'[s] = thread[s]
              /\ Home' /\ OnSchedule'
  <2>1. /\ q1 \in ThreadType /\ q1.at \in {"work", "force"} /\ (q1.at = "force" => ~last) /\ q1.left = r.left
        /\ q1.epoch = r.epoch /\ q1.batch = r.batch /\ q1.edge = r.edge /\ q1.adds = r.adds
        /\ q1.forces = Tail(r.forces)
    BY <1>1, <1>8 DEF ThreadType, Steps
  <2>2. thread' = [thread EXCEPT ![t] = q1]
    BY <1>7, <1>12
  <2> HIDE DEF q1
  <2>3. Right(q1, t)
    BY <1>1, <1>8, <2>1 DEF Right
  <2>4. SameRounds(thread[t], q1, t) /\ thread[t].at # "returned"
    BY <1>1, <2>1 DEF SameRounds, Rounds, r
  <2> QED
    BY <1>2, <2>1, <2>2, <2>3, <2>4, OneActs
<1>13. ASSUME Route \notin Summed
       PROVE  /\ thread' \in [Team -> ThreadType] /\ \A s \in Team : Right(thread'[s], s)
              /\ \A s \in Team : s # t => thread'[s] = thread[s]
              /\ Home' /\ OnSchedule' /\ thread'[t].adds = adds
  <2>1. /\ q2 \in ThreadType /\ q2.at = "load" /\ q2.left = r.left
        /\ q2.epoch = r.epoch /\ q2.batch = r.batch /\ q2.edge = r.edge /\ q2.adds = adds
    BY <1>1, <1>8, <1>9 DEF ThreadType, Steps
  <2>2. thread' = [thread EXCEPT ![t] = q2]
    BY <1>7, <1>13
  <2> HIDE DEF q2
  <2>3. Right(q2, t)
    BY <1>1, <1>9, <2>1 DEF Right
  <2>4. SameRounds(thread[t], q2, t) /\ thread[t].at # "returned"
    BY <1>1, <2>1 DEF SameRounds, Rounds, r
  <2> QED
    BY <1>2, <2>1, <2>2, <2>3, <2>4, OneActs
<1>14. given' \in [LayoutPoints -> Int] /\ (Route \notin Summed => 
          thread[t].adds = <<>> /\ \A v \in LayoutPoints : given'[v] = given[v] + Pending(thread'[t].adds, v))
  BY <1>1, <1>2, <1>10, <1>13 DEF r
<1> QED
  BY <1>2, <1>11, <1>12, <1>13, <1>14

(* A store passes no edge; where it is a compare-and-swap, what the        *)
(* coordinate gains the thread has no longer to add.                       *)
LEMMA StoreKept ==
    ASSUME LayoutType, ThreadsRight, Home, OnSchedule, NEW t \in Team, Store(t)
    PROVE  /\ UNCHANGED <<call, edges, due, owed, delta, opened, given, drawn>>
           /\ coords' \in [LayoutPoints -> Int]
           /\ thread' \in [Team -> ThreadType] /\ \A s \in Team : Right(thread'[s], s)
           /\ \A s \in Team : s # t => thread'[s] = thread[s]
           /\ Home' /\ OnSchedule'
           /\ Route \in Atomic => \A v \in LayoutPoints :
                 coords'[v] + Pending(thread'[t].adds, v) = coords[v] + Pending(thread[t].adds, v)
<1> DEFINE r == thread[t]
           a == Head(r.adds)
<1>1. r \in ThreadType /\ Right(r, t) /\ r.at = "store" /\ r.adds \in Seq(AddType) /\ Len(r.adds) \in {1, 2}
      /\ r.edge \in EdgeIds /\ r.old \in Int
  <2>1. r \in ThreadType /\ Right(r, t) /\ r.at = "store"
    BY TypeGives DEF ThreadsRight, Store
  <2> HIDE DEF r
  <2> QED
    BY <2>1 DEF Right, ThreadType
<1>2. UNCHANGED <<call, edges, due, owed, delta, opened, given, drawn>>
  BY DEF Store
<1>3. coords \in [LayoutPoints -> Int] /\ thread \in [Team -> ThreadType]
  BY DEF LayoutType
<1> DEFINE q1 == [r EXCEPT !.old = coords[a.point]]
           q2 == [r EXCEPT !.adds = Tail(@), !.old = 0,
                       !.at = IF Len(r.adds) > 1 THEN "load"
                              ELSE IF r.forces # <<>> THEN "force" ELSE "work"]
<1>4. /\ ~Lands(t) => thread' = [thread EXCEPT ![t].old = coords[a.point]] /\ coords' = coords
      /\ Lands(t) => /\ coords' = [coords EXCEPT ![a.point] = r.old + a.by]
                     /\ thread' = [thread EXCEPT ![t].adds = Tail(@), ![t].old = 0,
                           ![t].at = IF Len(r.adds) > 1 THEN "load"
                                     ELSE IF r.forces # <<>> THEN "force" ELSE "work"]
  BY DEF Store
<1>5. (~Lands(t) => thread' = [thread EXCEPT ![t] = q1]) /\ (Lands(t) => thread' = [thread EXCEPT ![t] = q2])
  BY <1>3, <1>4
<1>6. Lands(t) /\ Route \in Atomic => coords[a.point] = r.old
  BY DEF Lands
<1> HIDE DEF r
<1>7. a \in AddType /\ a.point \in LayoutPoints /\ a.by \in Int /\ a = r.adds[1] /\ coords[a.point] \in Int
  <2> DEFINE adds == r.adds
  <2> HIDE DEF adds
  <2>1. Head(adds) \in AddType /\ Head(adds) = adds[1]
    BY <1>1 DEF adds
  <2>2. a \in AddType /\ a = r.adds[1]
    BY <2>1 DEF adds
  <2> HIDE DEF a
  <2> QED
    BY <1>3, <2>2 DEF AddType
<1> HIDE DEF a
<1>8. CASE ~Lands(t)
  <2>1. /\ q1 \in ThreadType /\ q1.at = r.at /\ q1.left = r.left /\ q1.forces = r.forces
        /\ q1.epoch = r.epoch /\ q1.batch = r.batch /\ q1.edge = r.edge /\ q1.adds = r.adds
    BY <1>1, <1>7 DEF ThreadType
  <2>2. thread' = [thread EXCEPT ![t] = q1] /\ coords' = coords
    BY <1>4, <1>5, <1>8
  <2> HIDE DEF q1
  <2>3. Right(q1, t)
    BY <1>1, <2>1 DEF Right
  <2>4. SameRounds(thread[t], q1, t) /\ thread[t].at # "returned" /\ q1.at # "returned"
    BY <1>1, <2>1 DEF SameRounds, Rounds, r
  <2>5. /\ thread' \in [Team -> ThreadType] /\ \A s \in Team : Right(thread'[s], s)
        /\ thread'[t] = q1 /\ \A s \in Team : s # t => thread'[s] = thread[s]
        /\ Home' /\ OnSchedule'
    BY <1>2, <2>2, <2>3, <2>4, OneActs
  <2>6. thread'[t].adds = thread[t].adds
    BY <2>1, <2>5 DEF r
  <2> QED
    BY <1>2, <1>3, <2>2, <2>5, <2>6
<1>9. CASE Lands(t)
  <2> DEFINE adds == r.adds  rest == Tail(adds)
  <2>0. adds \in Seq(AddType) /\ Len(adds) \in {1, 2} /\ a = adds[1]
    BY <1>1, <1>7
  <2>1. rest \in Seq(AddType) /\ Len(rest) = Len(adds) - 1 /\ (Len(adds) = 1 => rest = <<>>)
        /\ (Len(adds) = 2 => rest[1] = adds[2])
    <3> HIDE DEF adds
    <3> QED
      BY <2>0
  <2>2. /\ q2 \in ThreadType /\ q2.left = r.left /\ q2.forces = r.forces
        /\ q2.epoch = r.epoch /\ q2.batch = r.batch /\ q2.edge = r.edge /\ q2.adds = rest
        /\ q2.at = IF Len(r.adds) > 1 THEN "load" ELSE IF r.forces # <<>> THEN "force" ELSE "work"
    <3> DEFINE to == IF Len(r.adds) > 1 THEN "load" ELSE IF r.forces # <<>> THEN "force" ELSE "work"
    <3>1. to \in Steps
      BY DEF Steps
    <3>2. q2 = [r EXCEPT !.adds = rest, !.old = 0, !.at = to]
      BY <1>1 DEF ThreadType
    <3> HIDE DEF to, rest, q2
    <3>3. /\ q2 \in ThreadType /\ q2.left = r.left /\ q2.forces = r.forces
          /\ q2.epoch = r.epoch /\ q2.batch = r.batch /\ q2.edge = r.edge /\ q2.adds = rest /\ q2.at = to
      <4>1. r \in ThreadType /\ rest \in Seq(AddType)
        BY <1>1, <2>1
      <4>2. /\ q2.at = to /\ q2.epoch = r.epoch /\ q2.batch = r.batch /\ q2.left = r.left /\ q2.edge = r.edge
            /\ q2.forces = r.forces /\ q2.adds = rest /\ q2.old = 0 /\ q2.gate = r.gate /\ q2.seen = r.seen
        BY <3>2, <4>1 DEF ThreadType
      <4>3. q2 = [at |-> to, epoch |-> r.epoch, batch |-> r.batch, left |-> r.left, edge |-> r.edge,
                  forces |-> r.forces, adds |-> rest, old |-> 0, gate |-> r.gate, seen |-> r.seen]
        BY <3>2, <4>1 DEF ThreadType
      <4>4. q2 \in ThreadType
        BY <3>1, <4>1, <4>3 DEF ThreadType
      <4> QED
        BY <4>2, <4>4
    <3> QED
      BY <3>3 DEF to
  <2>3. thread' = [thread EXCEPT ![t] = q2] /\ coords' = [coords EXCEPT ![a.point] = r.old + a.by]
    BY <1>4, <1>5, <1>9 DEF r
  <2> HIDE DEF q2, rest
  <2>4. Right(q2, t)
    <3>1. CASE Len(adds) = 2
      BY <1>1, <2>1, <2>2, <3>1 DEF Right
    <3>2. CASE Len(adds) = 1
      BY <1>1, <2>1, <2>2, <3>2 DEF Right
    <3> QED
      BY <2>0, <3>1, <3>2
  <2>5. SameRounds(thread[t], q2, t) /\ thread[t].at # "returned" /\ q2.at # "returned"
    BY <1>1, <2>2 DEF SameRounds, Rounds, r
  <2>6. /\ thread' \in [Team -> ThreadType] /\ \A s \in Team : Right(thread'[s], s)
        /\ thread'[t] = q2 /\ \A s \in Team : s # t => thread'[s] = thread[s]
        /\ Home' /\ OnSchedule'
    BY <1>2, <2>3, <2>4, <2>5, OneActs
  <2>7. coords' \in [LayoutPoints -> Int]
    BY <1>1, <1>3, <1>7, <2>3
  <2> HIDE DEF adds
  <2>8. ASSUME Route \in Atomic, NEW v \in LayoutPoints
        PROVE  coords'[v] + Pending(rest, v) = coords[v] + Pending(adds, v)
    <3>1. coords'[v] = coords[v] + AddOf(a, v)
      BY <1>3, <1>6, <1>7, <1>9, <2>3, <2>8 DEF AddOf
    <3>2. \A i \in 1..Len(adds) : AddOf(adds[i], v) \in Int
      <4>1. \A i \in 1..Len(adds) : adds[i] \in AddType
        BY <2>0
      <4> QED
        BY <4>1 DEF AddOf, AddType
    <3>3. Pending(adds, v) = AddOf(a, v) + Pending(rest, v) /\ Pending(rest, v) \in Int /\ AddOf(a, v) \in Int
      <4>1. CASE Len(adds) = 1
        BY <2>0, <2>1, <3>2, <4>1 DEF Pending
      <4>2. CASE Len(adds) = 2
        BY <2>0, <2>1, <3>2, <4>2 DEF Pending
      <4> QED
        BY <2>0, <4>1, <4>2
    <3>4. coords[v] \in Int
      BY <1>3
    <3> QED
      BY <3>1, <3>3, <3>4
  <2>9. thread'[t].adds = rest /\ thread[t].adds = adds
    BY <2>2, <2>6 DEF r, adds
  <2> QED
    BY <1>2, <2>6, <2>7, <2>8, <2>9
<1> QED
  BY <1>8, <1>9

(* Atomic additions: what has been added and what has still to be added    *)
(* make up what pulls and pushes asked for.                                *)
Balanced ==
    Route \in Atomic \ {"replay"} =>
        \A v \in LayoutPoints :
            coords[v] + SumFunction([t \in Team |-> Pending(thread[t].adds, v)]) = call.start[v] + given[v]
ThreadIInv == LayoutType /\ ThreadsRight /\ Home /\ OnSchedule

(* What a thread has still to add is an integer.                           *)
LEMMA PendingType == ASSUME NEW r, NEW t, Right(r, t), NEW v PROVE Pending(r.adds, v) \in Int
<1> DEFINE adds == r.adds
<1>1. adds \in Seq(AddType) /\ (adds = <<>> \/ Len(adds) \in {1, 2})
  BY DEF Right, ThreadType
<1> HIDE DEF adds
<1>2. CASE adds = <<>>
  BY <1>2 DEF Pending, adds
<1>3. CASE Len(adds) \in {1, 2}
  BY <1>1, <1>3, SumOf DEF adds
<1> QED
  BY <1>1, <1>2, <1>3

(* The invariant holds when the threads start.                             *)
LEMMA InitThreadIInv == ASSUME LayoutInit PROVE ThreadIInv /\ Balanced
<1>1. call \in LayoutCases /\ edges = LoopEdges(call)
  BY DEF LayoutInit
<1>2. /\ call.epochs \in Nat \ {0} /\ call.start \in Seq(Int) /\ LayoutPoints = 1..Len(call.start) /\ IsFiniteSet(Team)
      /\ 0 \in BatchIds /\ Len(edges) \in Nat /\ EdgeIds = 1..Len(edges) /\ call.rate \in Nat
      /\ FirstStep \in {"clear", "work"} /\ BatchIds \subseteq Nat /\ Batches \in Nat \ {0}
  BY <1>1, CallIs, EdgesRight, BatchesIs DEF LayoutPoints, FirstStep, BatchIds
<1>3. coords \in [LayoutPoints -> Int] /\ given = [v \in LayoutPoints |-> 0] /\ coords = call.start
  <2> DEFINE s == call.start
  <2>1. s \in [1..Len(s) -> Int]
    <3> HIDE DEF s
    <3>1. s \in Seq(Int)
      BY <1>2 DEF s
    <3> QED
      BY <3>1
  <2> QED
    BY <1>2, <2>1 DEF LayoutInit, Nothing
<1>4. \A t \in Team : Stripe(t, 0) \subseteq EdgeIds
  BY <1>1, <1>2, StripesShare
<1>5. ASSUME NEW t \in Team
      PROVE  /\ Right(thread[t], t) /\ thread[t].at # "returned" /\ thread[t].adds = <<>>
             /\ thread[t].epoch = 0 /\ thread[t].batch = 0 /\ thread[t].left = Stripe(t, 0)
  <2> DEFINE r == thread[t]
  <2>1. r = [at |-> FirstStep, epoch |-> 0, batch |-> 0, left |-> Stripe(t, 0), edge |-> 0,
           forces |-> <<>>, adds |-> <<>>, old |-> 0, gate |-> 1, seen |-> 0]
    BY DEF LayoutInit
  <2> HIDE DEF r
  <2>2. /\ r.at \in {"clear", "work"} /\ r.adds = <<>>
        /\ r.epoch = 0 /\ r.batch = 0 /\ r.left = Stripe(t, 0)
    BY <1>2, <2>1
  <2>3. r \in ThreadType
    <3>1. 0 \in 0..(call.epochs - 1) /\ 0 \in 0..Len(edges)
      BY <1>2
    <3> QED
      BY <1>2, <1>4, <2>1, <3>1 DEF ThreadType, Steps
  <2>4. Right(r, t)
    BY <2>2, <2>3 DEF Right
  <2> QED
    BY <2>2, <2>4 DEF r
<1>6. thread \in [Team -> ThreadType]
  <2>1. thread = [t \in Team |-> thread[t]]
    BY DEF LayoutInit
  <2> QED
    BY <1>5, <2>1 DEF Right
<1>7. delta \in [Team -> [LayoutPoints -> Int]] /\ opened \in Nat
  BY DEF LayoutInit, Nothing
<1>8. due \in [EdgeIds -> Int] /\ owed \in [EdgeIds -> Int] /\ drawn \in [EdgeIds -> [pulls : Int, pushes : Int]]
  <2>1. \A e \in EdgeIds : edges[e].period \in Int
    BY <1>1, EdgesRight DEF EdgeType
  <2>2. due \in [EdgeIds -> Int]
    BY <2>1 DEF LayoutInit
  <2>3. ASSUME NEW e \in EdgeIds PROVE (IF call.rate = 0 THEN 0 ELSE NegativePeriod(e)) \in Int
    <3>1. CASE call.rate = 0
      BY <3>1
    <3>2. CASE call.rate # 0
      <4>1. edges[e].period \in Int /\ call.rate \in Nat \ {0}
        BY <1>2, <2>1, <3>2
      <4> QED
        BY <3>2, <4>1 DEF NegativePeriod
    <3> QED
      BY <3>1, <3>2
  <2>4. owed \in [EdgeIds -> Int]
    BY <2>3 DEF LayoutInit
  <2>5. drawn \in [EdgeIds -> [pulls : Int, pushes : Int]]
    BY DEF LayoutInit
  <2> QED
    BY <2>2, <2>4, <2>5
<1>9. LayoutType
  BY <1>1, <1>3, <1>6, <1>7, <1>8 DEF LayoutType
<1>10. ThreadsRight /\ Home
  BY <1>5 DEF ThreadsRight, Home
<1>11. OnSchedule
  <2> SUFFICES ASSUME NEW t \in Team, NEW b \in BatchIds, NEW e \in Stripe(t, b), NEW n \in Nat, n = Rounds(thread[t], b, e)
               PROVE  Scheduled(e, n)
    BY DEF OnSchedule
  <2>1. n = 0
    <3>1. b \in Nat
      BY <1>2
    <3> QED
      BY <1>5, <3>1 DEF Rounds
  <2>2. e \in EdgeIds
    BY <1>1, StripesShare
  <2>3. edges[e].period \in Nat /\ (call.rate > 0 => NegativePeriod(e) \in Nat)
    BY <1>9, <2>2, EdgeGives
  <2>4. PulledBy(0, e) = 0 /\ PushedBy(0, e) = 0
    BY DEF PulledBy, PushedBy
  <2>5. drawn[e].pulls = 0 /\ drawn[e].pushes = 0 /\ due[e] = edges[e].period
        /\ owed[e] = IF call.rate = 0 THEN 0 ELSE NegativePeriod(e)
    BY <2>2 DEF LayoutInit
  <2>6. due[e] = (0 + 1) * edges[e].period
    BY <2>3, <2>5
  <2>7. call.rate > 0 => owed[e] = NegativePeriod(e) + 0 * NegativePeriod(e)
    BY <2>3, <2>5
  <2> QED
    BY <2>1, <2>4, <2>5, <2>6, <2>7 DEF Scheduled
<1>12. Balanced
  <2> SUFFICES ASSUME NEW v \in LayoutPoints
               PROVE  coords[v] + SumFunction([t \in Team |-> Pending(thread[t].adds, v)]) = call.start[v] + given[v]
    BY DEF Balanced
  <2> DEFINE f == [t \in Team |-> Pending(thread[t].adds, v)]
  <2>1. \A t \in Team : f[t] = 0
    BY <1>5 DEF Pending
  <2>2. SumFunction(f) = Total(f, Team)
    BY DEF SumFunction, Total
  <2> HIDE DEF f
  <2>3. Total(f, Team) = 0
    BY <1>2, <2>1, TotalZero
  <2> QED
    BY <1>3, <2>2, <2>3 DEF f
<1> QED
  BY <1>9, <1>10, <1>11, <1>12 DEF ThreadIInv

CoordsStay == coords' \in [LayoutPoints -> Int] /\ delta' \in [Team -> [LayoutPoints -> Int]]
          /\ (Route \in Atomic \ {"replay"} => coords' = coords)

(* The sums of the threads are integers.                                   *)
LEMMA SumsType == ASSUME LayoutType, NEW v \in LayoutPoints PROVE SumFunction([t \in Team |-> delta[t][v]]) \in Int
<1> DEFINE f == [t \in Team |-> delta[t][v]]
<1>1. \A t \in Team : f[t] \in Int
  BY DEF LayoutType
<1>2. SumFunction(f) = Total(f, Team)
  BY DEF SumFunction, Total
<1> HIDE DEF f
<1>3. Total(f, Team) \in Int
  BY <1>1, TypeGives, TotalType
<1> QED
  BY <1>2, <1>3 DEF f

(* The steps that pass no edge and ask for no addition leave the           *)
(* coordinates of the atomic routes alone.                                 *)
LEMMA QuietPlaces ==
    ASSUME ThreadIInv, NEW t \in Team,
           Clear(t) \/ EndStripe(t) \/ Load(t) \/ Arrive(t) \/ Awake(t) \/ WakeAnyway(t) \/ Fail(t)
           \/ Merge \/ JoinEpoch \/ JoinTeam
    PROVE  AllKept /\ CoordsStay
<1>1. LayoutType /\ ThreadsRight /\ Home
  BY DEF ThreadIInv
<1>2. /\ coords \in [LayoutPoints -> Int] /\ delta \in [Team -> [LayoutPoints -> Int]]
      /\ Nothing \in [LayoutPoints -> Int]
  BY <1>1 DEF LayoutType, Nothing
<1>3. AllKept
  BY <1>1, ClearKept, EndStripeKept, LoadKept, ArriveKept, AwakeKept, WakeAnywayKept, FailKept, MergeKept,
     JoinEpochKept, JoinTeamKept
<1>4. CASE Clear(t)
  <2>1. delta' \in [Team -> [LayoutPoints -> Int]] /\ coords' = coords
    BY <1>2, <1>4 DEF Clear
  <2> QED
    BY <1>2, <1>3, <2>1 DEF CoordsStay
<1>5. CASE EndStripe(t) \/ Load(t) \/ Arrive(t) \/ Awake(t) \/ WakeAnyway(t) \/ Fail(t) \/ JoinTeam
  <2>1. UNCHANGED <<coords, delta>>
    BY <1>5 DEF EndStripe, Load, Arrive, Awake, WakeAnyway, Fail, JoinTeam
  <2> QED
    BY <1>2, <1>3, <2>1 DEF CoordsStay
<1>6. CASE Merge
  <2>1. Route = "merged"
    BY <1>1, <1>6, TypeGives DEF Merge, ThreadsRight, Right
  <2>2. coords' = [v \in LayoutPoints |-> coords[v] + SumFunction([s \in Team |-> delta[s][v]])] /\ delta' = delta
    BY <1>6 DEF Merge
  <2>3. ASSUME NEW v \in LayoutPoints PROVE coords[v] + SumFunction([s \in Team |-> delta[s][v]]) \in Int
    <3>1. SumFunction([s \in Team |-> delta[s][v]]) \in Int
      BY <1>1, SumsType
    <3> QED
      BY <1>2, <3>1
  <2>4. coords' \in [LayoutPoints -> Int]
    BY <2>2, <2>3
  <2> QED
    BY <1>2, <1>3, <2>1, <2>2, <2>4 DEF CoordsStay, Atomic
<1>7. CASE JoinEpoch
  <2>1. CASE Failed
    <3>1. UNCHANGED <<coords, delta>>
      BY <1>7, <2>1 DEF JoinEpoch
    <3> QED
      BY <1>2, <1>3, <3>1 DEF CoordsStay
  <2>2. CASE ~Failed
    <3>1. coords' = (CASE Route = "shared" ->
                                [v \in LayoutPoints |-> coords[v] + Between(-Bound, delta[0][v], Bound)]
                           [] Route = "replay" ->
                                [v \in LayoutPoints |-> Between(-Bound, coords[v], Bound)]
                           [] OTHER -> coords)
          /\ delta' = [s \in Team |-> Nothing] /\ Route \in Joined
      BY <1>7, <2>2 DEF JoinEpoch
    <3>2. delta' \in [Team -> [LayoutPoints -> Int]]
      BY <1>2, <3>1
    <3>3. Bound \in Int /\ 0 \in Team
      BY <1>1, CallIs DEF LayoutType
    <3>4. ASSUME NEW v \in LayoutPoints
          PROVE  coords[v] + Between(-Bound, delta[0][v], Bound) \in Int /\ Between(-Bound, coords[v], Bound) \in Int
      BY <1>2, <3>3 DEF Between
    <3>5. CASE Route = "shared"
      BY <1>3, <3>1, <3>2, <3>4, <3>5 DEF CoordsStay, Atomic
    <3>6. CASE Route = "replay"
      BY <1>3, <3>1, <3>2, <3>4, <3>6 DEF CoordsStay, Atomic
    <3>7. CASE Route \notin {"shared", "replay"}
      BY <1>2, <1>3, <3>1, <3>2, <3>7 DEF CoordsStay
    <3> QED
      BY <3>5, <3>6, <3>7
  <2> QED
    BY <2>1, <2>2
<1> QED
  BY <1>4, <1>5, <1>6, <1>7

(* Such a step keeps the invariant.                                        *)
LEMMA QuietStep ==
    ASSUME ThreadIInv, Balanced, AllKept, CoordsStay
    PROVE  ThreadIInv' /\ Balanced'
<1>1. LayoutType /\ ThreadsRight /\ Home /\ OnSchedule
  BY DEF ThreadIInv
<1>2. /\ call' = call /\ edges' = edges /\ due' = due /\ owed' = owed /\ given' = given /\ drawn' = drawn
      /\ opened' \in Nat /\ thread' \in [Team -> ThreadType]
      /\ \A t \in Team : Right(thread'[t], t) /\ SameRounds(thread[t], thread'[t], t)
                         /\ thread'[t].adds = thread[t].adds
      /\ Home'
  BY DEF AllKept
<1>3. /\ Route' = Route /\ Team' = Team /\ EdgeIds' = EdgeIds /\ LayoutPoints' = LayoutPoints
      /\ ThreadType' = ThreadType /\ \A r, t : Right(r, t)' <=> Right(r, t)
  BY <1>2, CallStays
<1>4. LayoutType'
  <2>1. LoopEdges(call)' = LoopEdges(call)
    BY <1>2 DEF LoopEdges
  <2> QED
    BY <1>1, <1>2, <1>3, <2>1 DEF LayoutType, CoordsStay
<1>5. ThreadsRight'
  BY <1>2, <1>3 DEF ThreadsRight
<1>6. OnSchedule'
  BY <1>1, <1>2, KeptOnSchedule
<1>7. Balanced'
  <2> SUFFICES ASSUME Route \in Atomic \ {"replay"}, NEW v \in LayoutPoints
               PROVE  coords'[v] + SumFunction([t \in Team |-> Pending(thread'[t].adds, v)]) = call.start[v] + given[v]
    BY <1>2, <1>3 DEF Balanced, Pending, AddOf
  <2>1. [t \in Team |-> Pending(thread'[t].adds, v)] = [t \in Team |-> Pending(thread[t].adds, v)]
    BY <1>2
  <2>2. coords' = coords
    BY DEF CoordsStay
  <2> QED
    BY <2>1, <2>2 DEF Balanced
<1> QED
  BY <1>2, <1>4, <1>5, <1>6, <1>7 DEF ThreadIInv

(* A step that changes what is pending of one thread alone.                *)
LEMMA PendingStep ==
    ASSUME LayoutType, ThreadsRight, NEW t \in Team, NEW v,
           \A s \in Team : s # t => thread'[s] = thread[s],
           \A s \in Team : Right(thread'[s], s)
    PROVE  /\ SumFunction([s \in Team |-> Pending(thread'[s].adds, v)]) =
              SumFunction([s \in Team |-> Pending(thread[s].adds, v)])
              + Pending(thread'[t].adds, v) - Pending(thread[t].adds, v)
           /\ SumFunction([s \in Team |-> Pending(thread[s].adds, v)]) \in Int
<1> DEFINE f == [s \in Team |-> Pending(thread[s].adds, v)]
           g == [s \in Team |-> Pending(thread'[s].adds, v)]
<1>1. SumFunction(f) = Total(f, Team) /\ SumFunction(g) = Total(g, Team)
  BY DEF SumFunction, Total
<1>2. \A s \in Team : f[s] \in Int /\ g[s] \in Int /\ (s # t => f[s] = g[s])
  BY PendingType DEF ThreadsRight
<1>3. f[t] = Pending(thread[t].adds, v) /\ g[t] = Pending(thread'[t].adds, v)
  OBVIOUS
<1>4. IsFiniteSet(Team)
  BY TypeGives
<1> HIDE DEF f, g
<1>5. Total(g, Team) = Total(f, Team) + g[t] - f[t]
  BY <1>2, <1>4, TotalChange
<1>6. Total(f, Team) \in Int
  BY <1>2, <1>4, TotalType
<1> QED
  BY <1>1, <1>3, <1>5, <1>6 DEF f, g

(* A step that takes an edge, computes a force or stores a coordinate keeps*)
(* the invariant.                                                          *)
LEMMA WorkStep ==
    ASSUME ThreadIInv, Balanced, NEW t \in Team, NextEdge(t) \/ ComputeForce(t) \/ Store(t)
    PROVE  ThreadIInv' /\ Balanced'
<1>1. LayoutType /\ ThreadsRight /\ Home /\ OnSchedule
  BY DEF ThreadIInv
<1>2. /\ call' = call /\ edges' = edges /\ opened' = opened
      /\ thread' \in [Team -> ThreadType] /\ \A s \in Team : Right(thread'[s], s)
      /\ Home' /\ OnSchedule'
  BY <1>1, NextEdgeKept, ForceKept, StoreKept
<1>3. /\ coords' \in [LayoutPoints -> Int] /\ given' \in [LayoutPoints -> Int]
      /\ delta' \in [Team -> [LayoutPoints -> Int]] /\ due' \in [EdgeIds -> Int] /\ owed' \in [EdgeIds -> Int]
      /\ drawn' \in [EdgeIds -> [pulls : Int, pushes : Int]]
  <2>1. /\ coords \in [LayoutPoints -> Int] /\ given \in [LayoutPoints -> Int]
        /\ delta \in [Team -> [LayoutPoints -> Int]] /\ due \in [EdgeIds -> Int] /\ owed \in [EdgeIds -> Int]
        /\ drawn \in [EdgeIds -> [pulls : Int, pushes : Int]]
    BY <1>1 DEF LayoutType
  <2>2. CASE NextEdge(t)
    BY <1>1, <2>1, <2>2, NextEdgeKept
  <2>3. CASE ComputeForce(t)
    BY <1>1, <2>1, <2>3, ForceKept
  <2>4. CASE Store(t)
    BY <1>1, <2>1, <2>4, StoreKept
  <2> QED
    BY <2>2, <2>3, <2>4
<1>4. /\ Route' = Route /\ Team' = Team /\ EdgeIds' = EdgeIds /\ LayoutPoints' = LayoutPoints
      /\ ThreadType' = ThreadType /\ \A r, s : Right(r, s)' <=> Right(r, s)
  BY <1>2, CallStays
<1>5. LayoutType'
  <2>1. LoopEdges(call)' = LoopEdges(call)
    BY <1>2 DEF LoopEdges
  <2> QED
    BY <1>1, <1>2, <1>3, <1>4, <2>1 DEF LayoutType
<1>6. ThreadsRight'
  BY <1>2, <1>4 DEF ThreadsRight
<1>7. ASSUME Route \in Atomic \ {"replay"}, NEW v \in LayoutPoints
      PROVE  coords'[v] + SumFunction([s \in Team |-> Pending(thread'[s].adds, v)]) = call.start[v] + given'[v]
  <2> DEFINE old == SumFunction([s \in Team |-> Pending(thread[s].adds, v)])
             new == SumFunction([s \in Team |-> Pending(thread'[s].adds, v)])
             mine == Pending(thread[t].adds, v)
             next == Pending(thread'[t].adds, v)
  <2>1. coords[v] + old = call.start[v] + given[v] /\ Route \notin Summed
    BY <1>7 DEF Balanced, Atomic, Summed
  <2>2. coords[v] \in Int /\ coords'[v] \in Int /\ given[v] \in Int /\ given'[v] \in Int /\ call.start[v] \in Int
    <3>1. call.start[v] \in Int
      <4>1. call.start \in Seq(Int) /\ LayoutPoints = 1..Len(call.start)
        BY <1>1, CallIs DEF LayoutType, LayoutPoints
      <4> QED
        BY <4>1
    <3> QED
      BY <1>1, <1>3, <3>1 DEF LayoutType
  <2>3. mine \in Int /\ next \in Int
    BY <1>1, <1>2, PendingType DEF ThreadsRight
  <2>4. CASE NextEdge(t)
    <3>1. UNCHANGED <<coords, given>> /\ \A s \in Team : thread'[s].adds = thread[s].adds
      BY <1>1, <2>4, NextEdgeKept
    <3>2. [s \in Team |-> Pending(thread'[s].adds, v)] = [s \in Team |-> Pending(thread[s].adds, v)]
      BY <3>1
    <3> QED
      BY <2>1, <3>1, <3>2
  <2>5. ASSUME ComputeForce(t) \/ Store(t) PROVE new = old + next - mine /\ old \in Int
    <3>1. \A s \in Team : s # t => thread'[s] = thread[s]
      BY <1>1, <2>5, ForceKept, StoreKept
    <3> QED
      BY <1>1, <1>2, <3>1, PendingStep
  <2>6. CASE ComputeForce(t)
    <3>1. coords' = coords /\ thread[t].adds = <<>> /\ given'[v] = given[v] + next
      BY <1>1, <2>1, <2>6, ForceKept
    <3>2. mine = 0
      BY <3>1 DEF Pending
    <3>3. new = old + next - mine /\ old \in Int
      BY <2>5, <2>6
    <3> HIDE DEF old, new, mine, next
    <3> DEFINE c == coords[v]  s0 == call.start[v]  g == given[v]
    <3>5. /\ c \in Int /\ s0 \in Int /\ g \in Int /\ next \in Int /\ old \in Int
          /\ c + old = s0 + g /\ new = old + next - 0
      BY <2>1, <2>2, <2>3, <3>2, <3>3
    <3> HIDE DEF c, s0, g
    <3>6. c + new = s0 + (g + next)
      BY <3>5
    <3>4. coords'[v] + new = call.start[v] + given'[v]
      BY <3>1, <3>6 DEF c, s0, g
    <3> QED
      BY <3>4 DEF new
  <2>7. CASE Store(t)
    <3>1. given' = given /\ coords'[v] + next = coords[v] + mine
      BY <1>1, <1>7, <2>7, StoreKept
    <3>3. new = old + next - mine /\ old \in Int
      BY <2>5, <2>7
    <3> HIDE DEF old, new, mine, next
    <3>4. coords'[v] + new = call.start[v] + given'[v]
      BY <2>1, <2>2, <2>3, <3>1, <3>3
    <3> QED
      BY <3>4 DEF new
  <2> QED
    BY <2>4, <2>6, <2>7
<1>8. Balanced'
  BY <1>2, <1>4, <1>7 DEF Balanced, Pending, AddOf
<1> QED
  BY <1>2, <1>5, <1>6, <1>8 DEF ThreadIInv

(* Every step of a layout keeps the invariant.                             *)
LEMMA ThreadStep == ASSUME ThreadIInv, Balanced, [LayoutNext]_layoutVars PROVE ThreadIInv' /\ Balanced'
<1>1. CASE UNCHANGED layoutVars
  <2>1. /\ call' = call /\ edges' = edges /\ coords' = coords /\ due' = due /\ owed' = owed /\ delta' = delta
        /\ thread' = thread /\ opened' = opened /\ given' = given /\ drawn' = drawn
    BY <1>1 DEF layoutVars
  <2>2. AllKept /\ CoordsStay
    <3>1. /\ Team' = Team /\ \A t \in Team : SameRounds(thread[t], thread[t], t)
      BY <2>1, CallStays DEF SameRounds
    <3>2. Home'
      BY <2>1, <3>1 DEF Home, ThreadIInv
    <3> QED
      BY <2>1, <3>1, <3>2 DEF AllKept, CoordsStay, ThreadIInv, LayoutType, ThreadsRight
  <2> QED
    BY <2>2, QuietStep
<1>2. ASSUME NEW t \in Team, LayoutThread(t) \/ WakeAnyway(t) \/ Fail(t) PROVE ThreadIInv' /\ Balanced'
  <2>1. CASE Clear(t) \/ EndStripe(t) \/ Load(t) \/ Arrive(t) \/ Awake(t) \/ WakeAnyway(t) \/ Fail(t)
             \/ Merge \/ JoinEpoch \/ JoinTeam
    BY <2>1, QuietPlaces, QuietStep
  <2>2. CASE NextEdge(t) \/ ComputeForce(t) \/ Store(t)
    BY <2>2, WorkStep
  <2> QED
    BY <1>2, <2>1, <2>2 DEF LayoutThread
<1> QED
  BY <1>1, <1>2 DEF LayoutNext

(* For any number of threads, epochs, batches and edges, on all eight      *)
(* routes: every thread has as much left of its stripe as it should, no    *)
(* thread is home before all are, every edge has been pulled and pushed    *)
(* exactly as often as the schedule says for the epochs its thread has     *)
(* passed it in, and, where coordinates change by compare-and-swap alone,  *)
(* every coordinate together with the additions the threads still hold for *)
(* it is the start and all that was asked for.                             *)
THEOREM LayoutThreadsInvariant == LayoutSpec => [](ThreadIInv /\ Balanced)
<1>1. LayoutInit => ThreadIInv /\ Balanced
  BY InitThreadIInv
<1>2. ThreadIInv /\ Balanced /\ [LayoutNext]_layoutVars => (ThreadIInv /\ Balanced)'
  BY ThreadStep
<1> QED
  BY <1>1, <1>2, PTL DEF LayoutSpec

(* When one thread has returned all have, with nothing left to add and     *)
(* every edge passed.                                                      *)
LEMMA AllHome ==
    ASSUME ThreadIInv, thread[0].at = "returned"
    PROVE  \A t \in Team : /\ thread[t].at = "returned" /\ thread[t].adds = <<>> /\ thread[t].left = {}
                           /\ thread[t].epoch = call.epochs - 1 /\ thread[t].batch = Batches - 1
BY TypeGives DEF ThreadIInv, Home, ThreadsRight, Right

(* NothingLost, for any number of threads: however the loads and swaps of  *)
(* atomic_add_float interleave, and however often a swap fails, no addition*)
(* to a coordinate is lost or made twice.                                  *)
THEOREM AdditionsLand == LayoutSpec => []NothingLost
<1>1. ASSUME ThreadIInv, Balanced PROVE NothingLost
  <2> SUFFICES ASSUME Route \in Atomic \ {"replay"}, thread[0].at = "returned", NEW v \in LayoutPoints
               PROVE  coords[v] = call.start[v] + given[v]
    BY DEF NothingLost
  <2> DEFINE f == [t \in Team |-> Pending(thread[t].adds, v)]
  <2>1. \A t \in Team : f[t] = 0
    BY <1>1, AllHome DEF Pending
  <2>2. SumFunction(f) = Total(f, Team) /\ IsFiniteSet(Team) /\ coords[v] \in Int
    BY <1>1, TypeGives DEF SumFunction, Total, ThreadIInv, LayoutType
  <2>3. coords[v] + SumFunction(f) = call.start[v] + given[v]
    BY <1>1 DEF Balanced
  <2> HIDE DEF f
  <2>4. Total(f, Team) = 0
    BY <2>1, <2>2, TotalZero
  <2> QED
    BY <2>2, <2>3, <2>4
<1> QED
  BY <1>1, LayoutThreadsInvariant, PTL

(* ScheduleKept, for any number of threads and epochs and any periods: each*)
(* edge is taken by exactly one thread in every epoch, and the two ways to *)
(* keep the schedule, the times of optimize_layout_csr and the counts of   *)
(* massive_umap_negative_count, come to the same pulls and pushes.         *)
THEOREM SamplesOnSchedule == LayoutSpec => []ScheduleKept
<1>1. ASSUME ThreadIInv PROVE ScheduleKept
  <2> SUFFICES ASSUME Route # "sampled", thread[0].at = "returned", NEW e \in EdgeIds
               PROVE  LET pulls == Whole(call.epochs - 1, e)
                      IN  /\ drawn[e].pulls = pulls
                          /\ drawn[e].pushes = IF pulls = 0 \/ call.rate = 0 THEN 0 ELSE Pushes(EpochOf(pulls, e), e)
    BY DEF ScheduleKept
  <2>1. PICK t \in Team, b \in BatchIds : e \in Stripe(t, b)
    BY <1>1, StripesShare DEF ThreadIInv, LayoutType, Owned
  <2>2. call.epochs \in Nat \ {0} /\ BatchIds = 0..(Batches - 1) /\ Batches \in Nat \ {0}
    BY <1>1, TypeGives DEF ThreadIInv
  <2>3. thread[t].epoch = call.epochs - 1 /\ thread[t].batch = Batches - 1 /\ thread[t].left = {}
    BY <1>1, AllHome
  <2>4. Rounds(thread[t], b, e) = call.epochs
    <3>1. b \in Int /\ b <= Batches - 1
      BY <2>2
    <3>2. CASE b = Batches - 1
      BY <2>2, <2>3, <3>2 DEF Rounds
    <3>3. CASE b < Batches - 1
      BY <2>2, <2>3, <3>3 DEF Rounds
    <3> QED
      BY <2>2, <3>1, <3>2, <3>3
  <2>5. Scheduled(e, call.epochs)
    BY <1>1, <2>1, <2>2, <2>4 DEF ThreadIInv, OnSchedule
  <2> QED
    BY <2>2, <2>5 DEF Scheduled, PulledBy, PushedBy
<1> QED
  BY <1>1, LayoutThreadsInvariant, PTL

(* AdditionsKept, for any number of threads, epochs, points and edges, and *)
(* any periods: what the two theorems above say, together.                 *)
THEOREM LayoutOwesNothing == LayoutSpec => []AdditionsKept
<1>1. NothingLost /\ ScheduleKept => AdditionsKept
  BY DEF AdditionsKept
<1> QED
  BY <1>1, AdditionsLand, SamplesOnSchedule, PTL

-----------------------------------------------------------------------------
(* The sums of a batch. Where sums are added later, a thread's own sums, or *)
(* the sums all threads share, are what the threads have done of their     *)
(* stripes less what they still have in hand, and the barriers keep thread *)
(* 0 from adding them before every stripe is done.                         *)

(* The same, with a name for the larger set.                               *)
LEMMA TotalGrows ==
    ASSUME NEW S, IsFiniteSet(S), NEW f, NEW x, x \notin S, NEW T, T = S \cup {x}, \A y \in T : f[y] \in Int
    PROVE  Total(f, T) = Total(f, S) + f[x] /\ Total(f, S) \in Int
<1>1. \A y \in S : f[y] \in Int
  OBVIOUS
<1> QED
  BY <1>1, TotalAdds, TotalType

(* One place more.                                                         *)
LEMMA TotalNext ==
    ASSUME NEW n \in Nat, NEW f, \A i \in 1..(n + 1) : f[i] \in Int
    PROVE  Total(f, 1..(n + 1)) = Total(f, 1..n) + f[n + 1]
<1> DEFINE S == 1..n  x == n + 1
<1>1. 1..(n + 1) = S \cup {x} /\ x \notin S
  OBVIOUS
<1>2. IsFiniteSet(S)
  BY FirstNumbers
<1>3. \A y \in S \cup {x} : f[y] \in Int
  OBVIOUS
<1> HIDE DEF S, x
<1>4. Total(f, S \cup {x}) = Total(f, S) + f[x]
  BY <1>1, <1>2, <1>3, TotalAdds
<1> QED
  BY <1>1, <1>4 DEF S, x

(* A sequence without its first element has that much less to add up.      *)
LEMMA TotalShifts ==
    ASSUME NEW n \in Nat, NEW f, NEW h, \A i \in 1..(n + 1) : f[i] \in Int, \A i \in 1..n : h[i] = f[i + 1]
    PROVE  Total(f, 1..(n + 1)) = f[1] + Total(h, 1..n)
<1> DEFINE Good == {k \in Nat : k <= n => Total(f, 1..(k + 1)) = f[1] + Total(h, 1..k)}
<1>1. 0 \in Good
  <2>1. 1..(0 + 1) = {} \cup {1} /\ 1..0 = {} /\ 1 \in 1..(n + 1)
    OBVIOUS
  <2>2. Total(f, {} \cup {1}) = Total(f, {}) + f[1]
    BY <2>1, FS_EmptySet, TotalAdds
  <2>3. Total(f, {}) = 0 /\ Total(h, {}) = 0 /\ f[1] \in Int
    BY <2>1, TotalOfNone
  <2> QED
    BY <2>1, <2>2, <2>3
<1>2. ASSUME NEW k \in Nat, k \in Good PROVE k + 1 \in Good
  <2> SUFFICES ASSUME k + 1 <= n PROVE Total(f, 1..(k + 2)) = f[1] + Total(h, 1..(k + 1))
    OBVIOUS
  <2>1. /\ 1..(k + 2) = (1..(k + 1)) \cup {k + 2} /\ k + 2 \notin 1..(k + 1) /\ 1..(k + 2) \subseteq 1..(n + 1)
        /\ 1..(k + 1) = (1..k) \cup {k + 1} /\ k + 1 \notin 1..k /\ 1..(k + 1) \subseteq 1..n
        /\ k + 1 \in Nat
    OBVIOUS
  <2>2. IsFiniteSet(1..(k + 1)) /\ IsFiniteSet(1..k)
    BY <2>1, FirstNumbers
  <2>3. \A i \in 1..n : h[i] \in Int
    OBVIOUS
  <2>4. Total(f, 1..(k + 2)) = Total(f, 1..(k + 1)) + f[k + 2]
    <3>1. \A i \in 1..(k + 1 + 1) : f[i] \in Int
      BY <2>1
    <3>2. Total(f, 1..(k + 1 + 1)) = Total(f, 1..(k + 1)) + f[k + 1 + 1]
      BY <2>1, <3>1, TotalNext
    <3>3. k + 1 + 1 = k + 2
      OBVIOUS
    <3> QED
      BY <3>2, <3>3
  <2>5. Total(h, 1..(k + 1)) = Total(h, 1..k) + h[k + 1]
    <3>1. \A i \in 1..(k + 1) : h[i] \in Int
      BY <2>1, <2>3
    <3> QED
      BY <3>1, TotalNext
  <2>6. h[k + 1] = f[k + 2]
    BY <2>1
  <2>7. Total(f, 1..(k + 1)) = f[1] + Total(h, 1..k)
    BY <1>2
  <2>8. Total(h, 1..k) \in Int
    BY <2>1, <2>2, <2>3, TotalType
  <2>9. f[1] \in Int /\ f[k + 2] \in Int
    OBVIOUS
  <2> DEFINE a == Total(h, 1..k)  b == f[1]  c == f[k + 2]
  <2>10. Total(f, 1..(k + 2)) = (b + a) + c /\ Total(h, 1..(k + 1)) = a + c
    BY <2>1, <2>4, <2>5, <2>6, <2>7
  <2>11. (b + a) + c = b + (a + c)
    <3> HIDE DEF a, b, c
    <3> QED
      BY <2>8, <2>9 DEF a, b, c
  <2> QED
    BY <2>10, <2>11
<1> HIDE DEF Good
<1>3. n \in Good
  BY <1>1, <1>2, NumbersAll
<1> QED
  BY <1>3 DEF Good

(* A total over sets that have no element in common is the total of theirs.*)
LEMMA TotalOfTotals ==
    ASSUME NEW T, IsFiniteSet(T), NEW U, IsFiniteSet(U), NEW P \in [T -> SUBSET U],
           \A t, s \in T : t # s => P[t] \cap P[s] = {},
           NEW f, \A x \in U : f[x] \in Int, NEW g, \A t \in T : g[t] = Total(f, P[t])
    PROVE  Total(f, UNION {P[t] : t \in T}) = Total(g, T)
<1> DEFINE All(s) == UNION {P[t] : t \in s}
           Good == {s \in SUBSET T : Total(f, All(s)) = Total(g, s)}
<1>1. \A t \in T : IsFiniteSet(P[t]) /\ g[t] \in Int
  <2> SUFFICES ASSUME NEW t \in T PROVE IsFiniteSet(P[t]) /\ g[t] \in Int
    OBVIOUS
  <2>1. P[t] \in SUBSET U
    OBVIOUS
  <2>2. IsFiniteSet(P[t])
    BY <2>1, FS_Subset
  <2> QED
    BY <2>1, <2>2, TotalTypes
<1>2. {} \in Good
  <2>1. All({}) = {}
    OBVIOUS
  <2> QED
    BY <2>1, TotalOfNone
<1>3. ASSUME NEW s \in SUBSET T, s # {}, \A x \in s : s \ {x} \in Good PROVE s \in Good
  <2>1. PICK x \in s : TRUE
    BY <1>3
  <2> DEFINE A == All(s \ {x})  B == P[x]
  <2>2. x \in T /\ IsFiniteSet(s) /\ A \subseteq U /\ IsFiniteSet(A) /\ IsFiniteSet(B)
    <3>1. A \in SUBSET U
      OBVIOUS
    <3>2. IsFiniteSet(A)
      BY <3>1, FS_Subset
    <3>3. IsFiniteSet(s)
      BY FS_Subset
    <3> QED
      BY <1>1, <3>1, <3>2, <3>3
  <2>3. All(s) = A \cup B
    <3>1. s = (s \ {x}) \cup {x}
      OBVIOUS
    <3> QED
      BY <3>1
  <2>4. A \cap B = {}
    <3> SUFFICES ASSUME NEW y \in A PROVE y \notin B
      OBVIOUS
    <3>1. PICK t \in s \ {x} : y \in P[t]
      OBVIOUS
    <3>2. t \in T /\ t # x
      OBVIOUS
    <3> QED
      BY <2>2, <3>1, <3>2
  <2>5. B \subseteq U
    BY <2>2
  <2>6. Total(f, A) = Total(g, s \ {x})
    BY <1>3
  <2> HIDE DEF A, B, All
  <2>7. Total(f, A \cup B) = Total(f, A) + Total(f, B)
    BY <2>2, <2>4, <2>5, TotalJoins
  <2>8. \A t \in s : g[t] \in Int
    BY <1>1
  <2>9. Total(g, s) = g[x] + Total(g, s \ {x})
    BY <2>2, <2>8, TotalAny
  <2>10. g[x] = Total(f, B) /\ g[x] \in Int
    BY <1>1, <2>2 DEF B
  <2>11. Total(f, A) \in Int
    BY <2>2, TotalType
  <2>12. Total(f, All(s)) = Total(g, s)
    <3> DEFINE a == Total(f, A)  b == g[x]
    <3>1. Total(f, All(s)) = a + b /\ Total(g, s) = b + a /\ a \in Int /\ b \in Int
      BY <2>3, <2>6, <2>7, <2>9, <2>10, <2>11
    <3> HIDE DEF a, b
    <3> QED
      BY <3>1
  <2> QED
    BY <2>12 DEF All
<1> HIDE DEF Good
<1>4. T \in Good
  BY <1>2, <1>3, SetsAll
<1> QED
  BY <1>4 DEF Good

(* What a force adds to point v, what the forces a thread has in hand will *)
(* still add, what the edges it has passed amount to, and the difference.  *)
Worth(x, n, e, f, v) == Pending(AddsOf(x, n, e, f), v)
Worths(x, n, e, forces, v) == [i \in DOMAIN forces |-> Worth(x, n, e, forces[i], v)]
Owing(x, r, v) == Total(Worths(x, r.epoch, r.edge, r.forces, v), DOMAIN r.forces)
PerEdge(x, n, v) == [e \in EdgeIds |-> EdgeSum(x, n, e, v)]
Gained(x, r, t, v) == Total(PerEdge(x, r.epoch, v), Stripe(t, r.batch) \ r.left)
Net(x, r, t, v) == Gained(x, r, t, v) - Owing(x, r, v)
Layout(x) == x \in [LayoutPoints -> Int]

(* What the additions of a force come to, whatever they are added to.      *)
LEMMA WorthIs ==
    ASSUME LayoutType, NEW x, Layout(x), NEW n \in Nat, NEW e \in EdgeIds, NEW f \in 0..Len(call.start),
           NEW sums \in [LayoutPoints -> Int], NEW v \in LayoutPoints
    PROVE  /\ Worth(x, n, e, f, v) \in Int /\ AddAll(sums, AddsOf(x, n, e, f))[v] = sums[v] + Worth(x, n, e, f, v)
           /\ AddAll(Nothing, AddsOf(x, n, e, f))[v] = Worth(x, n, e, f, v)
<1> DEFINE adds == AddsOf(x, n, e, f)
<1>1. adds \in Seq(AddType) /\ Len(adds) \in {1, 2}
  BY AddsType DEF Layout
<1>2. Nothing \in [LayoutPoints -> Int] /\ Nothing[v] = 0
  BY DEF Nothing
<1> HIDE DEF adds
<1>3. Pending(adds, v) \in Int
  BY <1>1, SumOf
<1>4. AddAll(sums, adds)[v] = sums[v] + Pending(adds, v) /\ AddAll(Nothing, adds)[v] = Nothing[v] + Pending(adds, v)
  BY <1>1, <1>2, AddAllIs
<1> QED
  BY <1>2, <1>3, <1>4 DEF Worth, adds

(* The pushes due in an epoch in which an edge is pulled.                  *)
LEMMA PushesDueIs ==
    ASSUME LayoutType, NEW e \in EdgeIds, NEW n \in Nat, NEW k, k = PulledBy(n, e), NEW j, j = PulledBy(n + 1, e),
           j = k + 1
    PROVE  PushesDue(n, e) \in Nat /\ PushesDue(n, e) = PushedBy(j, e) - PushedBy(k, e)
<1>1. k \in Nat /\ j = Whole(n, e) /\ PullsDue(n, e) = 1 /\ EpochOf(j, e) = n
  <2>1. /\ PulledBy(n, e) \in Nat /\ PulledBy(n + 1, e) = Whole(n, e)
        /\ PullsDue(n, e) = PulledBy(n + 1, e) - PulledBy(n, e)
        /\ PulledBy(n + 1, e) = PulledBy(n, e) + 1 => EpochOf(PulledBy(n + 1, e), e) = n
    BY PullsRight
  <2> QED
    BY <2>1
<1>2. j \in Nat /\ j <= Whole(n, e) /\ k <= Whole(n, e) /\ j # 0 /\ Whole(n, e) - 1 = k
  BY <1>1
<1>3. /\ PushedBy(k, e) \in Nat /\ PushedBy(j, e) \in Nat
      /\ call.rate > 0 => Pushes(n, e) \in Nat /\ (k > 0 => PushedBy(k, e) <= Pushes(n, e))
  <2>1. PushedBy(k, e) \in Nat /\ (call.rate > 0 /\ k > 0 => PushedBy(k, e) <= Pushes(n, e))
    BY <1>1, <1>2, PushedRight
  <2>2. PushedBy(j, e) \in Nat /\ (call.rate > 0 /\ j > 0 => Pushes(n, e) \in Nat)
    BY <1>2, PushedRight
  <2> QED
    BY <1>2, <2>1, <2>2
<1>4. call.rate \in Nat
  BY EdgeGives
<1>5. CASE call.rate = 0
  BY <1>5 DEF PushesDue, PushedBy
<1>6. CASE call.rate # 0
  <2>1. PushedBy(j, e) = Pushes(n, e)
    BY <1>1, <1>2, <1>6 DEF PushedBy
  <2>2. PushesDue(n, e) = Pushes(n, e) - (IF k < 1 THEN 0 ELSE Pushes(EpochOf(k, e), e))
    BY <1>1, <1>2, <1>6 DEF PushesDue
  <2>3. PushedBy(k, e) = IF k < 1 THEN 0 ELSE Pushes(EpochOf(k, e), e)
    BY <1>1, <1>6 DEF PushedBy
  <2>4. PushedBy(k, e) <= Pushes(n, e) /\ Pushes(n, e) \in Nat
    BY <1>1, <1>3, <1>4, <1>6, <2>3
  <2> QED
    BY <1>3, <2>1, <2>2, <2>3, <2>4
<1> QED
  BY <1>5, <1>6

(* The forces due to an edge are its pull and pushes from points.          *)
LEMMA ForcesDueType ==
    ASSUME LayoutType, NEW e \in EdgeIds, NEW n \in Nat
    PROVE  /\ PullsDue(n, e) \in {0, 1}
           /\ ForcesDue(n, e) \in Seq(0..Len(call.start)) /\ IsFiniteSet(DOMAIN ForcesDue(n, e))
<1> DEFINE k == PulledBy(n, e)  j == PulledBy(n + 1, e)
<1>1. k \in Nat /\ j \in {k, k + 1} /\ PullsDue(n, e) = j - k
  BY PullsRight
<1> HIDE DEF k, j
<1>2. ForcesDue(n, e) \in Seq(0..Len(call.start))
  <2>1. CASE j = k
    BY <1>1, <2>1 DEF ForcesDue
  <2>2. CASE j = k + 1
    <3> DEFINE from == PushedFrom(n, e, e, PushesDue(n, e))  S == 0..Len(call.start)
    <3>1. PushesDue(n, e) \in Nat
      BY <2>2, PushesDueIs DEF k, j
    <3>2. e \in Nat /\ LayoutPoints \subseteq S /\ 0 \in S
      BY TypeGives
    <3>3. from \in Seq(LayoutPoints)
      BY <3>1, <3>2, PushedFromType
    <3>4. ForcesDue(n, e) = <<0>> \o from
      BY <1>1, <2>2 DEF ForcesDue
    <3> HIDE DEF from, S
    <3>5. from \in Seq(S) /\ <<0>> \in Seq(S)
      BY <3>2, <3>3
    <3>6. <<0>> \o from \in Seq(S)
      BY <3>5
    <3> QED
      BY <3>4, <3>6 DEF S
  <2> QED
    BY <1>1, <2>1, <2>2
<1>3. IsFiniteSet(DOMAIN ForcesDue(n, e))
  <2> DEFINE s == ForcesDue(n, e)
  <2>1. Len(s) \in Nat /\ DOMAIN s = 1..Len(s)
    BY <1>2
  <2> HIDE DEF s
  <2>2. IsFiniteSet(1..Len(s))
    BY <2>1, FirstNumbers
  <2> QED
    BY <2>1, <2>2 DEF s
<1> QED
  BY <1>1, <1>2, <1>3

(* The forces in hand add up to an integer.                                *)
LEMMA WorthsType ==
    ASSUME LayoutType, NEW x, Layout(x), NEW n \in Nat, NEW e \in EdgeIds, NEW v \in LayoutPoints,
           NEW s \in Seq(0..Len(call.start))
    PROVE  /\ Len(s) \in Nat /\ DOMAIN s = 1..Len(s) /\ IsFiniteSet(DOMAIN s)
           /\ \A i \in DOMAIN s : Worths(x, n, e, s, v)[i] = Worth(x, n, e, s[i], v) /\ Worth(x, n, e, s[i], v) \in Int
           /\ Total(Worths(x, n, e, s, v), DOMAIN s) \in Int
<1>1. Len(s) \in Nat /\ DOMAIN s = 1..Len(s)
  OBVIOUS
<1>2. IsFiniteSet(DOMAIN s)
  BY <1>1, FirstNumbers
<1>3. \A i \in DOMAIN s : s[i] \in 0..Len(call.start)
  BY <1>1, ElementOf
<1>4. Nothing \in [LayoutPoints -> Int]
  BY DEF Nothing
<1>5. ASSUME NEW i \in DOMAIN s
      PROVE  Worths(x, n, e, s, v)[i] = Worth(x, n, e, s[i], v) /\ Worth(x, n, e, s[i], v) \in Int
  <2>1. Worth(x, n, e, s[i], v) \in Int
    BY <1>3, <1>4, <1>5, WorthIs
  <2> QED
    BY <2>1 DEF Worths
<1>6. Total(Worths(x, n, e, s, v), DOMAIN s) \in Int
  BY <1>2, <1>5, TotalType
<1> QED
  BY <1>1, <1>2, <1>5, <1>6

(* What one thread would add for an edge.                                  *)
LEMMA EdgeSumIs ==
    ASSUME LayoutType, NEW x, Layout(x), NEW n \in Nat, NEW e \in EdgeIds, NEW v \in LayoutPoints
    PROVE  /\ EdgeSum(x, n, e, v) = Total(Worths(x, n, e, ForcesDue(n, e), v), DOMAIN ForcesDue(n, e))
           /\ EdgeSum(x, n, e, v) \in Int
<1> DEFINE s == ForcesDue(n, e)
           f == [i \in DOMAIN s |-> AddAll(Nothing, AddsOf(x, n, e, s[i]))[v]]
<1>1. s \in Seq(0..Len(call.start))
  BY ForcesDueType
<1>2. EdgeSum(x, n, e, v) = Total(f, DOMAIN s)
  BY DEF EdgeSum, SumFunction, Total
<1> HIDE DEF s
<1>3. /\ DOMAIN s = 1..Len(s) /\ IsFiniteSet(DOMAIN s) /\ Total(Worths(x, n, e, s, v), DOMAIN s) \in Int
      /\ \A i \in DOMAIN s : Worths(x, n, e, s, v)[i] = Worth(x, n, e, s[i], v)
  BY <1>1, WorthsType
<1>4. ASSUME NEW i \in DOMAIN s PROVE f[i] = Worths(x, n, e, s, v)[i]
  <2>1. s[i] \in 0..Len(call.start)
    BY <1>1, <1>3, ElementOf
  <2>2. Nothing \in [LayoutPoints -> Int]
    BY DEF Nothing
  <2>3. AddAll(Nothing, AddsOf(x, n, e, s[i]))[v] = Worth(x, n, e, s[i], v)
    BY <2>1, <2>2, WorthIs
  <2> QED
    BY <1>3, <2>3
<1> HIDE DEF f
<1>5. Total(f, DOMAIN s) = Total(Worths(x, n, e, s, v), DOMAIN s)
  BY <1>3, <1>4, TotalSame
<1> QED
  BY <1>2, <1>3, <1>5 DEF s

(* What an edge adds to a coordinate in an epoch is a number.              *)
LEMMA PerEdgeType ==
    ASSUME LayoutType, NEW x, Layout(x), NEW n \in Nat, NEW v \in LayoutPoints
    PROVE  \A e \in EdgeIds : PerEdge(x, n, v)[e] = EdgeSum(x, n, e, v) /\ PerEdge(x, n, v)[e] \in Int
BY EdgeSumIs DEF PerEdge

(* What a thread has done of its stripe, in numbers.                       *)
LEMMA NetType ==
    ASSUME LayoutType, NEW x, Layout(x), NEW t \in Team, NEW r \in ThreadType, r.forces = <<>> \/ r.edge \in EdgeIds,
           NEW v \in LayoutPoints
    PROVE  /\ IsFiniteSet(Stripe(t, r.batch)) /\ IsFiniteSet(Stripe(t, r.batch) \ r.left)
           /\ Stripe(t, r.batch) \subseteq EdgeIds /\ r.epoch \in Nat
           /\ Gained(x, r, t, v) \in Int /\ Owing(x, r, v) \in Int /\ Net(x, r, t, v) \in Int
<1>1. /\ r.batch \in BatchIds /\ r.epoch \in 0..(call.epochs - 1) /\ r.forces \in Seq(0..Len(call.start))
  BY DEF ThreadType
<1>2. r.epoch \in Nat /\ Stripe(t, r.batch) \subseteq EdgeIds /\ Len(edges) \in Nat /\ EdgeIds = 1..Len(edges)
  BY <1>1, TypeGives
<1>3. IsFiniteSet(Stripe(t, r.batch)) /\ IsFiniteSet(Stripe(t, r.batch) \ r.left)
  <2> DEFINE S == Stripe(t, r.batch)  T == Stripe(t, r.batch) \ r.left
  <2>1. S \subseteq 1..Len(edges) /\ T \subseteq 1..Len(edges)
    BY <1>2
  <2> HIDE DEF S, T
  <2>2. IsFiniteSet(S) /\ IsFiniteSet(T)
    BY <1>2, <2>1, CountIn
  <2> QED
    BY <2>2 DEF S, T
<1>4. Gained(x, r, t, v) \in Int
  <2> DEFINE f == PerEdge(x, r.epoch, v)  S == Stripe(t, r.batch) \ r.left
  <2>1. \A e \in S : f[e] \in Int
    BY <1>2, PerEdgeType
  <2>2. IsFiniteSet(S)
    BY <1>3
  <2> HIDE DEF f, S
  <2>3. Total(f, S) \in Int
    BY <2>1, <2>2, TotalType
  <2> QED
    BY <2>3 DEF f, S, Gained
<1>5. Owing(x, r, v) \in Int
  <2>1. CASE r.forces = <<>>
    <3>1. DOMAIN r.forces = {}
      BY <2>1
    <3> QED
      BY <3>1, TotalOfNone DEF Owing
  <2>2. CASE r.edge \in EdgeIds
    BY <1>1, <1>2, <2>2, WorthsType DEF Owing
  <2> QED
    BY <2>1, <2>2
<1> QED
  BY <1>2, <1>3, <1>4, <1>5 DEF Net

(* A thread with nothing in hand owes nothing.                             *)
LEMMA OwesNothing == ASSUME NEW x, NEW r, NEW v, r.forces = <<>> PROVE Owing(x, r, v) = 0
<1>1. DOMAIN r.forces = {}
  OBVIOUS
<1> QED
  BY <1>1, TotalOfNone DEF Owing

(* Where a thread is and which barrier it has come to do not matter.       *)
LEMMA NetSame ==
    ASSUME NEW x, NEW r, NEW q, NEW t, NEW v, q.epoch = r.epoch, q.batch = r.batch, q.left = r.left,
           q.forces = r.forces, q.edge = r.edge
    PROVE  Net(x, q, t, v) = Net(x, r, t, v)
BY DEF Net, Gained, Owing

(* A stripe that has just begun, and one that has ended.                   *)
LEMMA NetNone ==
    ASSUME NEW x, NEW r, NEW t, NEW v, r.left = Stripe(t, r.batch), r.forces = <<>>
    PROVE  Net(x, r, t, v) = 0
<1>1. Stripe(t, r.batch) \ r.left = {}
  OBVIOUS
<1>2. Gained(x, r, t, v) = 0
  BY <1>1, TotalOfNone DEF Gained
<1> QED
  BY <1>2, OwesNothing DEF Net

(* A thread at the end of its stripe, with nothing in hand, has added all  *)
(* that its stripe comes to.                                               *)
LEMMA NetAll ==
    ASSUME LayoutType, NEW x, Layout(x), NEW r \in ThreadType, NEW t \in Team, NEW v \in LayoutPoints,
           r.left = {}, r.forces = <<>>
    PROVE  Net(x, r, t, v) = Total(PerEdge(x, r.epoch, v), Stripe(t, r.batch))
<1>1. Gained(x, r, t, v) \in Int
  BY NetType
<1>2. Stripe(t, r.batch) \ r.left = Stripe(t, r.batch)
  OBVIOUS
<1> QED
  BY <1>1, <1>2, OwesNothing DEF Net, Gained

(* Taking up an edge with the forces due to it changes no balance.         *)
LEMMA NetTakes ==
    ASSUME LayoutType, NEW x, Layout(x), NEW t \in Team, NEW r \in ThreadType, NEW q \in ThreadType, NEW v \in LayoutPoints,
           NEW e \in r.left, r.left \subseteq Stripe(t, r.batch), r.forces = <<>>,
           q.left = r.left \ {e}, q.epoch = r.epoch, q.batch = r.batch,
           q.forces = ForcesDue(r.epoch, e), q.forces # <<>> => q.edge = e
    PROVE  Net(x, q, t, v) = Net(x, r, t, v)
<1> DEFINE f == PerEdge(x, r.epoch, v)  S == Stripe(t, r.batch) \ r.left
<1>1. /\ IsFiniteSet(S) /\ S \subseteq EdgeIds /\ r.epoch \in Nat /\ e \in EdgeIds
  BY NetType
<1> DEFINE T == Stripe(t, q.batch) \ q.left
<1>2. T = S \cup {e} /\ e \notin S /\ T \subseteq EdgeIds
  BY <1>1
<1>3. \A y \in EdgeIds : f[y] = EdgeSum(x, r.epoch, y, v) /\ f[y] \in Int
  BY <1>1, PerEdgeType
<1>4. Gained(x, q, t, v) = Total(f, T) /\ Gained(x, r, t, v) = Total(f, S)
  BY DEF Gained
<1> HIDE DEF f, S, T
<1>5. Total(f, T) = Total(f, S) + f[e] /\ Total(f, S) \in Int
  <2>1. \A y \in T : f[y] \in Int
    BY <1>2, <1>3
  <2> QED
    BY SMTT(30), <1>1, <1>2, <2>1, TotalGrows
<1>6. Owing(x, q, v) = EdgeSum(x, r.epoch, e, v)
  <2>1. EdgeSum(x, r.epoch, e, v) = Total(Worths(x, r.epoch, e, q.forces, v), DOMAIN q.forces)
    BY <1>1, EdgeSumIs
  <2>2. CASE q.forces = <<>>
    <3>1. DOMAIN q.forces = {}
      BY <2>2
    <3> QED
      BY <2>1, <3>1, TotalOfNone DEF Owing
  <2>3. CASE q.forces # <<>>
    BY <2>1, <2>3 DEF Owing
  <2> QED
    BY <2>2, <2>3
<1>7. Owing(x, r, v) = 0
  BY OwesNothing
<1>8. EdgeSum(x, r.epoch, e, v) = f[e] /\ f[e] \in Int
  BY <1>1, <1>3
<1> DEFINE a == Total(f, S)  b == f[e]
<1>9. Net(x, q, t, v) = (a + b) - b /\ Net(x, r, t, v) = a - 0 /\ a \in Int /\ b \in Int
  BY <1>4, <1>5, <1>6, <1>7, <1>8 DEF Net
<1> HIDE DEF a, b
<1> QED
  BY <1>9

(* A force given is owed no more.                                          *)
LEMMA NetGives ==
    ASSUME LayoutType, NEW x, Layout(x), NEW t \in Team, NEW r \in ThreadType, NEW q, NEW v \in LayoutPoints,
           r.edge \in EdgeIds, r.forces # <<>>,
           q.left = r.left, q.epoch = r.epoch, q.batch = r.batch, q.edge = r.edge, q.forces = Tail(r.forces)
    PROVE  /\ Worth(x, r.epoch, r.edge, Head(r.forces), v) \in Int
           /\ Net(x, q, t, v) = Net(x, r, t, v) + Worth(x, r.epoch, r.edge, Head(r.forces), v)
<1> DEFINE s == r.forces  n == r.epoch  e == r.edge
           f == Worths(x, n, e, s, v)  h == Worths(x, n, e, Tail(s), v)
           m == Len(s) - 1
<1>1. n \in Nat /\ e \in EdgeIds /\ Gained(x, r, t, v) \in Int
  BY NetType
<1>2. s \in Seq(0..Len(call.start)) /\ s # <<>>
  BY DEF ThreadType
<1>3. Gained(x, q, t, v) = Gained(x, r, t, v) /\ Owing(x, r, v) = Total(f, DOMAIN s) /\ Owing(x, q, v) = Total(h, DOMAIN Tail(s))
  BY DEF Gained, Owing
<1> HIDE DEF s, n, e
<1>4. /\ Tail(s) \in Seq(0..Len(call.start)) /\ m \in Nat /\ Len(s) = m + 1 /\ Len(Tail(s)) = m
      /\ Head(s) = s[1] /\ \A i \in 1..m : Tail(s)[i] = s[i + 1]
  BY <1>2
<1>5. /\ DOMAIN s = 1..(m + 1)
      /\ \A i \in DOMAIN s : f[i] = Worth(x, n, e, s[i], v) /\ Worth(x, n, e, s[i], v) \in Int
  <2>1. /\ DOMAIN s = 1..Len(s)
        /\ \A i \in DOMAIN s : Worths(x, n, e, s, v)[i] = Worth(x, n, e, s[i], v) /\ Worth(x, n, e, s[i], v) \in Int
    BY <1>1, <1>2, WorthsType
  <2> QED
    BY <1>4, <2>1
<1>6. /\ DOMAIN Tail(s) = 1..m
      /\ \A i \in DOMAIN Tail(s) : h[i] = Worth(x, n, e, Tail(s)[i], v) /\ Worth(x, n, e, Tail(s)[i], v) \in Int
      /\ Total(h, DOMAIN Tail(s)) \in Int
  <2> DEFINE z == Tail(s)
  <2>1. z \in Seq(0..Len(call.start)) /\ Len(z) = m
    BY <1>4
  <2> HIDE DEF z, m
  <2>2. /\ DOMAIN z = 1..Len(z) /\ Total(Worths(x, n, e, z, v), DOMAIN z) \in Int
        /\ \A i \in DOMAIN z : Worths(x, n, e, z, v)[i] = Worth(x, n, e, z[i], v) /\ Worth(x, n, e, z[i], v) \in Int
    BY <1>1, <2>1, WorthsType
  <2> QED
    BY <2>1, <2>2 DEF z
<1> HIDE DEF f, h, m
<1>7. \A i \in 1..(m + 1) : f[i] \in Int
  BY <1>5
<1>8. \A i \in 1..m : h[i] = f[i + 1]
  <2> SUFFICES ASSUME NEW i \in 1..m PROVE h[i] = f[i + 1]
    OBVIOUS
  <2>1. i + 1 \in 1..(m + 1)
    BY <1>4
  <2>2. f[i + 1] = Worth(x, n, e, s[i + 1], v)
    BY <1>5, <2>1
  <2>3. h[i] = Worth(x, n, e, Tail(s)[i], v)
    BY <1>6
  <2> QED
    BY <1>4, <2>2, <2>3
<1>9. Total(f, 1..(m + 1)) = f[1] + Total(h, 1..m)
  BY <1>4, <1>7, <1>8, TotalShifts
<1>10. f[1] = Worth(x, n, e, Head(s), v) /\ f[1] \in Int
  <2>1. 1 \in 1..(m + 1)
    BY <1>4
  <2> QED
    BY <1>4, <1>5, <2>1
<1> DEFINE a == Gained(x, r, t, v)  b == f[1]  c == Total(h, 1..m)
<1>11. Net(x, r, t, v) = a - (b + c) /\ Net(x, q, t, v) = a - c /\ a \in Int /\ b \in Int /\ c \in Int
  BY <1>1, <1>3, <1>5, <1>6, <1>9, <1>10 DEF Net
<1> HIDE DEF a, c
<1>12. Net(x, q, t, v) = Net(x, r, t, v) + b /\ b \in Int
  <2> HIDE DEF b
  <2> QED
    BY <1>11
<1> QED
  BY <1>10, <1>12 DEF s, n, e

(* What balances depend on beside the thread and the coordinates.          *)
LEMMA NetStays ==
    ASSUME call' = call, edges' = edges
    PROVE  /\ \A x, r, t, v : Net(x, r, t, v)' = Net(x, r, t, v)
           /\ \A x, n, v : PerEdge(x, n, v)' = PerEdge(x, n, v)
           /\ \A n, e : ForcesDue(n, e)' = ForcesDue(n, e)
<1>1. /\ Route' = Route /\ Team' = Team /\ EdgeIds' = EdgeIds /\ LayoutPoints' = LayoutPoints
      /\ \A t, b : Stripe(t, b)' = Stripe(t, b)
  BY CallStays
<1>2. \A n, e : Whole(n, e)' = Whole(n, e) /\ Pushes(n, e)' = Pushes(n, e) /\ EpochOf(n, e)' = EpochOf(n, e)
  BY DEF Whole, Pushes, EpochOf, NegativePeriod
<1>3. \A n, e : PullsDue(n, e)' = PullsDue(n, e)
  BY <1>2 DEF PullsDue
<1>4. \A n, e : PushesDue(n, e)' = PushesDue(n, e)
  BY <1>2, <1>3 DEF PushesDue
<1>5. \A n, e, a, c : PushedFrom(n, e, a, c)' = PushedFrom(n, e, a, c)
  <2>1. \A n, a, c : Drawn(n, a, c)' = Drawn(n, a, c)
    BY DEF Drawn
  <2> QED
    BY ZenonT(60), <1>1, <2>1 DEF PushedFrom
<1>6. \A n, e : ForcesDue(n, e)' = ForcesDue(n, e)
  BY <1>3, <1>4, <1>5 DEF ForcesDue
<1>7. \A x, n, e, f : AddsOf(x, n, e, f)' = AddsOf(x, n, e, f)
  <2>1. \A n : Rate(n)' = Rate(n)
    BY <1>1 DEF Rate
  <2>2. \A x, e, f : Pull(x, e)' = Pull(x, e) /\ Push(x, e, f)' = Push(x, e, f)
    BY DEF Pull, Push
  <2>3. \A f : Moves(f)' = Moves(f)
    BY <1>1 DEF Moves
  <2> QED
    BY <2>1, <2>2, <2>3 DEF AddsOf, PullAdds, PushAdds
<1>8. \A sums, adds : AddAll(sums, adds)' = AddAll(sums, adds)
  BY <1>1 DEF AddAll
<1>9. Nothing' = Nothing
  BY <1>1 DEF Nothing
<1>10. \A x, n, e, v : EdgeSum(x, n, e, v)' = EdgeSum(x, n, e, v)
  BY <1>6, <1>7, <1>8, <1>9 DEF EdgeSum
<1>11. \A x, n, v : PerEdge(x, n, v)' = PerEdge(x, n, v)
  BY <1>1, <1>10 DEF PerEdge
<1>12. \A x, n, e, f, v : Worth(x, n, e, f, v)' = Worth(x, n, e, f, v)
  BY <1>7 DEF Worth, Pending, AddOf
<1>13. \A x, r, v : Owing(x, r, v)' = Owing(x, r, v)
  BY <1>12 DEF Owing, Worths, Total
<1>14. \A x, r, t, v : Gained(x, r, t, v)' = Gained(x, r, t, v)
  BY <1>1, <1>11 DEF Gained, Total
<1>15. \A x, r, t, v : Net(x, r, t, v)' = Net(x, r, t, v)
  BY <1>13, <1>14 DEF Net
<1> QED
  BY <1>6, <1>11, <1>15

(* The parts of a sequence are in order.                                   *)
LEMMA PartsInOrder ==
    ASSUME NEW n \in Nat, NEW of \in Nat \ {0}, NEW s \in Nat, NEW t \in Nat, s < t,
           NEW x \in Part(n, s, of), NEW y \in Part(n, t, of)
    PROVE  x < y
<1> DEFINE a == n * (s + 1)  b == n * t
<1>1. a <= b /\ a \in Nat /\ b \in Nat
  <2>1. (s + 1) * n <= t * n /\ (s + 1) * n \in Nat /\ t * n \in Nat
    BY TimesGrow
  <2>2. (s + 1) * n = n * (s + 1) /\ t * n = n * t
    OBVIOUS
  <2> QED
    BY <2>1, <2>2
<1>2. a \div of <= b \div of /\ a \div of \in Nat /\ b \div of \in Nat
  <2> HIDE DEF a, b
  <2> QED
    BY <1>1, QuotientGrows, Division
<1>3. x \in Int /\ x <= a \div of
  BY DEF Part
<1>4. y \in Int /\ b \div of + 1 <= y
  BY DEF Part
<1> HIDE DEF a, b
<1> QED
  BY <1>2, <1>3, <1>4

(* Points are drawn by the number of the edge in the whole graph.          *)
LEMMA SampleIs ==
    ASSUME LayoutType, Route = "shared", NEW t \in Team, NEW e \in Stripe(t, 0)
    PROVE  SampleEdge(t, e) = e
<1> DEFINE rows == Len(call.start)
           A == {f \in EdgeIds : \E s \in 0..t - 1 : edges[f].head \in RowsOf(s)}
           B == {f \in Stripe(t, 0) : f <= e}
<1>1. /\ Len(edges) \in Nat /\ EdgeIds = 1..Len(edges) /\ rows \in Nat /\ LayoutPoints = 1..rows
      /\ call.threads \in Nat \ {0} /\ Team = 0..(call.threads - 1) /\ t \in Nat
  BY TypeGives DEF Team
<1>2. \A f, g \in EdgeIds : f <= g => edges[f].head <= edges[g].head
  BY EdgesRight DEF LayoutType
<1>3. Stripe(t, 0) = {f \in EdgeIds : edges[f].head \in RowsOf(t)}
  BY DEF Stripe
<1>4. \A s : RowsOf(s) = Part(rows, s, call.threads)
  BY DEF RowsOf
<1>5. \A f \in EdgeIds : edges[f].head \in 1..rows
  BY <1>1, EdgeEnds
<1>6. e \in EdgeIds /\ e \in Nat /\ edges[e].head \in Part(rows, t, call.threads)
  BY <1>1, <1>3, <1>4
<1> HIDE DEF rows
<1>7. ASSUME NEW f \in A PROVE f \in 1..e /\ f \notin B
  <2>1. PICK s \in 0..t - 1 : edges[f].head \in Part(rows, s, call.threads)
    BY <1>4
  <2>2. s \in Nat /\ s < t /\ f \in EdgeIds /\ f \in 1..Len(edges)
    BY <1>1
  <2>3. edges[f].head < edges[e].head
    BY <1>1, <1>6, <2>1, <2>2, PartsInOrder
  <2>4. f < e
    <3>1. edges[f].head \in Int /\ edges[e].head \in Int
      BY <1>5, <1>6, <2>2
    <3>2. ~(e <= f)
      BY <1>2, <1>6, <2>2, <2>3, <3>1
    <3> QED
      BY <1>6, <2>2, <3>2
  <2>5. ASSUME f \in B PROVE FALSE
    <3>1. edges[f].head \in Part(rows, t, call.threads)
      BY <1>3, <1>4, <2>5
    <3>2. edges[f].head < edges[f].head /\ edges[f].head \in Int
      BY <1>1, <1>5, <2>1, <2>2, <3>1, PartsInOrder
    <3> QED
      BY <3>2
  <2> QED
    BY <1>6, <2>2, <2>4, <2>5
<1>8. ASSUME NEW f \in B PROVE f \in 1..e
  BY <1>1, <1>3, <1>6
<1>9. ASSUME NEW f \in 1..e PROVE f \in A \cup B
  <2>1. f \in EdgeIds /\ edges[f].head \in 1..rows /\ edges[f].head <= edges[e].head /\ f <= e
    BY <1>1, <1>2, <1>5, <1>6
  <2>2. PICK s \in 0..(call.threads - 1) : edges[f].head \in Part(rows, s, call.threads)
    BY <1>1, <2>1, PartsCover
  <2>3. s \in Nat
    BY <1>1
  <2>4. CASE s < t
    <3>1. s \in 0..t - 1 /\ edges[f].head \in RowsOf(s)
      BY <1>1, <1>4, <2>2, <2>3, <2>4
    <3> QED
      BY <2>1, <3>1
  <2>5. CASE s = t
    BY <1>3, <1>4, <2>1, <2>2, <2>5
  <2>6. CASE t < s
    <3>1. edges[e].head < edges[f].head /\ edges[e].head \in Int
      BY SMTT(30), <1>1, <1>5, <1>6, <2>2, <2>3, <2>6, PartsInOrder
    <3> QED
      BY <2>1, <3>1
  <2> QED
    BY <1>1, <2>3, <2>4, <2>5, <2>6
<1>10. A \cup B = 1..e /\ A \cap B = {}
  BY <1>7, <1>8, <1>9
<1>11. SampleEdge(t, e) = Cardinality(A) + Cardinality(B)
  BY DEF SampleEdge, WorkerOffset
<1> HIDE DEF A, B
<1>12. IsFiniteSet(A) /\ IsFiniteSet(B)
  BY <1>6, <1>10, FirstNumbers, Within
<1>13. Cardinality(A \cup B) = Cardinality(A) + Cardinality(B) - Cardinality(A \cap B)
  BY <1>12, FS_Union
<1>14. Cardinality(A) \in Nat /\ Cardinality(B) \in Nat /\ Cardinality(A \cap B) = 0 /\ Cardinality(1..e) = e
  BY <1>6, <1>10, <1>12, FS_CardinalityType, FS_EmptySet, FirstNumbers
<1> DEFINE a == Cardinality(A)  b == Cardinality(B)
<1>15. a \in Nat /\ b \in Nat /\ e = a + b - 0 /\ SampleEdge(t, e) = a + b
  BY <1>10, <1>11, <1>13, <1>14
<1> HIDE DEF a, b
<1> QED
  BY <1>15

(* An edge that kept its schedule is given the forces that are due to it.  *)
LEMMA TakesDue ==
    ASSUME LayoutType, NEW e \in EdgeIds, NEW n \in Nat, Route # "sampled", Scheduled(e, n)
    PROVE  /\ PullsNow(n, e) \in {0, 1}
           /\ PullsNow(n, e) = 0 => ForcesDue(n, e) = <<>> /\ PushedFrom(n, e, e, 0) = <<>>
           /\ PullsNow(n, e) = 1 =>
                 /\ ForcesDue(n, e) = <<0>> \o PushedFrom(n, e, e, PushesNow(n, e))
                 /\ ForcesDue(n, e) # <<>> /\ ForcesDue(n, e) \in Seq(0..Len(call.start))
<1> DEFINE k == PulledBy(n, e)  j == PulledBy(n + 1, e)
<1>1. /\ k \in Nat /\ j \in {k, k + 1} /\ PullsNow(n, e) = j - k
      /\ j = k + 1 => PushesNow(n, e) = PushedBy(j, e) - PushedBy(k, e)
  BY ScheduleStep
<1>2. PullsDue(n, e) = j - k
  BY PullsRight
<1>3. e \in Nat
  BY TypeGives
<1>4. j = k + 1 => PushesDue(n, e) \in Nat /\ PushesDue(n, e) = PushedBy(j, e) - PushedBy(k, e)
  BY PushesDueIs
<1> HIDE DEF j, k
<1>5. CASE j = k
  <2>1. PullsNow(n, e) = 0 /\ ForcesDue(n, e) = <<>>
    BY <1>1, <1>2, <1>5 DEF ForcesDue
  <2>2. PushedFrom(n, e, e, 0) = <<>>
    <3> DEFINE drawnAt == [s \in 1..0 |-> Drawn(n, e, s)]
               skipped == {edges[e].head} \cup
                   (IF Route \in {"rounds", "sampled", "replay"} THEN {edges[e].tail} ELSE {})
               K == {s \in 1..0 : drawnAt[s] \notin skipped}
    <3>1. PushedFrom(n, e, e, 0) = Chosen(drawnAt, K)
      BY DEF PushedFrom
    <3>2. K = {}
      OBVIOUS
    <3> HIDE DEF K, drawnAt
    <3>3. Cardinality(K) = 0
      BY <3>2, FS_EmptySet
    <3> QED
      BY <3>1, <3>3 DEF Chosen
  <2> QED
    BY <2>1, <2>2
<1>6. CASE j = k + 1
  <2>1. PullsNow(n, e) = 1 /\ PushesNow(n, e) = PushesDue(n, e) /\ PushesDue(n, e) \in Nat
    BY <1>1, <1>4, <1>6
  <2> DEFINE from == PushedFrom(n, e, e, PushesDue(n, e))
  <2>2. ForcesDue(n, e) = <<0>> \o from
    BY <1>1, <1>2, <1>6 DEF ForcesDue
  <2>3. from \in Seq(LayoutPoints)
    BY <1>3, <2>1, PushedFromType
  <2>4. PushedFrom(n, e, e, PushesNow(n, e)) = from
    BY <2>1
  <2> HIDE DEF from
  <2>5. Len(<<0>> \o from) = 1 + Len(from) /\ Len(from) \in Nat
    BY <2>3
  <2>6. <<0>> \o from # <<>>
    BY <2>5
  <2>7. ForcesDue(n, e) \in Seq(0..Len(call.start))
    BY ForcesDueType
  <2> QED
    BY <2>1, <2>2, <2>4, <2>6, <2>7
<1> QED
  BY <1>1, <1>5, <1>6

(* How many batches a thread has behind it, and how many barriers: two to a*)
(* batch.                                                                  *)
Waits == {"arrive", "asleep", "woken"}
Sleeps == {"asleep", "woken"}
Ended == {"gone", "returned"}
Stage(r) == r.epoch * Batches + r.batch
Second(r) == r.at = "merge" \/ (r.at \in Waits /\ r.gate = 2)
Passes(r) == 2 * Stage(r) + (IF Second(r) THEN 1 ELSE IF r.at \in Ended THEN 2 ELSE 0)
InPlace(r, n) ==
    IF r.at \in Sleeps THEN Passes(r) = r.seen /\ (r.seen = n \/ (r.at = "woken" /\ r.seen + 1 = n))
    ELSE Passes(r) = n
Waiting == {t \in Team : thread[t].at \in Sleeps /\ thread[t].seen = opened}

(* A thread has passed the barrier as often as it has opened, or, when it  *)
(* has been woken and has not looked yet, once less.                       *)
AtBarrier ==
    /\ arrivals \in Nat \ {0} /\ arrivals + Cardinality(Waiting) = call.threads
    /\ \A t \in Team : InPlace(thread[t], opened)
    /\ \A t \in Team : thread[t].at = "merge" => t = 0

(* What threads that add later do not do.                                  *)
Works(r, t) ==
    /\ r.at # "force" => r.forces = <<>>
    /\ r.at \notin {"load", "store"}
    /\ r.at = "clear" => r.left = Stripe(t, r.batch)

(* The batches a thread has behind it, and its passes of the barrier, are  *)
(* numbers.                                                                *)
LEMMA StageType ==
    ASSUME LayoutType, NEW r \in ThreadType
    PROVE  /\ Stage(r) \in Nat /\ r.epoch \in Nat /\ r.batch \in Nat /\ r.batch < Batches
           /\ Batches \in Nat \ {0} /\ r.epoch * Batches \in Nat /\ Passes(r) \in Nat
<1>1. r.epoch \in Nat /\ r.batch \in Nat /\ r.batch < Batches /\ Batches \in Nat \ {0}
  <2>1. r.epoch \in 0..(call.epochs - 1) /\ r.batch \in BatchIds
    BY DEF ThreadType
  <2> QED
    BY <2>1, TypeGives
<1> DEFINE a == r.epoch  b == Batches  p == r.epoch * Batches  c == r.batch
<1>2. a \in Nat /\ b \in Nat /\ p = a * b /\ c \in Nat
  BY <1>1
<1> HIDE DEF a, b
<1>3. p \in Nat
  <2> HIDE DEF p
  <2> QED
    BY <1>2
<1>4. Stage(r) = p + c
  BY DEF Stage
<1> HIDE DEF p, c
<1>5. Stage(r) \in Nat
  BY <1>2, <1>3, <1>4
<1>6. Passes(r) \in Nat
  BY <1>5 DEF Passes
<1> QED
  BY <1>1, <1>3, <1>5, <1>6 DEF p

(* The number of batches tells the epoch and the batch.                    *)
LEMMA StageTells ==
    ASSUME LayoutType, NEW r \in ThreadType, NEW q \in ThreadType, Stage(r) = Stage(q)
    PROVE  r.epoch = q.epoch /\ r.batch = q.batch
<1> DEFINE B == Batches  a == r.epoch * B  c == q.epoch * B
<1>1. /\ r.epoch \in Nat /\ r.batch \in Nat /\ r.batch < B /\ q.epoch \in Nat /\ q.batch \in Nat /\ q.batch < B
      /\ B \in Nat /\ a \in Nat /\ c \in Nat
  BY StageType
<1>2. a + r.batch = c + q.batch
  BY DEF Stage
<1>3. r.epoch < q.epoch => a + B <= c
  <2> HIDE DEF B
  <2> QED
    BY <1>1, TimesLess
<1>4. q.epoch < r.epoch => c + B <= a
  <2> HIDE DEF B
  <2> QED
    BY <1>1, TimesLess
<1>5. r.epoch = q.epoch
  <2> DEFINE i == r.batch  j == q.batch  m == r.epoch  n == q.epoch
  <2>1. /\ a \in Nat /\ c \in Nat /\ B \in Nat /\ i \in Nat /\ j \in Nat /\ m \in Nat /\ n \in Nat
        /\ i < B /\ j < B /\ a + i = c + j /\ (m < n => a + B <= c) /\ (n < m => c + B <= a)
    BY <1>1, <1>2, <1>3, <1>4
  <2> HIDE DEF a, c, B, i, j, m, n
  <2>2. m = n
    BY <2>1
  <2> QED
    BY <2>2 DEF m, n
<1>6. a = c
  BY <1>5
<1> QED
  <2> HIDE DEF a, c, B
  <2> QED
    BY <1>1, <1>2, <1>5, <1>6

(* A thread that has left was in the last batch.                           *)
LEMMA StageLast ==
    ASSUME LayoutType, NEW r, NEW t, Right(r, t), r.at \in Ended, NEW q \in ThreadType
    PROVE  Stage(q) <= Stage(r)
<1> DEFINE B == Batches  a == r.epoch * B  c == q.epoch * B
<1>1. r \in ThreadType /\ r.epoch = call.epochs - 1 /\ r.batch = Batches - 1
  BY DEF Right, Ended
<1>2. /\ r.epoch \in Nat /\ r.batch \in Nat /\ q.epoch \in Nat /\ q.batch \in Nat /\ q.batch < B
      /\ B \in Nat \ {0} /\ a \in Nat /\ c \in Nat
  BY <1>1, StageType
<1>3. q.epoch <= r.epoch
  <2>1. q.epoch \in 0..(call.epochs - 1)
    BY DEF ThreadType
  <2> QED
    BY <1>1, <2>1, TypeGives
<1>4. c <= a
  <2> HIDE DEF B
  <2> QED
    BY <1>2, <1>3, TimesGrow
<1>5. Stage(q) = c + q.batch /\ Stage(r) = a + r.batch /\ r.batch = B - 1
  BY <1>1 DEF Stage
<1> HIDE DEF a, c, B
<1> QED
  BY <1>2, <1>4, <1>5

(* A thread that goes on begins the next batch or leaves.                  *)
LEMMA StageOnward ==
    ASSUME LayoutType, ThreadsRight, Route = "merged", NEW t \in Team, NEW r, r = thread[t], NEW q, q = Onward(t)
    PROVE  \/ /\ q.at = "clear" /\ Stage(q) = Stage(r) + 1 /\ q.left = Stripe(t, q.batch)
              /\ q.forces = r.forces /\ q.seen = r.seen
           \/ /\ q.at = "gone" /\ Stage(q) = Stage(r) /\ q.forces = r.forces /\ q.seen = r.seen
<1> DEFINE B == Batches
<1>1. r \in ThreadType /\ FirstStep = "clear"
  BY TypeGives DEF FirstStep
<1>2. q = IF r.batch + 1 < Batches
          THEN [r EXCEPT !.at = FirstStep, !.batch = @ + 1, !.left = Stripe(t, r.batch + 1)]
          ELSE IF r.epoch + 1 < call.epochs
          THEN [r EXCEPT !.at = FirstStep, !.epoch = @ + 1, !.batch = 0, !.left = Stripe(t, 0)]
          ELSE [r EXCEPT !.at = "gone"]
  BY DEF Onward
<1>3. r.epoch \in Nat /\ r.batch \in Nat /\ r.batch < B /\ B \in Nat \ {0}
  BY <1>1, StageType
<1>4. CASE r.batch + 1 < Batches
  <2>1. /\ q.at = "clear" /\ q.batch = r.batch + 1 /\ q.epoch = r.epoch /\ q.left = Stripe(t, q.batch)
        /\ q.forces = r.forces /\ q.seen = r.seen
    BY <1>1, <1>2, <1>4 DEF ThreadType
  <2> DEFINE a == r.epoch * B  c == r.batch
  <2>2. Stage(q) = a + (c + 1) /\ Stage(r) = a + c /\ c \in Nat /\ a \in Nat
    BY <1>1, <2>1, StageType DEF Stage
  <2> HIDE DEF a, c
  <2>3. Stage(q) = Stage(r) + 1
    BY <2>2
  <2> QED
    BY <2>1, <2>3
<1>5. CASE ~(r.batch + 1 < Batches) /\ r.epoch + 1 < call.epochs
  <2>1. /\ q.at = "clear" /\ q.batch = 0 /\ q.epoch = r.epoch + 1 /\ q.left = Stripe(t, q.batch)
        /\ q.forces = r.forces /\ q.seen = r.seen
    BY <1>1, <1>2, <1>5 DEF ThreadType
  <2> DEFINE n == r.epoch  c == r.batch
  <2>2. Stage(q) = (n + 1) * B + 0 /\ Stage(r) = n * B + c /\ c = B - 1 /\ n \in Nat
    BY <1>3, <1>5, <2>1 DEF Stage
  <2>3. Stage(q) = Stage(r) + 1
    <3> HIDE DEF n, c, B
    <3>1. (n + 1) * B = n * B + B /\ n * B \in Nat
      BY <1>3, <2>2
    <3> QED
      BY <1>3, <2>2, <3>1
  <2> QED
    BY <2>1, <2>3
<1>6. CASE ~(r.batch + 1 < Batches) /\ ~(r.epoch + 1 < call.epochs)
  <2>1. q = [r EXCEPT !.at = "gone"]
    BY <1>2, <1>6
  <2>2. q.at = "gone" /\ q.epoch = r.epoch /\ q.batch = r.batch /\ q.forces = r.forces /\ q.seen = r.seen
    BY <1>1, <2>1 DEF ThreadType
  <2> QED
    BY <2>2 DEF Stage
<1> QED
  BY <1>4, <1>5, <1>6

(* Each barrier that lets a thread through counts as one.                  *)
LEMMA PassedCounts ==
    ASSUME LayoutType, ThreadsRight, Route = "merged", NEW t \in Team, NEW r, r = thread[t], r.at \in Waits,
           NEW q, q = Passed(t)
    PROVE  /\ Passes(q) = Passes(r) + 1 /\ q.at \notin Sleeps /\ q.at # "force" /\ q.at \notin {"load", "store"}
           /\ q.at = "merge" => t = 0
           /\ q.at = "clear" => q.left = Stripe(t, q.batch)
           /\ q.forces = r.forces /\ q.seen = r.seen
<1>1. r \in ThreadType /\ r.gate \in {1, 2} /\ Stage(r) \in Nat
  <2>1. r \in ThreadType
    BY TypeGives
  <2> QED
    BY <2>1, StageType DEF ThreadType
<1>2. q = IF r.gate = 2 \/ Route = "atomic" THEN Onward(t)
          ELSE IF Route = "merged" /\ t = 0 THEN [r EXCEPT !.at = "merge"]
          ELSE [r EXCEPT !.at = "arrive", !.gate = 2]
  BY DEF Passed
<1>3. CASE r.gate = 2
  <2>1. q = Onward(t)
    BY <1>2, <1>3
  <2>2. \/ /\ q.at = "clear" /\ Stage(q) = Stage(r) + 1 /\ q.left = Stripe(t, q.batch)
           /\ q.forces = r.forces /\ q.seen = r.seen
        \/ /\ q.at = "gone" /\ Stage(q) = Stage(r) /\ q.forces = r.forces /\ q.seen = r.seen
    BY <2>1, StageOnward
  <2>3. Passes(r) = 2 * Stage(r) + 1
    BY <1>3 DEF Passes, Second
  <2>4. Passes(q) = 2 * Stage(r) + 2
    BY <1>1, <2>2 DEF Passes, Second, Waits, Ended
  <2> QED
    BY <1>1, <2>2, <2>3, <2>4 DEF Sleeps
<1>4. CASE r.gate = 1
  <2>1. q = IF t = 0 THEN [r EXCEPT !.at = "merge"] ELSE [r EXCEPT !.at = "arrive", !.gate = 2]
    BY <1>2, <1>4
  <2>2. /\ q.epoch = r.epoch /\ q.batch = r.batch /\ q.forces = r.forces /\ q.seen = r.seen
        /\ q.at \in {"merge", "arrive"} /\ (q.at = "merge" => t = 0) /\ (q.at = "arrive" => q.gate = 2)
    BY <1>1, <2>1 DEF ThreadType
  <2>3. Stage(q) = Stage(r)
    BY <2>2 DEF Stage
  <2>4. Second(q) /\ ~Second(r) /\ r.at \notin Ended
    BY <1>4, <2>2 DEF Second, Waits, Ended
  <2>5. Passes(q) = 2 * Stage(r) + 1 /\ Passes(r) = 2 * Stage(r) + 0
    BY <2>3, <2>4 DEF Passes
  <2> QED
    BY <1>1, <2>2, <2>5 DEF Sleeps
<1> QED
  BY <1>1, <1>3, <1>4

(* A thread's place depends on the call and on the thread alone.           *)
LEMMA StageStays ==
    ASSUME call' = call, edges' = edges
    PROVE  /\ \A r : Stage(r)' = Stage(r) /\ Passes(r)' = Passes(r)
           /\ \A r, n : InPlace(r, n)' <=> InPlace(r, n)
           /\ \A r, t : Works(r, t)' <=> Works(r, t)
<1>1. Batches' = Batches /\ \A t, b : Stripe(t, b)' = Stripe(t, b)
  BY CallStays
<1>2. \A r : Stage(r)' = Stage(r)
  BY <1>1 DEF Stage
<1>3. \A r : Passes(r)' = Passes(r)
  BY <1>2 DEF Passes, Second
<1>4. \A r, n : InPlace(r, n)' <=> InPlace(r, n)
  BY <1>3 DEF InPlace
<1>5. \A r, t : Works(r, t)' <=> Works(r, t)
  BY <1>1 DEF Works
<1> QED
  BY <1>2, <1>3, <1>4, <1>5

(* AtBarrier after a step, without primes.                                 *)
LEMMA BarrierAfter ==
    ASSUME LayoutType, call' = call, edges' = edges, arrivals' \in Nat \ {0},
           NEW W, W = {t \in Team : thread'[t].at \in Sleeps /\ thread'[t].seen = opened'},
           arrivals' + Cardinality(W) = call.threads,
           \A t \in Team : InPlace(thread'[t], opened') /\ (thread'[t].at = "merge" => t = 0)
    PROVE  AtBarrier'
<1>1. Team' = Team
  BY CallStays
<1>2. \A r, n : InPlace(r, n)' <=> InPlace(r, n)
  BY StageStays
<1>3. Waiting' = W
  BY <1>1 DEF Waiting
<1>4. (\A t \in Team : InPlace(thread[t], opened))'
  BY <1>1, <1>2
<1> QED
  BY <1>1, <1>3, <1>4 DEF AtBarrier

(* A thread that neither comes to the barrier nor passes it.               *)
LEMMA StillThere ==
    ASSUME LayoutType, AtBarrier, NEW t \in Team, NEW r, r = thread[t], NEW q,
           thread' = [thread EXCEPT ![t] = q], UNCHANGED <<call, edges, arrivals, opened>>,
           Passes(q) = Passes(r), q.at \in Sleeps <=> r.at \in Sleeps,
           q.at \in Sleeps => q.seen = r.seen /\ (q.at = "woken" \/ r.seen = opened),
           q.at = "merge" => t = 0
    PROVE  AtBarrier'
<1>1. thread'[t] = q /\ \A s \in Team : s # t => thread'[s] = thread[s]
  BY DEF LayoutType
<1>2. {s \in Team : thread'[s].at \in Sleeps /\ thread'[s].seen = opened'} = Waiting
  <2> SUFFICES ASSUME NEW s \in Team
               PROVE  thread'[s].at \in Sleeps /\ thread'[s].seen = opened' <=> thread[s].at \in Sleeps /\ thread[s].seen = opened
    BY DEF Waiting
  <2>1. CASE s = t
    BY <1>1, <2>1
  <2>2. CASE s # t
    BY <1>1, <2>2
  <2> QED
    BY <2>1, <2>2
<1>3. ASSUME NEW s \in Team PROVE InPlace(thread'[s], opened) /\ (thread'[s].at = "merge" => s = 0)
  <2>1. InPlace(thread[s], opened) /\ (thread[s].at = "merge" => s = 0)
    BY DEF AtBarrier
  <2>2. CASE s = t
    <3>1. InPlace(r, opened)
      BY <2>1, <2>2
    <3>2. InPlace(q, opened)
      <4>1. CASE q.at \in Sleeps
        BY <3>1, <4>1 DEF InPlace, Sleeps
      <4>2. CASE q.at \notin Sleeps
        BY <3>1, <4>2 DEF InPlace
      <4> QED
        BY <4>1, <4>2
    <3> QED
      BY <1>1, <2>2, <3>2
  <2>3. CASE s # t
    BY <1>1, <2>1, <2>3
  <2> QED
    BY <2>2, <2>3
<1>4. arrivals' \in Nat \ {0} /\ arrivals' + Cardinality(Waiting) = call.threads
  BY DEF AtBarrier
<1> QED
  BY <1>2, <1>3, <1>4, BarrierAfter

(* The last thread to come lets all the others through: they all wait.     *)
LEMMA AllWait ==
    ASSUME LayoutType, AtBarrier, arrivals = 1, NEW t \in Team, thread[t].at \notin Sleeps
    PROVE  \A s \in Team : s # t => s \in Waiting
<1>1. /\ IsFiniteSet(Team) /\ Cardinality(Team) = call.threads /\ call.threads \in Nat
  <2>1. call.threads \in Nat
    BY TypeGives
  <2> QED
    BY <2>1, FirstNumbers DEF Team
<1> DEFINE O == Team \ {t}
<1>2. IsFiniteSet(O) /\ Cardinality(O) = call.threads - 1
  BY <1>1, FS_RemoveElement
<1>3. Waiting \subseteq O
  BY DEF Waiting
<1>4. Cardinality(Waiting) \in Nat /\ Cardinality(Waiting) = call.threads - 1
  <2>1. Cardinality(Waiting) \in Nat
    BY <1>2, <1>3, Within
  <2>2. 1 + Cardinality(Waiting) = call.threads
    BY DEF AtBarrier
  <2> QED
    BY <1>1, <2>1, <2>2
<1>5. Waiting = O
  <2> HIDE DEF O
  <2>1. Cardinality(O) \in Nat /\ (Waiting # O => Cardinality(Waiting) < Cardinality(O))
    BY <1>2, <1>3, Within
  <2> QED
    BY <1>2, <1>4, <2>1
<1> QED
  BY <1>5

(* A thread that arrives keeps the count: it is one more that waits, or,   *)
(* the last one, opens the barrier for all.                                *)
LEMMA ArriveAtBarrier ==
    ASSUME LayoutType, ThreadsRight, Route = "merged", AtBarrier, NEW t \in Team, Arrive(t)
    PROVE  AtBarrier'
<1> DEFINE r == thread[t]
<1>1. /\ r \in ThreadType /\ r.at = "arrive" /\ opened \in Nat /\ InPlace(r, opened) /\ Passes(r) = opened
      /\ UNCHANGED <<call, edges>> /\ thread \in [Team -> ThreadType]
  <2>1. r \in ThreadType /\ r.at = "arrive" /\ UNCHANGED <<call, edges>> /\ thread \in [Team -> ThreadType] /\ opened \in Nat
    BY TypeGives DEF Arrive, LayoutType
  <2>2. InPlace(r, opened)
    BY DEF AtBarrier
  <2>3. r.at \notin Sleeps
    BY <2>1 DEF Sleeps
  <2> QED
    BY <2>1, <2>2, <2>3 DEF InPlace
<1>2. r.at \in Waits /\ r.at \notin Sleeps
  BY <1>1 DEF Waits, Sleeps
<1>3. call.threads \in Nat \ {0} /\ IsFiniteSet(Team) /\ arrivals \in Nat \ {0} /\ arrivals + Cardinality(Waiting) = call.threads
  BY TypeGives DEF AtBarrier
<1>4. CASE arrivals = 1
  <2>1. /\ arrivals' = call.threads /\ opened' = opened + 1
        /\ thread' = [s \in Team |->
              IF s = t THEN Passed(t)
              ELSE IF thread[s].at = "asleep" THEN [thread[s] EXCEPT !.at = "woken"]
              ELSE thread[s]]
    BY <1>4 DEF Arrive, Refilled
  <2>2. \A s \in Team : s # t => s \in Waiting
    BY <1>2, <1>4, AllWait
  <2> DEFINE q == Passed(t)
  <2>3. Passes(q) = Passes(r) + 1 /\ q.at \notin Sleeps /\ (q.at = "merge" => t = 0)
    <3> HIDE DEF q
    <3> QED
      BY <1>2, PassedCounts DEF q
  <2>4. thread'[t] = q
    BY <2>1
  <2> HIDE DEF q
  <2>5. ASSUME NEW s \in Team, s # t
        PROVE  /\ thread'[s].at = "woken" /\ thread'[s].seen = opened /\ InPlace(thread'[s], opened + 1)
    <3>1. thread[s].at \in Sleeps /\ thread[s].seen = opened /\ thread[s] \in ThreadType
      BY <1>1, <2>2, <2>5 DEF Waiting
    <3>2. InPlace(thread[s], opened)
      BY DEF AtBarrier
    <3>3. Passes(thread[s]) = opened
      BY <3>1, <3>2 DEF InPlace
    <3>4. /\ thread'[s].at = "woken" /\ thread'[s].seen = opened /\ thread'[s].gate = thread[s].gate
          /\ thread'[s].epoch = thread[s].epoch /\ thread'[s].batch = thread[s].batch
      <4>1. thread'[s] = IF thread[s].at = "asleep" THEN [thread[s] EXCEPT !.at = "woken"] ELSE thread[s]
        BY <2>1, <2>5
      <4> QED
        BY <3>1, <4>1 DEF ThreadType, Sleeps
    <3>5. Passes(thread'[s]) = Passes(thread[s])
      BY <3>1, <3>4 DEF Passes, Second, Stage, Waits, Sleeps, Ended
    <3> QED
      BY <3>3, <3>4, <3>5 DEF InPlace, Sleeps
  <2>6. InPlace(thread'[t], opened + 1)
    BY <1>1, <2>3, <2>4 DEF InPlace
  <2>7. \A s \in Team : InPlace(thread'[s], opened') /\ (thread'[s].at = "merge" => s = 0)
    BY <2>1, <2>3, <2>4, <2>5, <2>6
  <2>8. {s \in Team : thread'[s].at \in Sleeps /\ thread'[s].seen = opened'} = {}
    <3> SUFFICES ASSUME NEW s \in Team, thread'[s].at \in Sleeps, thread'[s].seen = opened' PROVE FALSE
      OBVIOUS
    <3>1. s # t
      BY <2>3, <2>4
    <3>2. opened = opened + 1
      BY <2>1, <2>5, <3>1
    <3> QED
      BY <1>1, <3>2
  <2>9. Cardinality({}) = 0
    BY FS_EmptySet
  <2>10. arrivals' \in Nat \ {0} /\ arrivals' + Cardinality({}) = call.threads
    BY <1>3, <2>1, <2>9
  <2> QED
    BY <1>1, <2>7, <2>8, <2>10, BarrierAfter
<1>5. CASE arrivals # 1
  <2> DEFINE q == [r EXCEPT !.at = "asleep", !.seen = opened]
  <2>1. /\ arrivals' = arrivals - 1 /\ opened' = opened
        /\ thread' = [thread EXCEPT ![t] = q]
    BY <1>1, <1>5 DEF Arrive
  <2>2. q.at = "asleep" /\ q.seen = opened /\ q.gate = r.gate /\ q.epoch = r.epoch /\ q.batch = r.batch
    BY <1>1 DEF ThreadType
  <2>3. thread'[t] = q /\ \A s \in Team : s # t => thread'[s] = thread[s]
    BY <1>1, <2>1
  <2> HIDE DEF q
  <2>4. Passes(q) = Passes(r)
    BY <1>1, <2>2 DEF Passes, Second, Stage, Waits, Ended
  <2>5. InPlace(q, opened)
    BY <1>1, <2>2, <2>4 DEF InPlace, Sleeps
  <2>6. \A s \in Team : InPlace(thread'[s], opened') /\ (thread'[s].at = "merge" => s = 0)
    BY <2>1, <2>2, <2>3, <2>5 DEF AtBarrier
  <2>7. {s \in Team : thread'[s].at \in Sleeps /\ thread'[s].seen = opened'} = Waiting \cup {t}
    <3> DEFINE W == {s \in Team : thread'[s].at \in Sleeps /\ thread'[s].seen = opened'}
    <3>1. t \in W
      BY <2>1, <2>2, <2>3 DEF Sleeps
    <3>2. \A s \in Team : s # t => (s \in W <=> s \in Waiting)
      BY <2>1, <2>3 DEF Waiting
    <3>3. W \subseteq Team /\ Waiting \subseteq Team
      BY DEF Waiting
    <3> HIDE DEF W
    <3> QED
      BY <3>1, <3>2, <3>3 DEF W
  <2>8. t \notin Waiting /\ Waiting \subseteq Team
    BY <1>2 DEF Waiting
  <2>9. IsFiniteSet(Waiting) /\ Cardinality(Waiting) \in Nat
    BY <1>3, <2>8, Within
  <2>10. Cardinality(Waiting \cup {t}) = Cardinality(Waiting) + 1
    BY <2>8, <2>9, FS_AddElement
  <2>11. arrivals' \in Nat \ {0} /\ arrivals' + Cardinality(Waiting \cup {t}) = call.threads
    BY <1>3, <1>5, <2>1, <2>9, <2>10
  <2> QED
    BY <1>1, <2>6, <2>7, <2>11, BarrierAfter
<1> QED
  BY <1>4, <1>5

(* An edge taken up by a thread that adds later is given its due.          *)
LEMMA NextEdgeGives ==
    ASSUME ThreadIInv, Route \in Summed, NEW t \in Team, NextEdge(t), NEW r, r = thread[t], NEW e, e = Min(r.left)
    PROVE  /\ r \in ThreadType /\ Right(r, t) /\ r.at = "work" /\ e \in r.left /\ e \in EdgeIds
           /\ UNCHANGED <<call, edges, coords, delta, arrivals, opened>>
           /\ \E q \in ThreadType :
                 /\ thread' = [thread EXCEPT ![t] = q]
                 /\ q.left = r.left \ {e} /\ q.epoch = r.epoch /\ q.batch = r.batch
                 /\ q.forces = ForcesDue(r.epoch, e)
                 /\ q.at = IF q.forces = <<>> THEN "work" ELSE "force"
                 /\ q.forces # <<>> => q.edge = e
<1>1. LayoutType /\ ThreadsRight /\ Home /\ OnSchedule
  BY DEF ThreadIInv
<1>2. r \in ThreadType /\ Right(r, t) /\ r.at = "work" /\ e \in r.left /\ e \in EdgeIds
  BY <1>1, NextEdgeIs
<1>3. Route # "sampled" /\ Route \in {"merged", "shared"}
  BY DEF Summed
<1>4. r.epoch \in Nat /\ r.batch \in BatchIds /\ e \in Stripe(t, r.batch)
  BY SMTT(30), <1>1, <1>2, TypeGives DEF ThreadType, Right
<1>5. Scheduled(e, r.epoch)
  <2>1. Rounds(r, r.batch, e) = r.epoch
    BY <1>2, <1>4, TypeGives, <1>1 DEF Rounds
  <2> QED
    BY <1>1, <1>3, <1>4, <2>1 DEF OnSchedule
<1>6. SampleEdge(t, e) = e
  <2>1. CASE Route = "shared"
    <3>1. r.batch = 0
      BY <1>1, <1>4, <2>1, BatchesIs DEF LayoutType
    <3> QED
      BY <1>1, <1>4, <2>1, <3>1, SampleIs
  <2>2. CASE Route # "shared"
    BY <2>2 DEF SampleEdge
  <2> QED
    BY <2>1, <2>2
<1> DEFINE pulls == PullsNow(r.epoch, e)
           pushes == IF pulls = 0 THEN 0 ELSE PushesNow(r.epoch, e)
           from == PushedFrom(r.epoch, e, e, pushes)
           forces == [i \in 1..pulls |-> 0] \o from
           q == [r EXCEPT !.left = @ \ {e}, !.edge = IF pulls = 0 THEN 0 ELSE e, !.forces = forces,
                          !.at = IF pulls = 0 THEN "work" ELSE "force"]
<1>7. /\ thread' = [thread EXCEPT ![t].left = @ \ {e}, ![t].edge = IF pulls = 0 THEN 0 ELSE e,
                       ![t].forces = forces, ![t].at = IF pulls = 0 THEN "work" ELSE "force"]
      /\ UNCHANGED <<call, edges, coords, delta, arrivals, opened>>
  BY <1>3, <1>6 DEF NextEdge
<1>8. thread \in [Team -> ThreadType]
  BY <1>1 DEF LayoutType
<1>9. pulls \in {0, 1} /\ (pulls = 0 <=> ForcesDue(r.epoch, e) = <<>>) /\ forces = ForcesDue(r.epoch, e)
  <2>1. /\ pulls \in {0, 1}
        /\ pulls = 0 => ForcesDue(r.epoch, e) = <<>> /\ PushedFrom(r.epoch, e, e, 0) = <<>>
        /\ pulls = 1 =>
              /\ ForcesDue(r.epoch, e) = <<0>> \o PushedFrom(r.epoch, e, e, PushesNow(r.epoch, e))
              /\ ForcesDue(r.epoch, e) # <<>>
    BY <1>1, <1>2, <1>3, <1>4, <1>5, TakesDue
  <2>2. [i \in 1..0 |-> 0] = <<>> /\ [i \in 1..1 |-> 0] = <<0>> /\ <<>> \o <<>> = <<>>
    OBVIOUS
  <2>3. CASE pulls = 0
    <3>1. pushes = 0
      BY <2>3
    <3>2. from = <<>> /\ forces = [i \in 1..0 |-> 0] \o from
      BY <2>1, <2>3, <3>1
    <3> QED
      BY <2>1, <2>2, <2>3, <3>2
  <2>4. CASE pulls = 1
    <3>1. pushes = PushesNow(r.epoch, e)
      BY <2>4
    <3>2. forces = [i \in 1..1 |-> 0] \o PushedFrom(r.epoch, e, e, PushesNow(r.epoch, e))
      BY <2>4, <3>1
    <3> QED
      BY <2>1, <2>2, <2>4, <3>2
  <2> QED
    BY <2>1, <2>3, <2>4
<1> HIDE DEF pulls, forces
<1>10. thread' = [thread EXCEPT ![t] = q]
  BY <1>7, <1>8
<1>11. /\ q.left = r.left \ {e} /\ q.epoch = r.epoch /\ q.batch = r.batch
       /\ q.forces = forces /\ q.at = IF pulls = 0 THEN "work" ELSE "force"
       /\ pulls # 0 => q.edge = e
  BY <1>2 DEF ThreadType
<1>12. q \in ThreadType
  <2>1. thread' \in [Team -> ThreadType]
    BY <1>1, NextEdgeKept
  <2>2. thread'[t] = q
    BY <1>8, <1>10
  <2> HIDE DEF q
  <2> QED
    BY <2>1, <2>2
<1> HIDE DEF q
<1> QED
  BY <1>2, <1>7, <1>9, <1>10, <1>11, <1>12

(* A force of a thread that adds later goes to the sums.                   *)
LEMMA ForceGives ==
    ASSUME ThreadIInv, Route \in Summed, NEW t \in Team, ComputeForce(t), NEW r, r = thread[t],
           NEW slot, slot = IF Route = "shared" THEN 0 ELSE t
    PROVE  /\ r \in ThreadType /\ r.at = "force" /\ r.edge \in EdgeIds /\ r.forces # <<>>
           /\ Head(r.forces) \in 0..Len(call.start) /\ slot \in Team
           /\ UNCHANGED <<call, edges, coords, arrivals, opened>>
           /\ delta' = [delta EXCEPT ![slot] = AddAll(@, AddsOf(coords, r.epoch, r.edge, Head(r.forces)))]
           /\ \E q \in ThreadType :
                 /\ thread' = [thread EXCEPT ![t] = q]
                 /\ q.left = r.left /\ q.epoch = r.epoch /\ q.batch = r.batch /\ q.edge = r.edge
                 /\ q.forces = Tail(r.forces) /\ q.at \in {"work", "force"}
                 /\ q.at = "work" => q.forces = <<>>
<1>1. LayoutType /\ ThreadsRight /\ Home /\ OnSchedule /\ thread \in [Team -> ThreadType]
  BY DEF ThreadIInv, LayoutType
<1>2. r \in ThreadType /\ r.at = "force" /\ r.edge \in EdgeIds /\ r.forces # <<>>
  BY <1>1, TypeGives DEF ThreadsRight, ComputeForce, Right
<1>3. r.forces \in Seq(0..Len(call.start))
  BY <1>2 DEF ThreadType
<1>4. Head(r.forces) \in 0..Len(call.start) /\ (Len(r.forces) = 1 => Tail(r.forces) = <<>>)
  <2> DEFINE f == r.forces  S == 0..Len(call.start)
  <2>1. f # <<>> /\ f \in Seq(S)
    BY <1>2, <1>3
  <2> HIDE DEF f, S
  <2>2. Head(f) \in S
    BY <2>1
  <2>3. Len(f) = 1 => Tail(f) = <<>>
    <3>1. Len(Tail(f)) = Len(f) - 1 /\ Len(f) \in Nat
      BY <2>1
    <3>2. Tail(f) \in Seq(S)
      BY <2>1
    <3> DEFINE g == Tail(f)
    <3>3. g \in Seq(S) /\ (Len(f) = 1 => Len(g) = 0)
      BY <3>1, <3>2
    <3> HIDE DEF g
    <3>4. Len(g) = 0 => g = <<>>
      BY <3>3
    <3> QED
      BY <3>3, <3>4 DEF g
  <2> QED
    BY <2>2, <2>3 DEF f, S
<1>5. slot \in Team
  BY <1>1, TypeGives
<1> DEFINE q == [r EXCEPT !.forces = Tail(@), !.at = IF Len(r.forces) = 1 THEN "work" ELSE "force"]
<1>6. /\ UNCHANGED <<call, edges, coords, arrivals, opened>>
      /\ delta' = [delta EXCEPT ![slot] = AddAll(@, AddsOf(coords, r.epoch, r.edge, Head(r.forces)))]
      /\ thread' = [thread EXCEPT ![t].forces = Tail(@), ![t].at = IF Len(r.forces) = 1 THEN "work" ELSE "force"]
  BY DEF ComputeForce
<1>7. thread' = [thread EXCEPT ![t] = q]
  BY <1>1, <1>6
<1>8. /\ q.left = r.left /\ q.epoch = r.epoch /\ q.batch = r.batch /\ q.edge = r.edge /\ q.forces = Tail(r.forces)
      /\ q.at = IF Len(r.forces) = 1 THEN "work" ELSE "force"
  BY <1>2 DEF ThreadType
<1>9. q \in ThreadType
  <2>1. thread' \in [Team -> ThreadType]
    BY <1>1, ForceKept
  <2>2. thread'[t] = q
    BY <1>1, <1>7
  <2> HIDE DEF q
  <2> QED
    BY <2>1, <2>2
<1> HIDE DEF q
<1> QED
  BY <1>2, <1>4, <1>5, <1>6, <1>7, <1>8, <1>9

AllWork == \A t \in Team : Works(thread[t], t)

(* A thread that goes on has nothing in hand and all of its next stripe.   *)
LEMMA OnwardWorks ==
    ASSUME LayoutType, NEW t \in Team, NEW r, r = thread[t], r.forces = <<>>, NEW q, q = Onward(t)
    PROVE  /\ Works(q, t) /\ q.forces = <<>> /\ q.at \in {FirstStep, "gone"}
           /\ q.at = FirstStep => q.left = Stripe(t, q.batch)
<1>1. r \in ThreadType
  BY TypeGives
<1>2. q = IF r.batch + 1 < Batches
          THEN [r EXCEPT !.at = FirstStep, !.batch = @ + 1, !.left = Stripe(t, r.batch + 1)]
          ELSE IF r.epoch + 1 < call.epochs
          THEN [r EXCEPT !.at = FirstStep, !.epoch = @ + 1, !.batch = 0, !.left = Stripe(t, 0)]
          ELSE [r EXCEPT !.at = "gone"]
  BY DEF Onward
<1>3. /\ q.forces = <<>> /\ q.at \in {FirstStep, "gone"}
      /\ q.at = FirstStep => q.left = Stripe(t, q.batch)
  <2>1. CASE r.batch + 1 < Batches
    BY <1>1, <1>2, <2>1 DEF ThreadType
  <2>2. CASE ~(r.batch + 1 < Batches) /\ r.epoch + 1 < call.epochs
    BY <1>1, <1>2, <2>2 DEF ThreadType
  <2>3. CASE ~(r.batch + 1 < Batches) /\ ~(r.epoch + 1 < call.epochs)
    <3>1. q = [r EXCEPT !.at = "gone"] /\ FirstStep # "gone"
      BY <1>2, <2>3 DEF FirstStep
    <3> QED
      BY <1>1, <3>1 DEF ThreadType
  <2> QED
    BY <2>1, <2>2, <2>3
<1>4. FirstStep \in {"clear", "work"}
  BY DEF FirstStep
<1> QED
  BY <1>3, <1>4 DEF Works

(* A thread let through the barrier has nothing in hand.                   *)
LEMMA PassedWorks ==
    ASSUME LayoutType, NEW t \in Team, NEW r, r = thread[t], r.forces = <<>>, NEW q, q = Passed(t)
    PROVE  Works(q, t)
<1>1. r \in ThreadType
  BY TypeGives
<1>2. q = IF r.gate = 2 \/ Route = "atomic" THEN Onward(t)
          ELSE IF Route = "merged" /\ t = 0 THEN [r EXCEPT !.at = "merge"]
          ELSE [r EXCEPT !.at = "arrive", !.gate = 2]
  BY DEF Passed
<1>3. CASE q = Onward(t)
  BY <1>3, OnwardWorks
<1>4. CASE q = [r EXCEPT !.at = "merge"] \/ q = [r EXCEPT !.at = "arrive", !.gate = 2]
  <2>1. q.forces = <<>> /\ q.at \in {"merge", "arrive"}
    BY <1>1, <1>4 DEF ThreadType
  <2> QED
    BY <2>1 DEF Works
<1> QED
  BY <1>2, <1>3, <1>4

(* What threads do not do, stated of the threads after a step.             *)
LEMMA WorkAfter ==
    ASSUME call' = call, edges' = edges, \A s \in Team : Works(thread'[s], s)
    PROVE  AllWork'
<1>1. Team' = Team /\ \A r, t : Works(r, t)' <=> Works(r, t)
  BY CallStays, StageStays
<1> QED
  BY <1>1 DEF AllWork

(* The same, where one thread moves.                                       *)
LEMMA OneWorks ==
    ASSUME LayoutType, AllWork, NEW t \in Team, NEW q, thread' = [thread EXCEPT ![t] = q], Works(q, t),
           call' = call, edges' = edges
    PROVE  AllWork'
<1>1. \A s \in Team : Works(thread'[s], s)
  BY DEF LayoutType, AllWork
<1> QED
  BY <1>1, WorkAfter

(* A thread that moves with nothing in hand. *)
LEMMA MovedWorks ==
    ASSUME NEW r, NEW t, Works(r, t), r.at # "force", NEW q, q.forces = r.forces,
           q.at \notin {"load", "store", "clear"}
    PROVE  Works(q, t)
BY DEF Works

(* Every step of threads that add later keeps what they do not do.         *)
LEMMA WorksKept ==
    ASSUME ThreadIInv, Route \in Summed, AllWork, NEW t \in Team, LayoutThread(t) \/ WakeAnyway(t) \/ Fail(t)
    PROVE  AllWork'
<1> DEFINE r == thread[t]
<1>1. /\ LayoutType /\ ThreadsRight /\ Home /\ OnSchedule /\ r \in ThreadType /\ Right(r, t) /\ Works(r, t)
      /\ 0 \in Team /\ thread \in [Team -> ThreadType] /\ Route \in {"merged", "shared"}
  BY TypeGives DEF ThreadIInv, ThreadsRight, LayoutType, AllWork, Summed
<1>2. CASE Clear(t)
  <2> DEFINE q == [r EXCEPT !.at = "work"]
  <2>1. thread' = [thread EXCEPT ![t] = q] /\ call' = call /\ edges' = edges /\ r.at = "clear"
    BY <1>1, <1>2 DEF Clear
  <2>2. q.at = "work" /\ q.forces = r.forces
    BY <1>1 DEF ThreadType
  <2> HIDE DEF q, r
  <2> QED
    BY <1>1, <2>1, <2>2, MovedWorks, OneWorks
<1>3. CASE EndStripe(t)
  <2>1. PICK q \in {[r EXCEPT !.at = "done"], [r EXCEPT !.at = "arrive", !.gate = 1]} : thread' = [thread EXCEPT ![t] = q]
    <3>1. thread' = [thread EXCEPT ![t] =
              IF Route \in Joined THEN [r EXCEPT !.at = "done"] ELSE [r EXCEPT !.at = "arrive", !.gate = 1]]
      BY <1>1, <1>3 DEF EndStripe, Joined, Gated
    <3> QED
      BY <3>1
  <2>2. q.at \in {"done", "arrive"} /\ q.forces = r.forces
    BY <1>1 DEF ThreadType
  <2>3. call' = call /\ edges' = edges /\ r.at = "work"
    BY <1>3 DEF EndStripe
  <2> HIDE DEF r
  <2> QED
    BY <1>1, <2>1, <2>2, <2>3, MovedWorks, OneWorks
<1>4. CASE NextEdge(t)
  <2> DEFINE e == Min(r.left)
  <2>1. /\ call' = call /\ edges' = edges
        /\ \E q \in ThreadType :
                 /\ thread' = [thread EXCEPT ![t] = q]
                 /\ q.at = IF q.forces = <<>> THEN "work" ELSE "force"
    BY <1>1, <1>4, NextEdgeGives
  <2>2. PICK q \in ThreadType : thread' = [thread EXCEPT ![t] = q] /\ q.at = IF q.forces = <<>> THEN "work" ELSE "force"
    BY <2>1
  <2>3. Works(q, t)
    BY <2>2 DEF Works
  <2> QED
    BY <1>1, <2>1, <2>2, <2>3, OneWorks
<1>5. CASE ComputeForce(t)
  <2> DEFINE slot == IF Route = "shared" THEN 0 ELSE t
  <2>1. /\ call' = call /\ edges' = edges
        /\ \E q \in ThreadType :
                 /\ thread' = [thread EXCEPT ![t] = q]
                 /\ q.at \in {"work", "force"} /\ (q.at = "work" => q.forces = <<>>)
    BY <1>1, <1>5, ForceGives
  <2>2. PICK q \in ThreadType : thread' = [thread EXCEPT ![t] = q] /\ q.at \in {"work", "force"} /\ (q.at = "work" => q.forces = <<>>)
    BY <2>1
  <2>3. Works(q, t)
    BY <2>2 DEF Works
  <2> QED
    BY <1>1, <2>1, <2>2, <2>3, OneWorks
<1>6. ~Load(t) /\ ~Store(t)
  BY <1>1 DEF Load, Store, Works
<1>7. CASE Arrive(t)
  <2>1. r.forces = <<>> /\ call' = call /\ edges' = edges /\ r.at = "arrive"
    BY <1>1, <1>7 DEF Arrive, Works
  <2>2. CASE arrivals = 1
    <3>1. thread' = [s \in Team |->
              IF s = t THEN Passed(t)
              ELSE IF thread[s].at = "asleep" THEN [thread[s] EXCEPT !.at = "woken"]
              ELSE thread[s]]
      BY <1>7, <2>2 DEF Arrive
    <3>2. ASSUME NEW s \in Team PROVE Works(thread'[s], s)
      <4> DEFINE p == thread[s]
      <4>1. p \in ThreadType /\ Works(p, s)
        BY <1>1 DEF AllWork
      <4>2. CASE s = t
        BY <1>1, <2>1, <3>1, <4>2, PassedWorks
      <4>3. CASE s # t /\ p.at = "asleep"
        <5> DEFINE q == [p EXCEPT !.at = "woken"]
        <5>1. q.at = "woken" /\ q.forces = p.forces
          BY <4>1 DEF ThreadType
        <5>2. thread'[s] = q
          BY <3>1, <4>3
        <5> HIDE DEF p, q
        <5> QED
          BY <4>1, <4>3, <5>1, <5>2, MovedWorks
      <4>4. CASE s # t /\ p.at # "asleep"
        BY <3>1, <4>1, <4>4
      <4> QED
        BY <4>2, <4>3, <4>4
    <3> QED
      BY <2>1, <3>2, WorkAfter
  <2>3. CASE arrivals # 1
    <3> DEFINE q == [r EXCEPT !.at = "asleep", !.seen = opened]
    <3>1. thread' = [thread EXCEPT ![t] = q]
      BY <1>1, <1>7, <2>3 DEF Arrive
    <3>2. q.at = "asleep" /\ q.forces = r.forces
      BY <1>1 DEF ThreadType
    <3> HIDE DEF q, r
    <3> QED
      BY <1>1, <2>1, <3>1, <3>2, MovedWorks, OneWorks
  <2> QED
    BY <2>2, <2>3
<1>8. CASE Awake(t)
  <2>1. r.forces = <<>> /\ call' = call /\ edges' = edges /\ r.at = "woken"
    BY <1>1, <1>8 DEF Awake, Works
  <2>2. CASE Opened(t)
    <3> DEFINE p == Passed(t)  q == [p EXCEPT !.seen = 0]
    <3>1. thread' = [thread EXCEPT ![t] = q]
      BY <1>8, <2>2 DEF Awake
    <3>2. p \in ThreadType
      BY <1>1, <2>1, PassedKept DEF Kept, Right
    <3>3. Works(p, t)
      BY <1>1, <2>1, PassedWorks
    <3> HIDE DEF p
    <3>4. q.at = p.at /\ q.forces = p.forces /\ q.left = p.left /\ q.batch = p.batch
      BY <3>2 DEF ThreadType
    <3> HIDE DEF q
    <3>5. Works(q, t)
      BY <3>3, <3>4 DEF Works
    <3> QED
      BY <1>1, <2>1, <3>1, <3>5, OneWorks
  <2>3. CASE ~Opened(t)
    <3> DEFINE q == [r EXCEPT !.at = "asleep"]
    <3>1. thread' = [thread EXCEPT ![t] = q]
      BY <1>1, <1>8, <2>3 DEF Awake
    <3>2. q.at = "asleep" /\ q.forces = r.forces
      BY <1>1 DEF ThreadType
    <3> HIDE DEF q, r
    <3> QED
      BY <1>1, <2>1, <3>1, <3>2, MovedWorks, OneWorks
  <2> QED
    BY <2>2, <2>3
<1>9. CASE WakeAnyway(t)
  <2> DEFINE q == [r EXCEPT !.at = "woken"]
  <2>1. thread' = [thread EXCEPT ![t] = q] /\ call' = call /\ edges' = edges /\ r.at = "asleep"
    BY <1>1, <1>9 DEF WakeAnyway
  <2>2. q.at = "woken" /\ q.forces = r.forces
    BY <1>1 DEF ThreadType
  <2> HIDE DEF q, r
  <2> QED
    BY <1>1, <2>1, <2>2, MovedWorks, OneWorks
<1>10. CASE Fail(t)
  <2> DEFINE q == [r EXCEPT !.at = "failed"]
  <2>1. thread' = [thread EXCEPT ![t] = q] /\ call' = call /\ edges' = edges /\ r.at = "work"
    BY <1>1, <1>10 DEF Fail
  <2>2. q.at = "failed" /\ q.forces = r.forces
    BY <1>1 DEF ThreadType
  <2> HIDE DEF q, r
  <2> QED
    BY <1>1, <2>1, <2>2, MovedWorks, OneWorks
<1>11. CASE Merge
  <2> DEFINE p == thread[0]  q == [p EXCEPT !.at = "arrive", !.gate = 2]
  <2>1. thread' = [thread EXCEPT ![0] = q] /\ call' = call /\ edges' = edges /\ p.at = "merge"
    BY <1>1, <1>11 DEF Merge
  <2>2. p \in ThreadType /\ Works(p, 0)
    BY <1>1 DEF AllWork
  <2>3. q.at = "arrive" /\ q.forces = p.forces
    BY <2>2 DEF ThreadType
  <2> HIDE DEF q, p
  <2> QED
    BY <1>1, <2>1, <2>2, <2>3, MovedWorks, OneWorks
<1>12. CASE JoinEpoch
  <2>1. call' = call /\ edges' = edges /\ \A s \in Team : thread[s].at \in {"done", "failed"}
    BY <1>12 DEF JoinEpoch
  <2>2. ASSUME NEW s \in Team PROVE Works(thread'[s], s)
    <3> DEFINE p == thread[s]
    <3>1. p \in ThreadType /\ Works(p, s) /\ p.at # "force" /\ p.forces = <<>>
      BY <1>1, <2>1 DEF AllWork, Works
    <3>2. CASE Failed
      <4> DEFINE q == [p EXCEPT !.at = "stopped"]
      <4>1. thread'[s] = q
        BY <1>12, <3>2 DEF JoinEpoch
      <4>2. q.at = "stopped" /\ q.forces = p.forces
        BY <3>1 DEF ThreadType
      <4> HIDE DEF q, p
      <4> QED
        BY <3>1, <4>1, <4>2, MovedWorks
    <3>3. CASE ~Failed
      <4>1. thread'[s] = Onward(s)
        BY <1>12, <3>3 DEF JoinEpoch
      <4> QED
        BY <1>1, <3>1, <4>1, OnwardWorks
    <3> QED
      BY <3>2, <3>3
  <2> QED
    BY <2>1, <2>2, WorkAfter
<1>13. CASE JoinTeam
  <2>1. call' = call /\ edges' = edges /\ \A s \in Team : thread[s].at = "gone"
    BY <1>13 DEF JoinTeam
  <2>2. ASSUME NEW s \in Team PROVE Works(thread'[s], s)
    <3> DEFINE p == thread[s]  q == [p EXCEPT !.at = "returned"]
    <3>1. p \in ThreadType /\ Works(p, s) /\ p.at # "force"
      BY <1>1, <2>1 DEF AllWork
    <3>2. thread'[s] = q
      BY <1>13 DEF JoinTeam
    <3>3. q.at = "returned" /\ q.forces = p.forces
      BY <3>1 DEF ThreadType
    <3> HIDE DEF q, p
    <3> QED
      BY <3>1, <3>2, <3>3, MovedWorks
  <2> QED
    BY <2>1, <2>2, WorkAfter
<1> QED
  BY <1>2, <1>3, <1>4, <1>5, <1>6, <1>7, <1>8, <1>9, <1>10, <1>11, <1>12, <1>13 DEF LayoutThread

(* The same stage, the same barrier: as many barriers passed.              *)
LEMMA PassesSame ==
    ASSUME NEW r, NEW q, q.epoch = r.epoch, q.batch = r.batch, Second(q) <=> Second(r), q.at \in Ended <=> r.at \in Ended
    PROVE  Passes(q) = Passes(r)
BY DEF Passes, Stage

(* A thread that wakes for the barrier it waited for goes on.              *)
LEMMA AwakeAtBarrier ==
    ASSUME ThreadIInv, Route = "merged", AtBarrier, NEW t \in Team, Awake(t)
    PROVE  AtBarrier'
<1> DEFINE r == thread[t]
<1>1. /\ LayoutType /\ ThreadsRight /\ r \in ThreadType /\ r.at = "woken" /\ opened \in Nat /\ InPlace(r, opened)
      /\ UNCHANGED <<call, edges, arrivals, opened>> /\ thread \in [Team -> ThreadType]
  BY TypeGives DEF ThreadIInv, LayoutType, Awake, AtBarrier
<1>2. r.at \in Waits /\ r.at \in Sleeps /\ r.seen \in Nat /\ Passes(r) \in Nat
  BY <1>1, StageType DEF Waits, Sleeps, ThreadType
<1>3. Passes(r) = r.seen /\ (r.seen = opened \/ r.seen + 1 = opened)
  BY <1>1, <1>2 DEF InPlace
<1>4. CASE ~Opened(t)
  <2> DEFINE q == [r EXCEPT !.at = "asleep"]
  <2>1. thread' = [thread EXCEPT ![t] = q] /\ r.seen = opened
    BY <1>1, <1>4 DEF Awake, Opened
  <2>2. q.at = "asleep" /\ q.seen = r.seen /\ q.gate = r.gate /\ q.epoch = r.epoch /\ q.batch = r.batch
    BY <1>1 DEF ThreadType
  <2> HIDE DEF q
  <2>3. Passes(q) = Passes(r)
    BY <1>1, <2>2, PassesSame DEF Second, Waits, Ended
  <2> HIDE DEF r
  <2>4. q.at \in Sleeps /\ q.at # "merge"
    BY <2>2 DEF Sleeps
  <2> QED
    BY <1>1, <1>2, <2>1, <2>2, <2>3, <2>4, StillThere DEF r
<1>5. CASE Opened(t)
  <2> DEFINE p == Passed(t)  q == [p EXCEPT !.seen = 0]
  <2>1. thread' = [thread EXCEPT ![t] = q] /\ r.seen # opened
    BY <1>5 DEF Awake, Opened
  <2>2. p \in ThreadType
    BY <1>1, PassedKept DEF Kept, Right
  <2>3. Passes(p) = Passes(r) + 1 /\ p.at \notin Sleeps /\ (p.at = "merge" => t = 0)
    <3> HIDE DEF p, r
    <3> QED
      BY <1>1, <1>2, PassedCounts DEF p, r
  <2> HIDE DEF p
  <2>4. q.at = p.at /\ q.epoch = p.epoch /\ q.batch = p.batch /\ q.gate = p.gate
    BY <2>2 DEF ThreadType
  <2>5. thread'[t] = q /\ \A s \in Team : s # t => thread'[s] = thread[s]
    BY <1>1, <2>1
  <2> HIDE DEF q
  <2>6. Passes(q) = Passes(p)
    BY <2>4, PassesSame DEF Second
  <2>7. InPlace(q, opened)
    BY <1>2, <1>3, <2>1, <2>3, <2>4, <2>6 DEF InPlace
  <2>8. \A s \in Team : InPlace(thread'[s], opened') /\ (thread'[s].at = "merge" => s = 0)
    BY <1>1, <2>3, <2>4, <2>5, <2>7 DEF AtBarrier
  <2>9. {s \in Team : thread'[s].at \in Sleeps /\ thread'[s].seen = opened'} = Waiting
    <3> SUFFICES ASSUME NEW s \in Team
                 PROVE  thread'[s].at \in Sleeps /\ thread'[s].seen = opened' <=> thread[s].at \in Sleeps /\ thread[s].seen = opened
      BY DEF Waiting
    <3>1. CASE s = t
      BY <2>1, <2>3, <2>4, <2>5, <3>1
    <3>2. CASE s # t
      BY <1>1, <2>5, <3>2
    <3> QED
      BY <3>1, <3>2
  <2>10. arrivals' \in Nat \ {0} /\ arrivals' + Cardinality(Waiting) = call.threads
    BY <1>1 DEF AtBarrier
  <2> QED
    BY <1>1, <2>8, <2>9, <2>10, BarrierAfter
<1> QED
  BY <1>4, <1>5

(* Every step keeps the barrier in order.                                  *)
LEMMA BarrierKept ==
    ASSUME ThreadIInv, Route = "merged", AllWork, AtBarrier, NEW t \in Team, LayoutThread(t) \/ WakeAnyway(t) \/ Fail(t)
    PROVE  AtBarrier'
<1> DEFINE r == thread[t]
<1>1. /\ LayoutType /\ ThreadsRight /\ Home /\ OnSchedule /\ r \in ThreadType /\ Right(r, t) /\ Works(r, t)
      /\ 0 \in Team /\ thread \in [Team -> ThreadType] /\ Route \in Summed /\ InPlace(r, opened)
  BY TypeGives DEF ThreadIInv, ThreadsRight, LayoutType, AllWork, Summed, AtBarrier
<1>2. CASE Clear(t)
  <2> DEFINE q == [r EXCEPT !.at = "work"]
  <2>1. thread' = [thread EXCEPT ![t] = q] /\ UNCHANGED <<call, edges, arrivals, opened>> /\ r.at = "clear"
    BY <1>1, <1>2 DEF Clear
  <2>2. q.at = "work" /\ q.epoch = r.epoch /\ q.batch = r.batch
    BY <1>1 DEF ThreadType
  <2> HIDE DEF q, r
  <2>3. Passes(q) = Passes(r) /\ q.at \notin Sleeps /\ r.at \notin Sleeps /\ q.at # "merge"
    BY <2>1, <2>2, PassesSame DEF Second, Waits, Ended, Sleeps
  <2> QED
    BY <1>1, <2>1, <2>3, StillThere DEF r
<1>3. CASE EndStripe(t)
  <2> DEFINE q == [r EXCEPT !.at = "arrive", !.gate = 1]
  <2>1. thread' = [thread EXCEPT ![t] = q] /\ UNCHANGED <<call, edges, arrivals, opened>> /\ r.at = "work"
    BY <1>1, <1>3 DEF EndStripe, Joined, Gated
  <2>2. q.at = "arrive" /\ q.epoch = r.epoch /\ q.batch = r.batch /\ q.gate = 1
    BY <1>1 DEF ThreadType
  <2> HIDE DEF q, r
  <2>3. Passes(q) = Passes(r) /\ q.at \notin Sleeps /\ r.at \notin Sleeps /\ q.at # "merge"
    BY <2>1, <2>2, PassesSame DEF Second, Waits, Ended, Sleeps
  <2> QED
    BY <1>1, <2>1, <2>3, StillThere DEF r
<1>4. CASE NextEdge(t)
  <2> DEFINE e == Min(r.left)
  <2>1. /\ UNCHANGED <<call, edges, arrivals, opened>> /\ r.at = "work"
        /\ \E q \in ThreadType :
                 /\ thread' = [thread EXCEPT ![t] = q] /\ q.epoch = r.epoch /\ q.batch = r.batch
                 /\ q.at = IF q.forces = <<>> THEN "work" ELSE "force"
    BY <1>1, <1>4, NextEdgeGives
  <2>2. PICK q \in ThreadType : /\ thread' = [thread EXCEPT ![t] = q] /\ q.epoch = r.epoch /\ q.batch = r.batch
                                /\ q.at \in {"work", "force"}
    BY <2>1
  <2> HIDE DEF r
  <2>3. Passes(q) = Passes(r) /\ q.at \notin Sleeps /\ r.at \notin Sleeps /\ q.at # "merge"
    BY <2>1, <2>2, PassesSame DEF Second, Waits, Ended, Sleeps
  <2> QED
    BY <1>1, <2>1, <2>2, <2>3, StillThere DEF r
<1>5. CASE ComputeForce(t)
  <2> DEFINE slot == IF Route = "shared" THEN 0 ELSE t
  <2>1. /\ UNCHANGED <<call, edges, arrivals, opened>> /\ r.at = "force"
        /\ \E q \in ThreadType :
                 /\ thread' = [thread EXCEPT ![t] = q] /\ q.epoch = r.epoch /\ q.batch = r.batch
                 /\ q.at \in {"work", "force"}
    BY <1>1, <1>5, ForceGives
  <2>2. PICK q \in ThreadType : /\ thread' = [thread EXCEPT ![t] = q] /\ q.epoch = r.epoch /\ q.batch = r.batch
                                /\ q.at \in {"work", "force"}
    BY <2>1
  <2> HIDE DEF r
  <2>3. Passes(q) = Passes(r) /\ q.at \notin Sleeps /\ r.at \notin Sleeps /\ q.at # "merge"
    BY <2>1, <2>2, PassesSame DEF Second, Waits, Ended, Sleeps
  <2> QED
    BY <1>1, <2>1, <2>2, <2>3, StillThere DEF r
<1>6. ~Load(t) /\ ~Store(t) /\ ~Fail(t) /\ ~JoinEpoch
  BY <1>1 DEF Load, Store, Works, Fail, JoinEpoch, Joined
<1>7. CASE Arrive(t)
  BY <1>1, <1>7, ArriveAtBarrier
<1>8. CASE Awake(t)
  BY <1>8, AwakeAtBarrier
<1>9. CASE WakeAnyway(t)
  <2> DEFINE q == [r EXCEPT !.at = "woken"]
  <2>1. thread' = [thread EXCEPT ![t] = q] /\ UNCHANGED <<call, edges, arrivals, opened>> /\ r.at = "asleep"
    BY <1>1, <1>9 DEF WakeAnyway
  <2>2. q.at = "woken" /\ q.epoch = r.epoch /\ q.batch = r.batch /\ q.seen = r.seen /\ q.gate = r.gate
    BY <1>1 DEF ThreadType
  <2> HIDE DEF q, r
  <2>3. Passes(q) = Passes(r) /\ q.at \in Sleeps /\ r.at \in Sleeps /\ q.at # "merge"
    BY <2>1, <2>2, PassesSame DEF Second, Waits, Ended, Sleeps
  <2> QED
    BY <1>1, <2>1, <2>2, <2>3, StillThere DEF r
<1>10. CASE Merge
  <2> DEFINE p == thread[0]  q == [p EXCEPT !.at = "arrive", !.gate = 2]
  <2>1. thread' = [thread EXCEPT ![0] = q] /\ UNCHANGED <<call, edges, arrivals, opened>> /\ p.at = "merge" /\ p \in ThreadType
    BY <1>1, <1>10 DEF Merge
  <2>2. q.at = "arrive" /\ q.epoch = p.epoch /\ q.batch = p.batch /\ q.gate = 2
    BY <2>1 DEF ThreadType
  <2> HIDE DEF q, p
  <2>3. Passes(q) = Passes(p) /\ q.at \notin Sleeps /\ p.at \notin Sleeps /\ q.at # "merge"
    BY <2>1, <2>2, PassesSame DEF Second, Waits, Ended, Sleeps
  <2> QED
    BY <1>1, <2>1, <2>3, StillThere DEF p
<1>11. CASE JoinTeam
  <2>1. /\ UNCHANGED <<call, edges, arrivals, opened>>
        /\ \A s \in Team : thread[s].at = "gone" /\ thread'[s] = [thread[s] EXCEPT !.at = "returned"]
    BY <1>11 DEF JoinTeam
  <2>2. ASSUME NEW s \in Team PROVE InPlace(thread'[s], opened) /\ thread'[s].at = "returned"
    <3> DEFINE p == thread[s]  q == [p EXCEPT !.at = "returned"]
    <3>1. p \in ThreadType /\ InPlace(p, opened) /\ thread'[s] = q /\ p.at = "gone"
      BY <1>1, <2>1 DEF AtBarrier
    <3>2. q.at = "returned" /\ q.epoch = p.epoch /\ q.batch = p.batch
      BY <3>1 DEF ThreadType
    <3> HIDE DEF q, p
    <3>3. Passes(q) = Passes(p) /\ q.at \notin Sleeps /\ p.at \notin Sleeps
      BY <3>1, <3>2, PassesSame DEF Second, Waits, Ended, Sleeps
    <3> QED
      BY <3>1, <3>2, <3>3 DEF InPlace
  <2>3. {s \in Team : thread'[s].at \in Sleeps /\ thread'[s].seen = opened'} = Waiting
    <3>1. \A s \in Team : thread'[s].at \notin Sleeps /\ thread[s].at \notin Sleeps
      BY <2>1, <2>2 DEF Sleeps
    <3> QED
      BY <3>1 DEF Waiting
  <2>4. arrivals' \in Nat \ {0} /\ arrivals' + Cardinality(Waiting) = call.threads
    BY <2>1 DEF AtBarrier
  <2> QED
    BY <1>1, <2>1, <2>2, <2>3, <2>4, BarrierAfter
<1> QED
  BY <1>2, <1>3, <1>4, <1>5, <1>6, <1>7, <1>8, <1>9, <1>10, <1>11 DEF LayoutThread

(* Merged sums: a thread's sums are not yet added when it has begun its    *)
(* batch and thread 0 has not added the sums of that batch.                *)
Summing == {"work", "force", "merge"} \cup Waits
Added(r) == (r.at \in Waits /\ r.gate = 2) \/ r.at \in Ended
Merges(r) == Stage(r) + (IF Added(r) THEN 1 ELSE 0)
Unmerged(t) == thread[t].at \in Summing /\ Merges(thread[0]) <= Stage(thread[t])
MergedSums == \A t \in Team : Unmerged(t) => \A v \in LayoutPoints : delta[t][v] = Net(coords, thread[t], t, v)

Carries(r, q) ==
    /\ r.at \in Summing
    /\ q.epoch = r.epoch /\ q.batch = r.batch /\ q.left = r.left /\ q.forces = r.forces /\ q.edge = r.edge

(* The sums of a batch, stated of the threads after a step.                *)
LEMMA MergedAfter ==
    ASSUME UNCHANGED <<call, edges, coords>>,
           \A s \in Team : thread'[s].at \in Summing /\ Merges(thread'[0]) <= Stage(thread'[s]) =>
              \A v \in LayoutPoints : delta'[s][v] = Net(coords, thread'[s], s, v)
    PROVE  MergedSums'
<1>1. Team' = Team /\ LayoutPoints' = LayoutPoints
  BY CallStays
<1>2. \A r : Stage(r)' = Stage(r) /\ Merges(r)' = Merges(r)
  BY StageStays DEF Merges, Added
<1>3. \A x, r, t, v : Net(x, r, t, v)' = Net(x, r, t, v)
  BY NetStays
<1> QED
  BY <1>1, <1>2, <1>3 DEF MergedSums, Unmerged

(* A step between two additions of thread 0.                               *)
LEMMA SumsKept ==
    ASSUME MergedSums, UNCHANGED <<call, edges, coords>>, Merges(thread'[0]) = Merges(thread[0]),
           \A s \in Team : thread'[s].at \in Summing => \A v \in LayoutPoints :
              \/ delta'[s][v] = Net(coords, thread'[s], s, v)
              \/ /\ thread[s].at \in Summing /\ Stage(thread'[s]) = Stage(thread[s])
                 /\ delta[s][v] = Net(coords, thread[s], s, v) => delta'[s][v] = Net(coords, thread'[s], s, v)
    PROVE  MergedSums'
<1>1. ASSUME NEW s \in Team, thread'[s].at \in Summing, Merges(thread'[0]) <= Stage(thread'[s]), NEW v \in LayoutPoints
      PROVE  delta'[s][v] = Net(coords, thread'[s], s, v)
  <2>1. CASE /\ thread[s].at \in Summing /\ Stage(thread'[s]) = Stage(thread[s])
             /\ delta[s][v] = Net(coords, thread[s], s, v) => delta'[s][v] = Net(coords, thread'[s], s, v)
    BY <1>1, <2>1 DEF MergedSums, Unmerged
  <2> QED
    BY <1>1, <2>1
<1> QED
  BY <1>1, MergedAfter

(* A step that adds nothing to any sum.                                    *)
LEMMA SumsCarried ==
    ASSUME MergedSums, UNCHANGED <<call, edges, coords, delta>>, Merges(thread'[0]) = Merges(thread[0]),
           \A s \in Team : thread'[s].at \in Summing => Carries(thread[s], thread'[s])
    PROVE  MergedSums'
<1>1. ASSUME NEW s \in Team, thread'[s].at \in Summing, NEW v \in LayoutPoints
      PROVE  /\ thread[s].at \in Summing /\ Stage(thread'[s]) = Stage(thread[s])
             /\ delta[s][v] = Net(coords, thread[s], s, v) => delta'[s][v] = Net(coords, thread'[s], s, v)
  <2>1. Carries(thread[s], thread'[s])
    BY <1>1
  <2>2. Net(coords, thread'[s], s, v) = Net(coords, thread[s], s, v)
    BY <2>1, NetSame DEF Carries
  <2> QED
    BY <2>1, <2>2 DEF Carries, Stage
<1> QED
  BY <1>1, SumsKept

(* One thread moves on within its batch.                                   *)
LEMMA OneCarries ==
    ASSUME LayoutType, MergedSums, UNCHANGED <<call, edges, coords, delta>>,
           NEW t \in Team, NEW q, thread' = [thread EXCEPT ![t] = q],
           q.at \in Summing => Carries(thread[t], q),
           t = 0 => Merges(q) = Merges(thread[t])
    PROVE  MergedSums'
<1>1. thread'[t] = q /\ \A s \in Team : s # t => thread'[s] = thread[s]
  BY DEF LayoutType
<1>2. 0 \in Team
  BY TypeGives
<1>3. Merges(thread'[0]) = Merges(thread[0])
  BY <1>1, <1>2
<1>4. \A s \in Team : thread'[s].at \in Summing => Carries(thread[s], thread'[s])
  BY <1>1 DEF Carries
<1> QED
  BY <1>3, <1>4, SumsCarried

(* Thread 0 has added as many batches while it stays where it is.          *)
LEMMA MergesSame ==
    ASSUME NEW r, NEW q, q.epoch = r.epoch, q.batch = r.batch, Added(q) <=> Added(r)
    PROVE  Merges(q) = Merges(r)
BY DEF Merges, Stage

(* The barrier lets a thread through to its next batch, to the second      *)
(* barrier, or, thread 0, to add the sums.                                 *)
LEMMA PassedMerges ==
    ASSUME LayoutType, ThreadsRight, Route = "merged", NEW t \in Team, NEW r, r = thread[t], r.at \in Waits,
           NEW p, p = Passed(t)
    PROVE  /\ p.at \in Summing => Carries(r, p)
           /\ t = 0 => Merges(p) = Merges(r)
<1>1. r \in ThreadType /\ r.gate \in {1, 2} /\ Stage(r) \in Nat /\ r.at \in Summing
  <2>1. r \in ThreadType
    BY TypeGives
  <2> QED
    BY <2>1, StageType DEF ThreadType, Summing
<1>2. p = IF r.gate = 2 \/ Route = "atomic" THEN Onward(t)
          ELSE IF Route = "merged" /\ t = 0 THEN [r EXCEPT !.at = "merge"]
          ELSE [r EXCEPT !.at = "arrive", !.gate = 2]
  BY DEF Passed
<1>3. CASE r.gate = 2
  <2>1. p = Onward(t)
    BY <1>2, <1>3
  <2>2. (p.at = "clear" /\ Stage(p) = Stage(r) + 1) \/ (p.at = "gone" /\ Stage(p) = Stage(r))
    BY <2>1, StageOnward
  <2>3. Added(r) /\ (Added(p) <=> p.at = "gone") /\ p.at \notin Summing
    BY <1>3, <2>2 DEF Added, Waits, Ended, Summing
  <2> QED
    BY <1>1, <2>2, <2>3 DEF Merges
<1>4. CASE r.gate = 1
  <2>1. p = IF t = 0 THEN [r EXCEPT !.at = "merge"] ELSE [r EXCEPT !.at = "arrive", !.gate = 2]
    BY <1>2, <1>4
  <2>2. /\ p.epoch = r.epoch /\ p.batch = r.batch /\ p.forces = r.forces /\ p.left = r.left /\ p.edge = r.edge
        /\ t = 0 => p.at = "merge"
    BY <1>1, <2>1 DEF ThreadType
  <2>3. t = 0 => ~Added(p) /\ ~Added(r)
    BY <1>4, <2>2 DEF Added, Waits, Ended
  <2> QED
    BY <1>1, <2>2, <2>3, MergesSame DEF Carries
<1> QED
  BY <1>1, <1>3, <1>4

(* A thread that arrives at the barrier takes its sums along, and so do    *)
(* those it wakes.                                                         *)
LEMMA ArriveCarries ==
    ASSUME ThreadIInv, Route = "merged", MergedSums, NEW t \in Team, Arrive(t)
    PROVE  MergedSums'
<1> DEFINE r == thread[t]
<1>1. /\ LayoutType /\ ThreadsRight /\ r \in ThreadType /\ r.at = "arrive" /\ thread \in [Team -> ThreadType]
      /\ UNCHANGED <<call, edges, coords, delta>> /\ r.at \in Waits
  BY TypeGives DEF ThreadIInv, LayoutType, Arrive, Waits
<1>2. CASE arrivals = 1
  <2> DEFINE p == Passed(t)
  <2>1. thread' = [s \in Team |->
            IF s = t THEN p
            ELSE IF thread[s].at = "asleep" THEN [thread[s] EXCEPT !.at = "woken"]
            ELSE thread[s]]
    BY <1>2 DEF Arrive
  <2>2. (p.at \in Summing => Carries(r, p)) /\ (t = 0 => Merges(p) = Merges(r))
    <3> HIDE DEF p, r
    <3> QED
      BY <1>1, PassedMerges DEF p, r
  <2> HIDE DEF p
  <2>3. ASSUME NEW s \in Team
        PROVE  /\ thread'[s].at \in Summing => Carries(thread[s], thread'[s])
               /\ s = 0 => Merges(thread'[s]) = Merges(thread[s])
    <3>1. CASE s = t
      BY <2>1, <2>2, <3>1
    <3>2. CASE s # t /\ thread[s].at = "asleep"
      <4> DEFINE o == thread[s]  q == [o EXCEPT !.at = "woken"]
      <4>1. thread'[s] = q /\ o \in ThreadType /\ o.at = "asleep"
        BY <1>1, <2>1, <3>2
      <4>2. /\ q.at = "woken" /\ q.epoch = o.epoch /\ q.batch = o.batch /\ q.left = o.left /\ q.forces = o.forces
            /\ q.edge = o.edge /\ q.gate = o.gate
        BY <4>1 DEF ThreadType
      <4> HIDE DEF o, q
      <4>3. Carries(o, q) /\ (Added(o) <=> Added(q))
        BY <4>1, <4>2 DEF Carries, Added, Waits, Ended, Summing
      <4>4. Merges(q) = Merges(o)
        BY <4>2, <4>3, MergesSame
      <4> QED
        BY <4>1, <4>3, <4>4 DEF o
    <3>3. CASE s # t /\ thread[s].at # "asleep"
      BY <2>1, <3>3 DEF Carries
    <3> QED
      BY <3>1, <3>2, <3>3
  <2>4. 0 \in Team
    BY <1>1, TypeGives
  <2>5. Merges(thread'[0]) = Merges(thread[0])
    BY <2>3, <2>4
  <2> QED
    BY <1>1, <2>3, <2>5, SumsCarried
<1>3. CASE arrivals # 1
  <2> DEFINE q == [r EXCEPT !.at = "asleep", !.seen = opened]
  <2>1. thread' = [thread EXCEPT ![t] = q]
    BY <1>1, <1>3 DEF Arrive
  <2>2. /\ q.at = "asleep" /\ q.epoch = r.epoch /\ q.batch = r.batch /\ q.left = r.left /\ q.forces = r.forces
        /\ q.edge = r.edge /\ q.gate = r.gate
    BY <1>1 DEF ThreadType
  <2> HIDE DEF q
  <2>3. Carries(r, q) /\ Merges(q) = Merges(r)
    BY <1>1, <2>2, MergesSame DEF Carries, Added, Waits, Ended, Summing
  <2> QED
    BY <1>1, <2>1, <2>3, OneCarries
<1> QED
  BY <1>2, <1>3

(* A thread that wakes takes its sums along, whether the barrier has opened*)
(* or not.                                                                 *)
LEMMA AwakeCarries ==
    ASSUME ThreadIInv, Route = "merged", MergedSums, NEW t \in Team, Awake(t)
    PROVE  MergedSums'
<1> DEFINE r == thread[t]
<1>1. /\ LayoutType /\ ThreadsRight /\ r \in ThreadType /\ r.at = "woken" /\ thread \in [Team -> ThreadType]
      /\ UNCHANGED <<call, edges, coords, delta>> /\ r.at \in Waits
  BY TypeGives DEF ThreadIInv, LayoutType, Awake, Waits
<1>2. CASE Opened(t)
  <2> DEFINE p == Passed(t)  q == [p EXCEPT !.seen = 0]
  <2>1. thread' = [thread EXCEPT ![t] = q]
    BY <1>2 DEF Awake
  <2>2. (p.at \in Summing => Carries(r, p)) /\ (t = 0 => Merges(p) = Merges(r))
    <3> HIDE DEF p, r
    <3> QED
      BY <1>1, PassedMerges DEF p, r
  <2>3. p \in ThreadType
    BY <1>1, PassedKept DEF Kept, Right
  <2> HIDE DEF p
  <2>4. /\ q.at = p.at /\ q.epoch = p.epoch /\ q.batch = p.batch /\ q.left = p.left /\ q.forces = p.forces
        /\ q.edge = p.edge /\ q.gate = p.gate
    BY <2>3 DEF ThreadType
  <2> HIDE DEF q
  <2>5. (q.at \in Summing => Carries(r, q)) /\ Merges(q) = Merges(p)
    BY <2>2, <2>4, MergesSame DEF Carries, Added
  <2> QED
    BY <1>1, <2>1, <2>2, <2>5, OneCarries
<1>3. CASE ~Opened(t)
  <2> DEFINE q == [r EXCEPT !.at = "asleep"]
  <2>1. thread' = [thread EXCEPT ![t] = q]
    BY <1>1, <1>3 DEF Awake
  <2>2. /\ q.at = "asleep" /\ q.epoch = r.epoch /\ q.batch = r.batch /\ q.left = r.left /\ q.forces = r.forces
        /\ q.edge = r.edge /\ q.gate = r.gate
    BY <1>1 DEF ThreadType
  <2> HIDE DEF q
  <2>3. Carries(r, q) /\ Merges(q) = Merges(r)
    BY <1>1, <2>2, MergesSame DEF Carries, Added, Waits, Ended, Summing
  <2> QED
    BY <1>1, <2>1, <2>3, OneCarries
<1> QED
  BY <1>2, <1>3

(* A thread's own sums change with what it has done of its stripe.         *)
LEMMA WorkMerges ==
    ASSUME ThreadIInv, Route = "merged", AllWork, MergedSums, NEW t \in Team, Clear(t) \/ NextEdge(t) \/ ComputeForce(t)
    PROVE  MergedSums'
<1> DEFINE r == thread[t]
<1>1. /\ LayoutType /\ ThreadsRight /\ Home /\ OnSchedule /\ r \in ThreadType /\ Right(r, t) /\ Works(r, t)
      /\ 0 \in Team /\ thread \in [Team -> ThreadType] /\ Route \in Summed /\ Layout(coords)
      /\ delta \in [Team -> [LayoutPoints -> Int]]
  BY TypeGives DEF ThreadIInv, ThreadsRight, LayoutType, AllWork, Summed, Layout
<1>2. CASE Clear(t)
  <2> DEFINE q == [r EXCEPT !.at = "work"]
  <2>1. /\ thread' = [thread EXCEPT ![t] = q] /\ UNCHANGED <<call, edges, coords>> /\ r.at = "clear"
        /\ delta' = [delta EXCEPT ![t] = Nothing]
    BY <1>1, <1>2 DEF Clear
  <2>2. /\ q.at = "work" /\ q.epoch = r.epoch /\ q.batch = r.batch /\ q.left = r.left /\ q.forces = r.forces
    BY <1>1 DEF ThreadType
  <2>3. q.left = Stripe(t, q.batch) /\ q.forces = <<>>
    BY <1>1, <2>1, <2>2 DEF Works
  <2> HIDE DEF q
  <2>4. /\ thread'[t] = q /\ \A s \in Team : s # t => thread'[s] = thread[s]
        /\ delta'[t] = Nothing /\ \A s \in Team : s # t => delta'[s] = delta[s]
    BY <1>1, <2>1
  <2> HIDE DEF r
  <2>5. Merges(q) = Merges(r)
    BY <2>1, <2>2, MergesSame DEF Added, Waits, Ended
  <2>6. Merges(thread'[0]) = Merges(thread[0])
    BY <1>1, <2>4, <2>5 DEF r
  <2>7. ASSUME NEW s \in Team, thread'[s].at \in Summing, NEW v \in LayoutPoints
        PROVE  \/ delta'[s][v] = Net(coords, thread'[s], s, v)
               \/ /\ thread[s].at \in Summing /\ Stage(thread'[s]) = Stage(thread[s])
                  /\ delta[s][v] = Net(coords, thread[s], s, v) => delta'[s][v] = Net(coords, thread'[s], s, v)
    <3>1. CASE s = t
      <4>1. Net(coords, q, t, v) = 0
        BY <2>3, NetNone
      <4> QED
        BY <2>4, <3>1, <4>1 DEF Nothing
    <3>2. CASE s # t
      BY <2>4, <2>7, <3>2
    <3> QED
      BY <3>1, <3>2
  <2> QED
    BY <2>1, <2>6, <2>7, SumsKept
<1>3. CASE NextEdge(t)
  <2> DEFINE e == Min(r.left)
  <2>1. /\ r.at = "work" /\ e \in r.left /\ UNCHANGED <<call, edges, coords, delta>>
        /\ \E q \in ThreadType :
                 /\ thread' = [thread EXCEPT ![t] = q]
                 /\ q.left = r.left \ {e} /\ q.epoch = r.epoch /\ q.batch = r.batch
                 /\ q.forces = ForcesDue(r.epoch, e)
                 /\ q.at = IF q.forces = <<>> THEN "work" ELSE "force"
                 /\ q.forces # <<>> => q.edge = e
    BY <1>1, <1>3, NextEdgeGives
  <2>2. PICK q \in ThreadType :
                 /\ thread' = [thread EXCEPT ![t] = q]
                 /\ q.left = r.left \ {e} /\ q.epoch = r.epoch /\ q.batch = r.batch
                 /\ q.forces = ForcesDue(r.epoch, e) /\ q.at \in {"work", "force"}
                 /\ q.forces # <<>> => q.edge = e
    BY <2>1
  <2>3. thread'[t] = q /\ \A s \in Team : s # t => thread'[s] = thread[s]
    BY <1>1, <2>2
  <2>4. r.left \subseteq Stripe(t, r.batch) /\ r.forces = <<>>
    BY <1>1, <2>1 DEF Right, Works
  <2> HIDE DEF r, e
  <2>5. ASSUME NEW v \in LayoutPoints PROVE Net(coords, q, t, v) = Net(coords, r, t, v)
    <3>1. LayoutType /\ Layout(coords) /\ r \in ThreadType /\ e \in r.left
      BY <1>1, <2>1
    <3> QED
      BY <3>1, <2>2, <2>4, NetTakes
  <2>6. Merges(q) = Merges(r)
    BY <2>1, <2>2, MergesSame DEF Added, Waits, Ended
  <2>7. Merges(thread'[0]) = Merges(thread[0])
    BY <1>1, <2>3, <2>6 DEF r
  <2>8. Stage(q) = Stage(r) /\ r.at \in Summing
    BY <2>1, <2>2 DEF Stage, Summing
  <2>9. ASSUME NEW s \in Team, thread'[s].at \in Summing, NEW v \in LayoutPoints
        PROVE  /\ thread[s].at \in Summing /\ Stage(thread'[s]) = Stage(thread[s])
               /\ delta[s][v] = Net(coords, thread[s], s, v) => delta'[s][v] = Net(coords, thread'[s], s, v)
    <3>1. CASE s = t
      BY <2>1, <2>3, <2>5, <2>8, <3>1 DEF r
    <3>2. CASE s # t
      BY <2>1, <2>3, <2>9, <3>2
    <3> QED
      BY <3>1, <3>2
  <2> QED
    BY <2>1, <2>7, <2>9, SumsKept
<1>4. CASE ComputeForce(t)
  <2> DEFINE f == Head(r.forces)
  <2>1. /\ r.at = "force" /\ r.edge \in EdgeIds /\ r.forces # <<>> /\ f \in 0..Len(call.start)
        /\ UNCHANGED <<call, edges, coords>>
        /\ delta' = [delta EXCEPT ![t] = AddAll(@, AddsOf(coords, r.epoch, r.edge, f))]
        /\ \E q \in ThreadType :
                 /\ thread' = [thread EXCEPT ![t] = q]
                 /\ q.left = r.left /\ q.epoch = r.epoch /\ q.batch = r.batch /\ q.edge = r.edge
                 /\ q.forces = Tail(r.forces) /\ q.at \in {"work", "force"}
    BY <1>1, <1>4, ForceGives
  <2>2. PICK q \in ThreadType :
                 /\ thread' = [thread EXCEPT ![t] = q]
                 /\ q.left = r.left /\ q.epoch = r.epoch /\ q.batch = r.batch /\ q.edge = r.edge
                 /\ q.forces = Tail(r.forces) /\ q.at \in {"work", "force"}
    BY <2>1
  <2>3. /\ thread'[t] = q /\ \A s \in Team : s # t => thread'[s] = thread[s]
        /\ delta'[t] = AddAll(delta[t], AddsOf(coords, r.epoch, r.edge, f))
        /\ \A s \in Team : s # t => delta'[s] = delta[s]
    BY <1>1, <2>1, <2>2
  <2>4. r.epoch \in Nat /\ delta[t] \in [LayoutPoints -> Int]
    BY <1>1, StageType
  <2> HIDE DEF r
  <2>5. ASSUME NEW v \in LayoutPoints
        PROVE  delta[t][v] = Net(coords, r, t, v) => delta'[t][v] = Net(coords, q, t, v)
    <3> DEFINE w == Worth(coords, r.epoch, r.edge, f, v)
    <3>1. Net(coords, q, t, v) = Net(coords, r, t, v) + w
      BY <1>1, <2>1, <2>2, NetGives
    <3> DEFINE n == r.epoch  e == r.edge  sums == delta[t]
    <3>2. LayoutType /\ Layout(coords) /\ n \in Nat /\ e \in EdgeIds /\ f \in 0..Len(call.start) /\ sums \in [LayoutPoints -> Int]
      BY <1>1, <2>1, <2>4
    <3>3. delta'[t] = AddAll(sums, AddsOf(coords, n, e, f)) /\ w = Worth(coords, n, e, f, v) /\ delta[t][v] = sums[v]
      BY <2>3
    <3> HIDE DEF f, n, e, sums, w
    <3>4. delta'[t][v] = delta[t][v] + w
      BY <3>2, <3>3, WorthIs
    <3> QED
      BY <3>1, <3>4
  <2>6. Merges(q) = Merges(r)
    BY <2>1, <2>2, MergesSame DEF Added, Waits, Ended
  <2>7. Merges(thread'[0]) = Merges(thread[0])
    BY <1>1, <2>3, <2>6 DEF r
  <2>8. Stage(q) = Stage(r) /\ r.at \in Summing
    BY <2>1, <2>2 DEF Stage, Summing
  <2>9. ASSUME NEW s \in Team, thread'[s].at \in Summing, NEW v \in LayoutPoints
        PROVE  /\ thread[s].at \in Summing /\ Stage(thread'[s]) = Stage(thread[s])
               /\ delta[s][v] = Net(coords, thread[s], s, v) => delta'[s][v] = Net(coords, thread'[s], s, v)
    <3>1. CASE s = t
      BY <2>3, <2>5, <2>8, <3>1 DEF r
    <3>2. CASE s # t
      BY <2>3, <2>9, <3>2
    <3> QED
      BY <3>1, <3>2
  <2> QED
    BY <2>1, <2>7, <2>9, SumsKept
<1> QED
  BY <1>2, <1>3, <1>4

(* When thread 0 adds the sums, every thread has passed all edges of the   *)
(* batch.                                                                  *)
LEMMA AllSummed ==
    ASSUME ThreadIInv, Route = "merged", AllWork, AtBarrier, Merge, NEW t \in Team, NEW r, r = thread[t]
    PROVE  /\ r \in ThreadType /\ r.at \in Summing /\ Stage(r) = Stage(thread[0]) /\ r.left = {} /\ r.forces = <<>>
           /\ r.epoch = thread[0].epoch /\ r.batch = thread[0].batch
           /\ Merges(thread[0]) = Stage(thread[0]) /\ Stage(thread[0]) \in Nat
<1> DEFINE z == thread[0]
<1>1. /\ LayoutType /\ ThreadsRight /\ 0 \in Team /\ z \in ThreadType /\ r \in ThreadType /\ Right(r, t)
      /\ Works(r, t) /\ z.at = "merge" /\ InPlace(z, opened) /\ InPlace(r, opened) /\ opened \in Nat
  BY TypeGives DEF ThreadIInv, LayoutType, ThreadsRight, AllWork, AtBarrier, Merge
<1>2. Stage(z) \in Nat /\ Stage(r) \in Nat
  BY <1>1, StageType
<1>3. Passes(z) = 2 * Stage(z) + 1 /\ Passes(z) = opened /\ ~Added(z)
  BY <1>1 DEF Passes, Second, InPlace, Sleeps, Added, Waits, Ended
<1>4. r.at \in Summing /\ r.at \notin {"work", "force"} /\ Stage(r) = Stage(z)
  <2> DEFINE a == Stage(z)  b == Stage(r)
  <2>1. opened = 2 * a + 1 /\ a \in Nat /\ b \in Nat
    BY <1>2, <1>3
  <2>2. Passes(r) = 2 * b + (IF Second(r) THEN 1 ELSE IF r.at \in Ended THEN 2 ELSE 0)
    BY DEF Passes
  <2> HIDE DEF a, b
  <2>3. Passes(r) = opened => Second(r) /\ a = b
    BY <2>1, <2>2
  <2>4. Second(r) => r.at \in Summing /\ r.at \notin {"work", "force"}
    BY DEF Second, Summing, Waits
  <2>5. CASE Passes(r) = opened
    BY <2>3, <2>4, <2>5 DEF a, b
  <2>6. CASE Passes(r) # opened
    <3>1. r.at = "woken" /\ Passes(r) + 1 = opened
      BY <1>1, <2>6 DEF InPlace
    <3>2. r.at \notin Ended /\ r.at \in Summing
      BY <3>1 DEF Ended, Summing, Waits
    <3>3. a = b
      BY <2>1, <2>2, <3>1, <3>2
    <3> QED
      BY <3>1, <3>2, <3>3 DEF a, b
  <2> QED
    BY <2>5, <2>6
<1>5. r.left = {} /\ r.forces = <<>>
  BY <1>1, <1>4 DEF Right, Works, Summing, Waits
<1>6. r.epoch = z.epoch /\ r.batch = z.batch
  BY <1>1, <1>4, StageTells
<1>7. Merges(z) = Stage(z)
  BY <1>2, <1>3 DEF Merges
<1> QED
  BY <1>1, <1>2, <1>4, <1>5, <1>6, <1>7

(* What the threads add up for their stripes is what one thread adds up    *)
(* for all of them.                                                        *)
LEMMA SerialIs ==
    ASSUME LayoutType, NEW n \in Nat, NEW v \in LayoutPoints, NEW W, W \subseteq EdgeIds, NEW P \in [Team -> SUBSET EdgeIds],
           \A t, s \in Team : t # s => P[t] \cap P[s] = {}, UNION {P[t] : t \in Team} = W,
           NEW g, \A t \in Team : g[t] = Total(PerEdge(coords, n, v), P[t])
    PROVE  Total(g, Team) = SerialSums(coords, n, W)[v]
<1>1. IsFiniteSet(Team) /\ IsFiniteSet(EdgeIds) /\ Layout(coords)
  <2>1. IsFiniteSet(Team) /\ EdgeIds = 1..Len(edges) /\ Len(edges) \in Nat
    BY TypeGives
  <2> QED
    BY <2>1, FirstNumbers DEF LayoutType, Layout
<1> DEFINE f == PerEdge(coords, n, v)
           h == [e \in W |-> EdgeSum(coords, n, e, v)]
<1>2. \A e \in EdgeIds : f[e] = EdgeSum(coords, n, e, v) /\ f[e] \in Int
  BY <1>1, PerEdgeType
<1>3. SerialSums(coords, n, W)[v] = Total(h, W)
  BY DEF SerialSums, SumFunction, Total
<1>4. \A e \in W : h[e] = f[e]
  BY <1>2
<1>5. \A e \in EdgeIds : f[e] \in Int
  BY <1>2
<1>6. \A t \in Team : g[t] = Total(f, P[t])
  OBVIOUS
<1> HIDE DEF f, h
<1>7. IsFiniteSet(W)
  BY <1>1, Within
<1>8. Total(h, W) = Total(f, W)
  BY <1>4, <1>7, TotalSame
<1>9. Total(f, UNION {P[t] : t \in Team}) = Total(g, Team)
  BY <1>1, <1>5, <1>6, TotalOfTotals
<1> QED
  BY <1>3, <1>8, <1>9

(* Thread 0 adds what one thread would have added for the batch, and then  *)
(* no sum is left to add.                                                  *)
LEMMA MergeExact ==
    ASSUME ThreadIInv, Route = "merged", AllWork, AtBarrier, MergedSums, Merge
    PROVE  coords' = SerialStep /\ MergedSums'
<1> DEFINE z == thread[0]  n == z.epoch  b == z.batch  W == Part(Len(edges), b, call.batches)
           q == [z EXCEPT !.at = "arrive", !.gate = 2]
<1>1. /\ LayoutType /\ 0 \in Team /\ thread \in [Team -> ThreadType] /\ z \in ThreadType /\ Layout(coords)
      /\ call \in LayoutCases /\ edges = LoopEdges(call) /\ UNCHANGED <<call, edges>> /\ thread' = [thread EXCEPT ![0] = q]
      /\ coords' = [v \in LayoutPoints |-> coords[v] + SumFunction([t \in Team |-> delta[t][v]])]
  <2>1. LayoutType /\ 0 \in Team
    BY TypeGives DEF ThreadIInv
  <2> QED
    BY <2>1 DEF LayoutType, Layout, Merge
<1>2. n \in Nat /\ b \in BatchIds /\ Stage(z) \in Nat
  BY <1>1, StageType DEF ThreadType
<1>3. \A s \in Team : /\ thread[s].at \in Summing /\ Stage(thread[s]) = Stage(z)
                      /\ thread[s] \in ThreadType /\ thread[s].left = {} /\ thread[s].forces = <<>>
                      /\ thread[s].epoch = n /\ thread[s].batch = b
  BY AllSummed
<1>4. Merges(z) = Stage(z)
  BY <1>1, AllSummed
<1>5. ASSUME NEW t \in Team, NEW v \in LayoutPoints
      PROVE  delta[t][v] = Total(PerEdge(coords, n, v), Stripe(t, b))
  <2> DEFINE r == thread[t]
  <2>1. /\ r \in ThreadType /\ r.left = {} /\ r.forces = <<>> /\ r.epoch = n /\ r.batch = b
        /\ r.at \in Summing /\ Merges(z) <= Stage(r)
    BY <1>2, <1>3, <1>4
  <2>2. delta[t][v] = Net(coords, r, t, v)
    BY <2>1 DEF MergedSums, Unmerged
  <2> HIDE DEF r, n, b
  <2>3. Net(coords, r, t, v) = Total(PerEdge(coords, r.epoch, v), Stripe(t, r.batch))
    BY <1>1, <2>1, NetAll
  <2> QED
    BY <2>1, <2>2, <2>3
<1> DEFINE P == [t \in Team |-> Stripe(t, b)]
<1>6. /\ W \subseteq EdgeIds /\ P \in [Team -> SUBSET EdgeIds]
      /\ \A t, s \in Team : t # s => P[t] \cap P[s] = {}
      /\ UNION {P[t] : t \in Team} = W
  <2> HIDE DEF b
  <2>1. /\ W \subseteq EdgeIds /\ \A t \in Team : Stripe(t, b) \subseteq W
        /\ \A e \in W : \E t \in Team : e \in Stripe(t, b)
        /\ \A e : \A t, s \in Team : e \in Stripe(t, b) /\ e \in Stripe(s, b) => t = s
    BY <1>1, <1>2, MergedOwners DEF Owned
  <2> HIDE DEF W
  <2>2. P \in [Team -> SUBSET EdgeIds] /\ \A t \in Team : P[t] = Stripe(t, b)
    BY <2>1
  <2> HIDE DEF P
  <2>3. \A t, s \in Team : t # s => P[t] \cap P[s] = {}
    BY <2>1, <2>2
  <2>4. UNION {P[t] : t \in Team} = W
    BY <2>1, <2>2
  <2> QED
    BY <2>1, <2>2, <2>3, <2>4
<1>7. ASSUME NEW v \in LayoutPoints
      PROVE  SumFunction([t \in Team |-> delta[t][v]]) = SerialSums(coords, n, W)[v]
  <2> DEFINE g == [t \in Team |-> delta[t][v]]
  <2>1. SumFunction(g) = Total(g, Team)
    BY DEF SumFunction, Total
  <2>2. \A t \in Team : g[t] = Total(PerEdge(coords, n, v), P[t])
    BY <1>5
  <2>3. /\ LayoutType /\ n \in Nat /\ W \subseteq EdgeIds /\ P \in [Team -> SUBSET EdgeIds]
        /\ \A t, s \in Team : t # s => P[t] \cap P[s] = {}
        /\ UNION {P[t] : t \in Team} = W
        /\ \A t \in Team : g[t] = Total(PerEdge(coords, n, v), P[t])
    BY <1>1, <1>2, <1>6, <2>2
  <2> HIDE DEF g, n, P, W
  <2>4. Total(g, Team) = SerialSums(coords, n, W)[v]
    BY <2>3, SerialIs
  <2> QED
    BY <2>1, <2>4 DEF g
<1>8. coords' = SerialStep
  <2>1. SerialStep = [v \in LayoutPoints |-> coords[v] + SerialSums(coords, n, W)[v]]
    BY DEF SerialStep
  <2> QED
    BY <1>1, <1>7, <2>1
<1>9. MergedSums'
  <2>1. q.at = "arrive" /\ q.gate = 2 /\ q.epoch = z.epoch /\ q.batch = z.batch
    BY <1>1 DEF ThreadType
  <2>2. Added(q) /\ Stage(q) = Stage(z)
    BY <2>1 DEF Added, Waits, Stage
  <2>3. Merges(q) = Stage(z) + 1
    BY <2>2 DEF Merges
  <2>4. thread'[0] = q /\ \A s \in Team : s # 0 => thread'[s] = thread[s]
    BY <1>1
  <2> HIDE DEF q, z
  <2>5. \A s \in Team : Stage(thread'[s]) = Stage(z)
    BY <1>3, <2>2, <2>4
  <2>6. \A s \in Team : ~(Merges(thread'[0]) <= Stage(thread'[s]))
    BY <1>2, <2>3, <2>4, <2>5
  <2>7. Team' = Team
    BY <1>1, CallStays
  <2>8. \A r : Stage(r)' = Stage(r) /\ Merges(r)' = Merges(r)
    BY <1>1, StageStays DEF Merges, Added
  <2> QED
    BY <2>6, <2>7, <2>8 DEF MergedSums, Unmerged
<1> QED
  BY <1>8, <1>9

(* Every step of threads whose sums are merged.                            *)
LEMMA MergedKept ==
    ASSUME ThreadIInv, Route = "merged", AllWork, AtBarrier, MergedSums,
           NEW t \in Team, LayoutThread(t) \/ WakeAnyway(t) \/ Fail(t)
    PROVE  MergedSums' /\ coords' \in {coords, SerialStep}
<1> DEFINE r == thread[t]
<1>1. /\ LayoutType /\ ThreadsRight /\ r \in ThreadType /\ Works(r, t) /\ thread \in [Team -> ThreadType] /\ 0 \in Team
  BY TypeGives DEF ThreadIInv, ThreadsRight, LayoutType, AllWork
<1>2. CASE Clear(t) \/ NextEdge(t) \/ ComputeForce(t)
  <2>1. coords' = coords
    BY <1>2 DEF Clear, NextEdge, ComputeForce
  <2> QED
    BY <1>2, <2>1, WorkMerges
<1>3. CASE EndStripe(t)
  <2> DEFINE q == [r EXCEPT !.at = "arrive", !.gate = 1]
  <2>1. thread' = [thread EXCEPT ![t] = q] /\ UNCHANGED <<call, edges, coords, delta>> /\ r.at = "work"
    BY <1>1, <1>3 DEF EndStripe, Joined, Gated
  <2>2. /\ q.at = "arrive" /\ q.epoch = r.epoch /\ q.batch = r.batch /\ q.left = r.left /\ q.forces = r.forces
        /\ q.edge = r.edge /\ q.gate = 1
    BY <1>1 DEF ThreadType
  <2> HIDE DEF q, r
  <2>3. Carries(r, q) /\ Merges(q) = Merges(r)
    BY <2>1, <2>2, MergesSame DEF Carries, Added, Waits, Ended, Summing
  <2> QED
    BY <1>1, <2>1, <2>3, OneCarries DEF r
<1>4. ~Load(t) /\ ~Store(t) /\ ~Fail(t) /\ ~JoinEpoch
  BY <1>1 DEF Load, Store, Works, Fail, JoinEpoch, Joined
<1>5. CASE Arrive(t) \/ Awake(t)
  <2>1. coords' = coords
    BY <1>5 DEF Arrive, Awake
  <2> QED
    BY <1>5, <2>1, ArriveCarries, AwakeCarries
<1>6. CASE WakeAnyway(t)
  <2> DEFINE q == [r EXCEPT !.at = "woken"]
  <2>1. thread' = [thread EXCEPT ![t] = q] /\ UNCHANGED <<call, edges, coords, delta>> /\ r.at = "asleep"
    BY <1>1, <1>6 DEF WakeAnyway
  <2>2. /\ q.at = "woken" /\ q.epoch = r.epoch /\ q.batch = r.batch /\ q.left = r.left /\ q.forces = r.forces
        /\ q.edge = r.edge /\ q.gate = r.gate
    BY <1>1 DEF ThreadType
  <2> HIDE DEF q, r
  <2>3. Carries(r, q) /\ Merges(q) = Merges(r)
    BY <2>1, <2>2, MergesSame DEF Carries, Added, Waits, Ended, Summing
  <2> QED
    BY <1>1, <2>1, <2>3, OneCarries DEF r
<1>7. CASE Merge
  BY <1>7, MergeExact
<1>8. CASE JoinTeam
  <2>1. /\ UNCHANGED <<call, edges, coords, delta>>
        /\ \A s \in Team : thread[s].at = "gone" /\ thread'[s] = [thread[s] EXCEPT !.at = "returned"]
    BY <1>8 DEF JoinTeam
  <2>2. ASSUME NEW s \in Team PROVE thread'[s].at \notin Summing /\ Merges(thread'[s]) = Merges(thread[s])
    <3> DEFINE p == thread[s]  q == [p EXCEPT !.at = "returned"]
    <3>1. p \in ThreadType /\ thread'[s] = q /\ p.at = "gone"
      BY <1>1, <2>1
    <3>2. q.at = "returned" /\ q.epoch = p.epoch /\ q.batch = p.batch
      BY <3>1 DEF ThreadType
    <3> HIDE DEF q, p
    <3>3. Added(q) /\ Added(p) /\ q.at \notin Summing
      BY <3>1, <3>2 DEF Added, Ended, Summing, Waits
    <3> QED
      BY <3>1, <3>2, <3>3, MergesSame DEF p
  <2> QED
    BY <1>1, <2>1, <2>2, SumsCarried
<1> QED
  BY <1>2, <1>3, <1>4, <1>5, <1>6, <1>7, <1>8 DEF LayoutThread

(* Shared sums: the threads are all in one epoch, and the sum of a point   *)
(* is what they all have done of their stripes.                            *)
InEpoch == {"work", "force", "done", "failed"}
Nets(v) == [t \in Team |-> Net(coords, thread[t], t, v)]
Together == \A t \in Team : /\ thread[t].at \in InEpoch \cup {"gone", "returned", "stopped"}
                            /\ thread[t].epoch = thread[0].epoch
SharedSums ==
    /\ Together
    /\ (\A t \in Team : thread[t].at \in InEpoch) => \A v \in LayoutPoints : delta[0][v] = Total(Nets(v), Team)

(* The sum that threads share, stated of the threads after a step.         *)
LEMMA SharedAfter ==
    ASSUME UNCHANGED <<call, edges>>,
           \A s \in Team : /\ thread'[s].at \in InEpoch \cup {"gone", "returned", "stopped"}
                           /\ thread'[s].epoch = thread'[0].epoch,
           (\A s \in Team : thread'[s].at \in InEpoch) => \A v \in LayoutPoints :
              delta'[0][v] = Total([s \in Team |-> Net(coords', thread'[s], s, v)], Team)
    PROVE  SharedSums'
<1>1. Team' = Team /\ LayoutPoints' = LayoutPoints
  BY CallStays
<1>2. Together'
  BY <1>1 DEF Together
<1>3. \A x, r, t, v : Net(x, r, t, v)' = Net(x, r, t, v)
  BY NetStays
<1>4. ASSUME NEW v PROVE Nets(v)' = [s \in Team |-> Net(coords', thread'[s], s, v)]
  <2>1. \A s : Net(coords, thread[s], s, v)' = Net(coords', thread'[s], s, v)
    BY <1>3
  <2> QED
    BY <1>1, <2>1 DEF Nets
<1>5. \A v, g : Total(g, Team)' = Total(g, Team)
  BY <1>1 DEF Total, SumFunctionOnSet, FoldFunctionOnSet, MapThenFoldSet
<1>6. ASSUME \A s \in Team : thread'[s].at \in InEpoch, NEW v \in LayoutPoints
      PROVE  delta'[0][v] = Total(Nets(v), Team)'
  <2>1. Total(Nets(v), Team)' = Total(Nets(v)', Team)
    BY <1>1 DEF Total
  <2> QED
    BY <1>4, <1>6, <2>1
<1> QED
  BY <1>1, <1>2, <1>6 DEF SharedSums

(* What a thread has done of its stripe is an integer.                     *)
LEMMA NetsType ==
    ASSUME ThreadIInv, AllWork, NEW t \in Team, NEW v \in LayoutPoints
    PROVE  Net(coords, thread[t], t, v) \in Int
<1> DEFINE r == thread[t]
<1>1. LayoutType /\ Layout(coords) /\ r \in ThreadType /\ Right(r, t) /\ Works(r, t)
  BY TypeGives DEF ThreadIInv, LayoutType, ThreadsRight, AllWork, Layout
<1>2. r.forces = <<>> \/ r.edge \in EdgeIds
  BY <1>1 DEF Right, Works
<1> HIDE DEF r
<1>3. Net(coords, r, t, v) \in Int
  BY <1>1, <1>2, NetType
<1> QED
  BY <1>3 DEF r

(* A thread goes on with its stripe, and the sums grow by W.               *)
Grow(t, q, W) ==
    /\ UNCHANGED <<call, edges, coords>> /\ thread' = [thread EXCEPT ![t] = q]
    /\ thread[t].at \in InEpoch /\ q.at \in InEpoch /\ q.epoch = thread[t].epoch
    /\ W \in [LayoutPoints -> Int]
    /\ \A v \in LayoutPoints : Net(coords, q, t, v) = Net(coords, thread[t], t, v) + W[v] /\ delta'[0][v] = delta[0][v] + W[v]

(* A thread that adds to the shared sum what it has gained keeps it exact. *)
LEMMA SharedOne ==
    ASSUME ThreadIInv, AllWork, SharedSums, NEW t \in Team, NEW q, NEW W, Grow(t, q, W)
    PROVE  SharedSums'
<1>0. /\ UNCHANGED <<call, edges, coords>> /\ thread' = [thread EXCEPT ![t] = q]
      /\ thread[t].at \in InEpoch /\ q.at \in InEpoch /\ q.epoch = thread[t].epoch
      /\ W \in [LayoutPoints -> Int]
      /\ \A v \in LayoutPoints : Net(coords, q, t, v) = Net(coords, thread[t], t, v) + W[v] /\ delta'[0][v] = delta[0][v] + W[v]
  BY DEF Grow
<1> DEFINE r == thread[t]
<1>1. LayoutType /\ IsFiniteSet(Team) /\ 0 \in Team /\ thread \in [Team -> ThreadType]
  BY TypeGives DEF ThreadIInv, LayoutType
<1>2. thread'[t] = q /\ \A s \in Team : s # t => thread'[s] = thread[s]
  BY <1>0, <1>1
<1>3. \A s \in Team : /\ thread'[s].at \in InEpoch \cup {"gone", "returned", "stopped"}
                      /\ thread'[s].epoch = thread'[0].epoch
  BY <1>0, <1>1, <1>2 DEF SharedSums, Together
<1>4. ASSUME \A s \in Team : thread'[s].at \in InEpoch, NEW v \in LayoutPoints
      PROVE  delta'[0][v] = Total([s \in Team |-> Net(coords', thread'[s], s, v)], Team)
  <2> DEFINE f == Nets(v)  g == [s \in Team |-> Net(coords', thread'[s], s, v)]
  <2>1. \A s \in Team : thread[s].at \in InEpoch
    BY <1>0, <1>2, <1>4
  <2>2. delta[0][v] = Total(f, Team)
    BY <2>1 DEF SharedSums
  <2> DEFINE w == W[v]
  <2>3. w \in Int /\ Net(coords, q, t, v) = Net(coords, r, t, v) + w /\ delta'[0][v] = delta[0][v] + w
    BY <1>0
  <2> HIDE DEF w
  <2>4. \A s \in Team : f[s] \in Int /\ f[s] = Net(coords, thread[s], s, v) /\ g[s] = Net(coords, thread'[s], s, v)
    BY <1>0, NetsType DEF Nets
  <2>5. f[t] \in Int /\ f[t] = Net(coords, r, t, v) /\ g[t] = Net(coords, q, t, v)
    BY <1>2, <2>4
  <2>6. g[t] = f[t] + w /\ g[t] \in Int
    BY <2>3, <2>5
  <2>7. \A s \in Team : s # t => g[s] = f[s]
    BY <1>2, <2>4
  <2>8. \A s \in Team : f[s] \in Int
    BY <2>4
  <2> HIDE DEF f, g
  <2>9. \A s \in Team : f[s] \in Int /\ g[s] \in Int /\ (s # t => f[s] = g[s])
    BY <2>6, <2>7, <2>8
  <2>10. Total(g, Team) = Total(f, Team) + g[t] - f[t] /\ Total(f, Team) \in Int
    <3>1. IsFiniteSet(Team)
      BY <1>1
    <3>2. Total(g, Team) = Total(f, Team) + g[t] - f[t]
      BY <3>1, <2>9, TotalChange
    <3>3. Total(f, Team) \in Int
      BY <3>1, <2>8, TotalType
    <3> QED
      BY <3>2, <3>3
  <2> DEFINE a == Total(f, Team)  b == Total(g, Team)  c == f[t]  d == g[t]
  <2>11. a \in Int /\ b = a + d - c /\ c \in Int /\ d = c + w
    BY <2>5, <2>6, <2>10
  <2> HIDE DEF a, b, c, d
  <2>12. b = a + w
    BY <2>3, <2>11
  <2> QED
    BY <2>2, <2>3, <2>12 DEF a, b, g
<1> QED
  BY <1>0, <1>3, <1>4, SharedAfter

(* A step within an epoch, or the end of the threads.                      *)
LEMMA SharedWork ==
    ASSUME ThreadIInv, Route = "shared", AllWork, SharedSums, NEW t \in Team,
           EndStripe(t) \/ Fail(t) \/ NextEdge(t) \/ ComputeForce(t)
    PROVE  SharedSums' /\ coords' = coords
<1> DEFINE r == thread[t]
<1>1. /\ LayoutType /\ ThreadsRight /\ Home /\ OnSchedule /\ r \in ThreadType /\ Right(r, t) /\ Works(r, t)
      /\ 0 \in Team /\ thread \in [Team -> ThreadType] /\ Route \in Summed /\ Layout(coords)
      /\ delta \in [Team -> [LayoutPoints -> Int]]
  BY TypeGives DEF ThreadIInv, ThreadsRight, LayoutType, AllWork, Summed, Layout
<1>2. \A v \in LayoutPoints : Net(coords, r, t, v) \in Int /\ delta[0][v] \in Int
  BY <1>1, NetsType
<1>3. CASE EndStripe(t) \/ Fail(t)
  <2>1. PICK a \in {"done", "failed"} : thread' = [thread EXCEPT ![t] = [r EXCEPT !.at = a]]
    <3>1. CASE EndStripe(t)
      BY <1>1, <3>1 DEF EndStripe, Joined
    <3>2. CASE Fail(t)
      BY <1>1, <3>2 DEF Fail
    <3> QED
      BY <1>3, <3>1, <3>2
  <2>2. UNCHANGED <<call, edges, coords, delta>> /\ r.at = "work"
    BY <1>3 DEF EndStripe, Fail
  <2> DEFINE q == [r EXCEPT !.at = a]
  <2>3. /\ q.at = a /\ q.epoch = r.epoch /\ q.batch = r.batch /\ q.left = r.left /\ q.forces = r.forces
        /\ q.edge = r.edge
    BY <1>1 DEF ThreadType
  <2> HIDE DEF q
  <2> DEFINE W == Nothing
  <2>4. ASSUME NEW v \in LayoutPoints
        PROVE  Net(coords, q, t, v) = Net(coords, r, t, v) + W[v] /\ delta'[0][v] = delta[0][v] + W[v]
    <3>1. Net(coords, q, t, v) = Net(coords, r, t, v)
      BY <2>3, NetSame
    <3>2. W[v] = 0
      BY DEF Nothing
    <3> QED
      BY <1>2, <2>2, <3>1, <3>2
  <2>5. r.at \in InEpoch /\ q.at \in InEpoch /\ W \in [LayoutPoints -> Int]
    BY <2>2, <2>3 DEF InEpoch, Nothing
  <2>6. Grow(t, q, W)
    BY <1>1, <2>1, <2>2, <2>3, <2>4, <2>5 DEF q, Grow
  <2>7. SharedSums'
    BY <2>6, SharedOne
  <2> QED
    BY <2>2, <2>7
<1>4. CASE NextEdge(t)
  <2> DEFINE e == Min(r.left)
  <2>1. /\ r.at = "work" /\ e \in r.left /\ UNCHANGED <<call, edges, coords, delta>>
        /\ \E q \in ThreadType :
                 /\ thread' = [thread EXCEPT ![t] = q]
                 /\ q.left = r.left \ {e} /\ q.epoch = r.epoch /\ q.batch = r.batch
                 /\ q.forces = ForcesDue(r.epoch, e)
                 /\ q.at = IF q.forces = <<>> THEN "work" ELSE "force"
                 /\ q.forces # <<>> => q.edge = e
    BY <1>1, <1>4, NextEdgeGives
  <2>2. PICK q \in ThreadType :
                 /\ thread' = [thread EXCEPT ![t] = q]
                 /\ q.left = r.left \ {e} /\ q.epoch = r.epoch /\ q.batch = r.batch
                 /\ q.forces = ForcesDue(r.epoch, e) /\ q.at \in {"work", "force"}
                 /\ q.forces # <<>> => q.edge = e
    BY <2>1
  <2>3. r.left \subseteq Stripe(t, r.batch) /\ r.forces = <<>>
    BY <1>1, <2>1 DEF Right, Works
  <2>4. LayoutType /\ Layout(coords) /\ r \in ThreadType /\ e \in r.left
    BY <1>1, <2>1
  <2>5. r.at \in InEpoch /\ q.at \in InEpoch
    BY <2>1, <2>2 DEF InEpoch
  <2> HIDE DEF r, e
  <2> DEFINE W == Nothing
  <2>6. ASSUME NEW v \in LayoutPoints
        PROVE  Net(coords, q, t, v) = Net(coords, r, t, v) + W[v] /\ delta'[0][v] = delta[0][v] + W[v]
    <3>1. Net(coords, q, t, v) = Net(coords, r, t, v)
      BY <2>2, <2>3, <2>4, NetTakes
    <3>2. W[v] = 0
      BY DEF Nothing
    <3> QED
      BY <1>2, <2>1, <3>1, <3>2 DEF r
  <2>7. Grow(t, q, W)
    BY <1>1, <2>1, <2>2, <2>5, <2>6 DEF r, Nothing, Grow
  <2>8. SharedSums'
    BY <2>7, SharedOne
  <2> QED
    BY <2>1, <2>8
<1>5. CASE ComputeForce(t)
  <2> DEFINE f == Head(r.forces)
  <2>1. /\ r.at = "force" /\ r.edge \in EdgeIds /\ r.forces # <<>> /\ f \in 0..Len(call.start)
        /\ UNCHANGED <<call, edges, coords>>
        /\ delta' = [delta EXCEPT ![0] = AddAll(@, AddsOf(coords, r.epoch, r.edge, f))]
        /\ \E q \in ThreadType :
                 /\ thread' = [thread EXCEPT ![t] = q]
                 /\ q.left = r.left /\ q.epoch = r.epoch /\ q.batch = r.batch /\ q.edge = r.edge
                 /\ q.forces = Tail(r.forces) /\ q.at \in {"work", "force"}
    BY <1>1, <1>5, ForceGives
  <2>2. PICK q \in ThreadType :
                 /\ thread' = [thread EXCEPT ![t] = q]
                 /\ q.left = r.left /\ q.epoch = r.epoch /\ q.batch = r.batch /\ q.edge = r.edge
                 /\ q.forces = Tail(r.forces) /\ q.at \in {"work", "force"}
    BY <2>1
  <2>3. r.epoch \in Nat /\ delta[0] \in [LayoutPoints -> Int] /\ delta'[0] = AddAll(delta[0], AddsOf(coords, r.epoch, r.edge, f))
    BY <1>1, <2>1, StageType
  <2>4. r.at \in InEpoch /\ q.at \in InEpoch
    BY <2>1, <2>2 DEF InEpoch
  <2> HIDE DEF r
  <2> DEFINE W == [v \in LayoutPoints |-> Worth(coords, r.epoch, r.edge, f, v)]
  <2>5. ASSUME NEW v \in LayoutPoints
        PROVE  W[v] \in Int /\ Net(coords, q, t, v) = Net(coords, r, t, v) + W[v] /\ delta'[0][v] = delta[0][v] + W[v]
    <3> DEFINE w == Worth(coords, r.epoch, r.edge, f, v)
    <3>1. Net(coords, q, t, v) = Net(coords, r, t, v) + w /\ w \in Int
      BY <1>1, <2>1, <2>2, NetGives
    <3> DEFINE n == r.epoch  e == r.edge  sums == delta[0]
    <3>2. LayoutType /\ Layout(coords) /\ n \in Nat /\ e \in EdgeIds /\ f \in 0..Len(call.start) /\ sums \in [LayoutPoints -> Int]
      BY <1>1, <2>1, <2>3
    <3>3. delta'[0] = AddAll(sums, AddsOf(coords, n, e, f)) /\ w = Worth(coords, n, e, f, v) /\ delta[0][v] = sums[v]
      BY <2>3
    <3>5. W[v] = w
      OBVIOUS
    <3> HIDE DEF f, n, e, sums, w, W
    <3>4. delta'[0][v] = delta[0][v] + w
      BY <3>2, <3>3, WorthIs
    <3> QED
      BY <3>1, <3>4, <3>5
  <2>6. Grow(t, q, W)
    BY <1>1, <2>1, <2>2, <2>4, <2>5 DEF r, Grow
  <2>7. SharedSums'
    BY <2>6, SharedOne
  <2> QED
    BY <2>1, <2>7
<1> QED
  BY <1>3, <1>4, <1>5

(* The sums of an epoch that no thread failed in are those of one thread.  *)
LEMMA JoinedExact ==
    ASSUME ThreadIInv, Route = "shared", AllWork, SharedSums, JoinEpoch, ~Failed
    PROVE  coords' = SerialStep
<1> DEFINE z == thread[0]  n == z.epoch
<1>1. /\ LayoutType /\ 0 \in Team /\ thread \in [Team -> ThreadType] /\ Layout(coords) /\ ThreadsRight
      /\ call \in LayoutCases /\ edges = LoopEdges(call) /\ BatchIds = {0} /\ n \in Nat
      /\ coords' = [v \in LayoutPoints |-> coords[v] + Between(-Bound, delta[0][v], Bound)]
  <2>1. LayoutType /\ 0 \in Team
    BY TypeGives DEF ThreadIInv
  <2>2. z \in ThreadType
    BY <2>1, TypeGives
  <2>3. n \in Nat
    BY <2>1, <2>2, StageType
  <2>4. coords' = [v \in LayoutPoints |-> coords[v] + Between(-Bound, delta[0][v], Bound)]
    BY DEF JoinEpoch
  <2>5. call \in LayoutCases
    BY <2>1 DEF LayoutType
  <2>6. BatchIds = {0}
    BY <2>5, BatchesIs
  <2> QED
    BY <2>1, <2>3, <2>4, <2>6 DEF LayoutType, Layout, ThreadIInv
<1>2. ASSUME NEW t \in Team
      PROVE  LET r == thread[t] IN
             r \in ThreadType /\ r.at \in InEpoch /\ r.left = {} /\ r.forces = <<>> /\ r.epoch = n /\ r.batch = 0
  <2> DEFINE r == thread[t]
  <2>1. r \in ThreadType /\ r.at = "done" /\ Right(r, t) /\ Works(r, t) /\ r.epoch = n /\ r.batch \in BatchIds
    BY <1>1 DEF JoinEpoch, Failed, ThreadsRight, AllWork, SharedSums, Together, ThreadType
  <2> QED
    BY <1>1, <2>1 DEF Right, Works, InEpoch
<1> DEFINE P == [t \in Team |-> Stripe(t, 0)]
<1>3. /\ P \in [Team -> SUBSET EdgeIds] /\ \A t, s \in Team : t # s => P[t] \cap P[s] = {}
      /\ UNION {P[t] : t \in Team} = EdgeIds
  <2>1. /\ \A t \in Team : Stripe(t, 0) \subseteq EdgeIds
        /\ \A e \in EdgeIds : \E t \in Team : e \in Stripe(t, 0)
        /\ \A e \in EdgeIds : \A t, s \in Team : e \in Stripe(t, 0) /\ e \in Stripe(s, 0) => t = s
    BY <1>1, StripesShare DEF Owned
  <2>2. P \in [Team -> SUBSET EdgeIds] /\ \A t \in Team : P[t] = Stripe(t, 0)
    BY <2>1
  <2> HIDE DEF P
  <2>3. \A t, s \in Team : t # s => P[t] \cap P[s] = {}
    BY <2>1, <2>2
  <2>4. UNION {P[t] : t \in Team} = EdgeIds
    BY <2>1, <2>2
  <2> QED
    BY <2>2, <2>3, <2>4
<1>4. ASSUME NEW v \in LayoutPoints PROVE delta[0][v] = SerialSums(coords, n, EdgeIds)[v]
  <2> DEFINE g == Nets(v)
  <2>1. delta[0][v] = Total(g, Team)
    BY <1>2 DEF SharedSums
  <2>2. ASSUME NEW t \in Team PROVE g[t] = Total(PerEdge(coords, n, v), P[t])
    <3> DEFINE r == thread[t]
    <3>1. r \in ThreadType /\ r.left = {} /\ r.forces = <<>> /\ r.epoch = n /\ r.batch = 0
      BY <1>2
    <3>2. g[t] = Net(coords, r, t, v) /\ P[t] = Stripe(t, 0)
      BY DEF Nets
    <3> HIDE DEF r, n, g, P
    <3>3. Net(coords, r, t, v) = Total(PerEdge(coords, r.epoch, v), Stripe(t, r.batch))
      BY <1>1, <3>1, NetAll
    <3> QED
      BY <3>1, <3>2, <3>3
  <2> DEFINE W == EdgeIds
  <2>3. /\ LayoutType /\ n \in Nat /\ W \subseteq EdgeIds /\ P \in [Team -> SUBSET EdgeIds]
        /\ \A t, s \in Team : t # s => P[t] \cap P[s] = {}
        /\ UNION {P[t] : t \in Team} = W
        /\ \A t \in Team : g[t] = Total(PerEdge(coords, n, v), P[t])
    BY <1>1, <1>3, <2>2
  <2> HIDE DEF g, n, P, W
  <2>4. Total(g, Team) = SerialSums(coords, n, W)[v]
    BY <2>3, SerialIs
  <2> QED
    BY <2>1, <2>4 DEF W
<1>5. SerialStep = [v \in LayoutPoints |-> coords[v] + Between(-Bound, SerialSums(coords, n, EdgeIds)[v], Bound)]
  BY DEF SerialStep
<1> QED
  BY <1>1, <1>4, <1>5

(* The threads of an epoch are joined, and begin the next one together or  *)
(* leave together.                                                         *)
LEMMA SharedJoined ==
    ASSUME ThreadIInv, Route = "shared", AllWork, SharedSums, JoinEpoch
    PROVE  SharedSums' /\ coords' \in {coords, SerialStep}
<1>1. /\ LayoutType /\ 0 \in Team /\ thread \in [Team -> ThreadType] /\ IsFiniteSet(Team) /\ UNCHANGED <<call, edges>>
      /\ Batches = 1 /\ FirstStep = "work" /\ BatchIds = {0} /\ \A s \in Team : thread[s].epoch = thread[0].epoch
      /\ \A s \in Team : thread[s].at \in {"done", "failed"}
  BY TypeGives, BatchesIs DEF ThreadIInv, LayoutType, JoinEpoch, SharedSums, Together, Batches, FirstStep
<1>2. CASE Failed
  <2>1. coords' = coords /\ \A s \in Team : thread'[s] = [thread[s] EXCEPT !.at = "stopped"]
    BY <1>2 DEF JoinEpoch
  <2>2. ASSUME NEW s \in Team PROVE thread'[s].at = "stopped" /\ thread'[s].epoch = thread[s].epoch
    <3> DEFINE p == thread[s]
    <3>1. p \in ThreadType /\ thread'[s] = [p EXCEPT !.at = "stopped"]
      BY <1>1, <2>1
    <3> QED
      BY <3>1 DEF ThreadType
  <2>3. \A s \in Team : /\ thread'[s].at \in InEpoch \cup {"gone", "returned", "stopped"}
                        /\ thread'[s].epoch = thread'[0].epoch
    BY <1>1, <2>2
  <2>4. ~\A s \in Team : thread'[s].at \in InEpoch
    BY <1>1, <2>2 DEF InEpoch
  <2> QED
    BY <1>1, <2>1, <2>3, <2>4, SharedAfter
<1>3. CASE ~Failed
  <2>1. coords' = SerialStep
    BY <1>3, JoinedExact
  <2>2. delta'[0] = Nothing /\ \A s \in Team : thread'[s] = Onward(s)
    BY <1>1, <1>3 DEF JoinEpoch
  <2> DEFINE n == thread[0].epoch
  <2>3. ASSUME NEW s \in Team
        PROVE  /\ thread'[s].at \in {"work", "gone"}
               /\ thread'[s].epoch = IF n + 1 < call.epochs THEN n + 1 ELSE n
               /\ thread'[s].at = "work" => thread'[s].left = Stripe(s, thread'[s].batch) /\ thread'[s].forces = <<>>
    <3> DEFINE p == thread[s]  q == Onward(s)
    <3>1. p \in ThreadType /\ p.forces = <<>> /\ thread'[s] = q /\ p.epoch = n /\ p.batch = 0
      BY <1>1, <2>2 DEF AllWork, Works, ThreadType
    <3>2. /\ q.forces = <<>> /\ q.at \in {"work", "gone"}
          /\ q.at = "work" => q.left = Stripe(s, q.batch)
      <4> HIDE DEF p, q
      <4> QED
        BY <1>1, <3>1, OnwardWorks DEF p, q
    <3>3. q = IF n + 1 < call.epochs THEN [p EXCEPT !.at = FirstStep, !.epoch = @ + 1, !.batch = 0, !.left = Stripe(s, 0)]
              ELSE [p EXCEPT !.at = "gone"]
      BY <1>1, <3>1 DEF Onward
    <3> HIDE DEF p, q, n
    <3>4. q.epoch = IF n + 1 < call.epochs THEN n + 1 ELSE n
      <4>1. CASE n + 1 < call.epochs
        BY <3>1, <3>3, <4>1 DEF ThreadType
      <4>2. CASE ~(n + 1 < call.epochs)
        BY <3>1, <3>3, <4>2 DEF ThreadType
      <4> QED
        BY <4>1, <4>2
    <3> QED
      BY <3>1, <3>2, <3>4
  <2>4. \A s \in Team : /\ thread'[s].at \in InEpoch \cup {"gone", "returned", "stopped"}
                        /\ thread'[s].epoch = thread'[0].epoch
    BY <1>1, <2>3 DEF InEpoch
  <2>5. ASSUME \A s \in Team : thread'[s].at \in InEpoch, NEW v \in LayoutPoints
        PROVE  delta'[0][v] = Total([s \in Team |-> Net(coords', thread'[s], s, v)], Team)
    <3> DEFINE g == [s \in Team |-> Net(coords', thread'[s], s, v)]
    <3>1. ASSUME NEW s \in Team PROVE g[s] = 0
      <4>1. thread'[s].left = Stripe(s, thread'[s].batch) /\ thread'[s].forces = <<>>
        BY <2>3, <2>5 DEF InEpoch
      <4>2. Net(coords', thread'[s], s, v) = 0
        BY <4>1, NetNone
      <4> QED
        BY <4>2
    <3> HIDE DEF g
    <3>2. Total(g, Team) = 0
      BY <1>1, <3>1, TotalZero
    <3>3. delta'[0][v] = 0
      BY <2>2 DEF Nothing
    <3> QED
      BY <3>2, <3>3 DEF g
  <2> QED
    BY <1>1, <2>1, <2>4, <2>5, SharedAfter
<1> QED
  BY <1>2, <1>3

(* Every step of threads that share their sums.                            *)
LEMMA SharedKept ==
    ASSUME ThreadIInv, Route = "shared", AllWork, SharedSums, NEW t \in Team, LayoutThread(t) \/ WakeAnyway(t) \/ Fail(t)
    PROVE  SharedSums' /\ coords' \in {coords, SerialStep}
<1>1. /\ LayoutType /\ 0 \in Team /\ thread \in [Team -> ThreadType]
      /\ \A s \in Team : thread[s].at \in InEpoch \cup {"gone", "returned", "stopped"} /\ thread[s].epoch = thread[0].epoch
  BY TypeGives DEF ThreadIInv, LayoutType, SharedSums, Together
<1>2. ~Clear(t) /\ ~Load(t) /\ ~Store(t) /\ ~Arrive(t) /\ ~Awake(t) /\ ~WakeAnyway(t) /\ ~Merge
  BY <1>1 DEF Clear, Load, Store, Arrive, Awake, WakeAnyway, Merge, InEpoch
<1>3. CASE EndStripe(t) \/ Fail(t) \/ NextEdge(t) \/ ComputeForce(t)
  BY <1>3, SharedWork
<1>4. CASE JoinEpoch
  BY <1>4, SharedJoined
<1>5. CASE JoinTeam
  <2>1. /\ UNCHANGED <<call, edges, coords>>
        /\ \A s \in Team : thread'[s] = [thread[s] EXCEPT !.at = "returned"]
    BY <1>5 DEF JoinTeam
  <2>2. ASSUME NEW s \in Team PROVE thread'[s].at = "returned" /\ thread'[s].epoch = thread[s].epoch
    <3> DEFINE p == thread[s]
    <3>1. p \in ThreadType /\ thread'[s] = [p EXCEPT !.at = "returned"]
      BY <1>1, <2>1
    <3> QED
      BY <3>1 DEF ThreadType
  <2>3. \A s \in Team : /\ thread'[s].at \in InEpoch \cup {"gone", "returned", "stopped"}
                        /\ thread'[s].epoch = thread'[0].epoch
    BY <1>1, <2>2
  <2>4. ~\A s \in Team : thread'[s].at \in InEpoch
    BY <1>1, <2>2 DEF InEpoch
  <2> QED
    BY <2>1, <2>3, <2>4, SharedAfter
<1> QED
  BY <1>2, <1>3, <1>4, <1>5 DEF LayoutThread

-----------------------------------------------------------------------------
SumIInv ==
    Route \in Summed =>
        /\ AllWork
        /\ Route = "merged" => AtBarrier /\ MergedSums
        /\ Route = "shared" => SharedSums

(* The sums hold when the threads start.                                   *)
LEMMA SumInitially == ASSUME LayoutInit PROVE SumIInv
<1> SUFFICES ASSUME Route \in Summed
             PROVE  AllWork /\ (Route = "merged" => AtBarrier /\ MergedSums) /\ (Route = "shared" => SharedSums)
  BY DEF SumIInv
<1>1. ThreadIInv /\ LayoutType /\ 0 \in Team /\ IsFiniteSet(Team) /\ call.threads \in Nat \ {0}
  BY InitThreadIInv, TypeGives DEF ThreadIInv
<1>2. /\ thread = [t \in Team |->
             [at |-> FirstStep, epoch |-> 0, batch |-> 0, left |-> Stripe(t, 0), edge |-> 0,
              forces |-> <<>>, adds |-> <<>>, old |-> 0, gate |-> 1, seen |-> 0]]
      /\ delta = [t \in Team |-> Nothing] /\ arrivals = call.threads /\ opened = 0
  BY DEF LayoutInit
<1>3. \A t \in Team : /\ thread[t].at = FirstStep /\ thread[t].epoch = 0 /\ thread[t].batch = 0
                      /\ thread[t].left = Stripe(t, thread[t].batch) /\ thread[t].forces = <<>>
  BY <1>2
<1>4. AllWork
  BY <1>3 DEF AllWork, Works, FirstStep
<1>5. \A x, t, v : t \in Team => Net(x, thread[t], t, v) = 0
  BY <1>3, NetNone
<1>6. ASSUME Route = "merged" PROVE AtBarrier /\ MergedSums
  <2>1. FirstStep = "clear"
    BY <1>6 DEF FirstStep
  <2>2. ASSUME NEW t \in Team PROVE InPlace(thread[t], opened) /\ thread[t].at # "merge" /\ thread[t].at \notin Sleeps
    <3> DEFINE r == thread[t]
    <3>1. r \in ThreadType /\ r.at = "clear" /\ r.epoch = 0 /\ r.batch = 0
      BY <1>1, <1>3, <2>1, TypeGives
    <3> HIDE DEF r
    <3>2. r.epoch * Batches = 0
      BY <1>1, <3>1, TypeGives
    <3>3. Stage(r) = 0
      BY <3>1, <3>2 DEF Stage
    <3>4. Passes(r) = 0
      BY <3>1, <3>3 DEF Passes, Second, Waits, Ended
    <3>5. InPlace(r, 0) /\ r.at \notin Sleeps
      BY <3>1, <3>4 DEF InPlace, Sleeps
    <3> QED
      BY <1>2, <3>1, <3>5 DEF r
  <2>3. Waiting = {}
    BY <2>2 DEF Waiting
  <2>4. arrivals + Cardinality(Waiting) = call.threads
    BY <1>1, <1>2, <2>3, FS_EmptySet
  <2>5. MergedSums
    BY <1>3, <2>1 DEF MergedSums, Unmerged, Summing, Waits
  <2> QED
    BY <1>1, <1>2, <2>2, <2>4, <2>5 DEF AtBarrier
<1>7. ASSUME Route = "shared" PROVE SharedSums
  <2>1. FirstStep = "work"
    BY <1>7 DEF FirstStep
  <2>2. Together
    BY <1>1, <1>3, <2>1 DEF Together, InEpoch
  <2>3. ASSUME NEW v \in LayoutPoints PROVE delta[0][v] = Total(Nets(v), Team)
    <3> DEFINE g == Nets(v)
    <3>1. \A s \in Team : g[s] = 0
      BY <1>5 DEF Nets
    <3> HIDE DEF g
    <3>2. Total(g, Team) = 0
      BY <1>1, <3>1, TotalZero
    <3>3. delta[0][v] = 0
      BY <1>1, <1>2 DEF Nothing
    <3> QED
      BY <3>2, <3>3 DEF g
  <2> QED
    BY <2>2, <2>3 DEF SharedSums
<1> QED
  BY <1>4, <1>6, <1>7

(* Every step keeps the sums, and moves the layout by whole sums.          *)
LEMMA SumStep ==
    ASSUME ThreadIInv, SumIInv, [LayoutNext]_layoutVars
    PROVE  SumIInv' /\ (Route \in Summed => coords' \in {coords, SerialStep})
<1>1. CASE UNCHANGED layoutVars
  <2>1. /\ call' = call /\ edges' = edges /\ coords' = coords /\ delta' = delta
        /\ thread' = thread /\ opened' = opened /\ arrivals' = arrivals
    BY <1>1 DEF layoutVars
  <2>2. Route' = Route
    BY <2>1, CallStays
  <2>3. CASE Route \notin Summed
    BY <2>1, <2>2, <2>3 DEF SumIInv
  <2>4. CASE Route \in Summed
    <3>1. AllWork /\ LayoutType /\ (Route = "merged" => AtBarrier /\ MergedSums) /\ (Route = "shared" => SharedSums)
      BY <2>4 DEF SumIInv, ThreadIInv
    <3>2. AllWork'
      BY <2>1, <3>1, WorkAfter DEF AllWork
    <3>3. Route = "merged" => AtBarrier' /\ MergedSums'
      <4> SUFFICES ASSUME Route = "merged" PROVE AtBarrier' /\ MergedSums'
        OBVIOUS
      <4>1. AtBarrier /\ MergedSums
        BY <3>1
      <4>2. AtBarrier'
        <5> DEFINE W == {t \in Team : thread'[t].at \in Sleeps /\ thread'[t].seen = opened'}
        <5>1. W = Waiting
          BY <2>1 DEF Waiting
        <5>2. /\ arrivals' \in Nat \ {0} /\ arrivals' + Cardinality(W) = call.threads
              /\ \A t \in Team : InPlace(thread'[t], opened') /\ (thread'[t].at = "merge" => t = 0)
          BY <2>1, <4>1, <5>1 DEF AtBarrier
        <5> QED
          BY <2>1, <3>1, <5>2, BarrierAfter
      <4>3. MergedSums'
        <5>1. \A s \in Team : thread'[s].at \in Summing /\ Merges(thread'[0]) <= Stage(thread'[s]) =>
                 \A v \in LayoutPoints : delta'[s][v] = Net(coords, thread'[s], s, v)
          BY <2>1, <4>1 DEF MergedSums, Unmerged
        <5> QED
          BY <2>1, <5>1, MergedAfter
      <4> QED
        BY <4>2, <4>3
    <3>4. Route = "shared" => SharedSums'
      <4> SUFFICES ASSUME Route = "shared" PROVE SharedSums'
        OBVIOUS
      <4>1. /\ \A s \in Team : /\ thread'[s].at \in InEpoch \cup {"gone", "returned", "stopped"}
                              /\ thread'[s].epoch = thread'[0].epoch
            /\ (\A s \in Team : thread'[s].at \in InEpoch) => \A v \in LayoutPoints :
                  delta'[0][v] = Total([s \in Team |-> Net(coords', thread'[s], s, v)], Team)
        BY <2>1, <3>1 DEF SharedSums, Together, Nets
      <4> QED
        BY <2>1, <4>1, SharedAfter
    <3>5. (Route = "merged")' <=> Route = "merged"
      BY <2>2
    <3>6. (Route = "shared")' <=> Route = "shared"
      BY <2>2
    <3>7. (Route = "merged" => AtBarrier /\ MergedSums)'
      BY <3>3, <3>5
    <3>8. (Route = "shared" => SharedSums)'
      BY <3>4, <3>6
    <3> QED
      BY <2>1, <3>2, <3>7, <3>8 DEF SumIInv
  <2> QED
    BY <2>1, <2>3, <2>4
<1>2. ASSUME LayoutNext PROVE SumIInv' /\ (Route \in Summed => coords' \in {coords, SerialStep})
  <2>1. PICK t \in Team : LayoutThread(t) \/ WakeAnyway(t) \/ Fail(t)
    BY <1>2 DEF LayoutNext
  <2>2. Route' = Route
    <3>1. CASE Clear(t) \/ EndStripe(t) \/ NextEdge(t) \/ ComputeForce(t)
      BY <3>1 DEF Clear, EndStripe, NextEdge, ComputeForce, Route
    <3>2. CASE Load(t) \/ Store(t)
      BY <3>2 DEF Load, Store, Route
    <3>3. CASE Arrive(t) \/ Awake(t)
      BY <3>3 DEF Arrive, Awake, Route
    <3>4. CASE Merge \/ JoinEpoch \/ JoinTeam
      BY <3>4 DEF Merge, JoinEpoch, JoinTeam, Route
    <3>5. CASE WakeAnyway(t) \/ Fail(t)
      BY <3>5 DEF WakeAnyway, Fail, Route
    <3> QED
      BY <2>1, <3>1, <3>2, <3>3, <3>4, <3>5 DEF LayoutThread
  <2>3. CASE Route \notin Summed
    BY <2>2, <2>3 DEF SumIInv
  <2>4. CASE Route = "merged"
    <3>1. AllWork /\ AtBarrier /\ MergedSums /\ Route \in Summed
      BY <2>4 DEF SumIInv, Summed
    <3>2. AllWork' /\ AtBarrier' /\ MergedSums' /\ coords' \in {coords, SerialStep}
      BY <2>1, <2>4, <3>1, WorksKept, BarrierKept, MergedKept
    <3> QED
      BY <2>2, <2>4, <3>2 DEF SumIInv
  <2>5. CASE Route = "shared"
    <3>1. AllWork /\ SharedSums /\ Route \in Summed
      BY <2>5 DEF SumIInv, Summed
    <3>2. AllWork' /\ SharedSums' /\ coords' \in {coords, SerialStep}
      BY <2>1, <2>5, <3>1, WorksKept, SharedKept
    <3> QED
      BY <2>2, <2>5, <3>2 DEF SumIInv
  <2> QED
    BY <2>3, <2>4, <2>5 DEF Summed
<1> QED
  BY <1>1, <1>2

(* BatchExact, for any number of threads, batches, epochs, points and      *)
(* edges, and any rate of pushes: where sums are added later, the only     *)
(* layouts anyone can see are the ones a single thread would reach batch by*)
(* batch, or epoch by epoch.                                               *)
THEOREM BatchesAsSerial == LayoutSpec => BatchExact
<1>1. LayoutInit => ThreadIInv /\ Balanced /\ SumIInv
  BY InitThreadIInv, SumInitially
<1>2. ThreadIInv /\ Balanced /\ SumIInv /\ [LayoutNext]_layoutVars
      => /\ (ThreadIInv /\ Balanced /\ SumIInv)'
         /\ Route \in Summed => coords' \in {coords, SerialStep}
  BY ThreadStep, SumStep
<1> QED
  BY <1>1, <1>2, PTL DEF LayoutSpec, BatchExact
=============================================================================
