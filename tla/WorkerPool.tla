----------------------------- MODULE WorkerPool -----------------------------
(* ParallelExecutor of tsne_neighbors.cpp: threads that live as long as a  *)
(* t-SNE call and share out its loops.  run() cuts the items of a loop     *)
(* into chunks, works on the first itself and waits until every thread has *)
(* reported, with or without a chunk of its own; the task refers to the    *)
(* caller's stack, so that no thread may touch it once run() is over.      *)
EXTENDS Integers, FiniteSets

CONSTANTS
    PoolThreads,    \* max_threads_, the caller among them
    Loops,          \* the loops the caller may run: items and threads asked for
    MaxItems,       \* bound: the largest loop
    MaxLoops        \* bound: the loops of a call

ASSUME PoolAssumption ==
    /\ PoolThreads \in Nat \ {0} /\ MaxItems \in Nat /\ MaxLoops \in Nat
    /\ Loops \subseteq [items : 0..MaxItems, threads : Nat \ {0}]

VARIABLES
    caller,     \* where the caller is
    loop,       \* the loop in hand: items, active threads and chunk size
    loops,      \* loops begun
    thrown,     \* error of the caller's own chunk
    outcome,    \* "none", "ok" or "error": what the last run() came to
    task,       \* task_ is set
    generation, completed, stopping,
    error,      \* worker_error_ is set
    worker,     \* thread -> where it is
    seen,       \* thread -> the generation it acted on last
    chunk,      \* thread -> the items of the task it has copied
    faults,     \* threads whose chunk has thrown in this run
    did         \* item -> times it has been worked on in this run

poolVars == <<caller, loop, loops, thrown, outcome, task, generation, completed, stopping,
              error, worker, seen, chunk, faults, did>>

Workers == 1..PoolThreads - 1
Items == 0..MaxItems - 1
Less(a, b) == IF a < b THEN a ELSE b

Active(l) == LET most == Less(Less(l.threads, PoolThreads), IF l.items < 1 THEN 1 ELSE l.items)
             IN  IF most < 1 THEN 1 ELSE most
(* Mutated form: the division rounds down, and the last items are left out. *)
ChunkSizeDown(l) == l.items \div Active(l)
ChunkSize(l) == (l.items + Active(l) - 1) \div Active(l)

ItemsOf(t) == {i \in Items : t * loop.size <= i /\ i < Less(loop.items, t * loop.size + loop.size)}
Work(S) == did' = [i \in Items |-> did[i] + (IF i \in S THEN 1 ELSE 0)]

PoolInit ==
    /\ caller = "idle" /\ loops = 0 /\ thrown = FALSE /\ outcome = "none"
    /\ loop = [items |-> 0, active |-> 1, size |-> 0]
    /\ task = FALSE /\ generation = 0 /\ completed = 0 /\ stopping = FALSE /\ error = FALSE
    /\ worker = [t \in Workers |-> "wait"]
    /\ seen = [t \in Workers |-> 0]
    /\ chunk = [t \in Workers |-> {}]
    /\ faults = {}
    /\ did = [i \in Items |-> 0]

-----------------------------------------------------------------------------
(* The caller                                                              *)

Wake == worker' = [t \in Workers |-> IF worker[t] = "asleep" THEN "wait" ELSE worker[t]]

(* A loop of one item, or for one thread, is not shared out.               *)
RunAlone ==
    /\ caller = "idle" /\ loops < MaxLoops
    /\ \E l \in Loops, throws \in BOOLEAN :
          /\ Active(l) = 1 \/ l.items < 2
          /\ loop' = [items |-> l.items, active |-> 1, size |-> l.items]
          /\ did' = [i \in Items |-> IF i < l.items THEN 1 ELSE 0]
          /\ faults' = IF throws THEN {0} ELSE {}
          /\ outcome' = IF throws THEN "error" ELSE "ok"
          /\ caller' = IF throws THEN "leave" ELSE "idle"
    /\ loops' = loops + 1
    /\ UNCHANGED <<thrown, task, generation, completed, stopping, error, worker, seen, chunk>>

Post ==
    /\ caller = "idle" /\ loops < MaxLoops
    /\ \E l \in Loops :
          /\ Active(l) > 1 /\ l.items >= 2
          /\ loop' = [items |-> l.items, active |-> Active(l), size |-> ChunkSize(l)]
    /\ loops' = loops + 1
    /\ task' = TRUE /\ completed' = 0 /\ error' = FALSE
    /\ generation' = generation + 1
    /\ thrown' = FALSE /\ outcome' = "none" /\ faults' = {} /\ did' = [i \in Items |-> 0]
    /\ caller' = "tell"
    /\ UNCHANGED <<stopping, worker, seen, chunk>>

Tell ==
    /\ caller = "tell"
    /\ Wake
    /\ caller' = "work"
    /\ UNCHANGED <<loop, loops, thrown, outcome, task, generation, completed, stopping, error,
                   seen, chunk, faults, did>>

OwnChunk ==
    /\ caller = "work"
    /\ Work(ItemsOf(0))
    /\ thrown' \in BOOLEAN
    /\ faults' = IF thrown' THEN faults \cup {0} ELSE faults
    /\ caller' = "await"
    /\ UNCHANGED <<loop, loops, outcome, task, generation, completed, stopping, error, worker,
                   seen, chunk>>

(* Mutated form: the caller waits for the threads that have a chunk.       *)
AllDoneActive == completed >= loop.active - 1
AllDone == completed = Cardinality(Workers)

Await ==
    /\ caller = "await"
    /\ IF ~AllDone
       THEN caller' = "asleep" /\ UNCHANGED <<outcome, task>>
       ELSE /\ task' = FALSE
            /\ outcome' = IF thrown \/ error THEN "error" ELSE "ok"
            /\ caller' = IF thrown \/ error THEN "leave" ELSE "idle"
    /\ UNCHANGED <<loop, loops, thrown, generation, completed, stopping, error, worker, seen,
                   chunk, faults, did>>

(* ~ParallelExecutor, at the end of the call or when an error leaves it.   *)
Destroy ==
    /\ caller \in {"idle", "leave"}
    /\ stopping' = TRUE /\ generation' = generation + 1
    /\ caller' = "tellstop"
    /\ UNCHANGED <<loop, loops, thrown, outcome, task, completed, error, worker, seen, chunk,
                   faults, did>>

TellStop ==
    /\ caller = "tellstop"
    /\ Wake
    /\ caller' = "join"
    /\ UNCHANGED <<loop, loops, thrown, outcome, task, generation, completed, stopping, error,
                   seen, chunk, faults, did>>

Join ==
    /\ caller = "join"
    /\ \A t \in Workers : worker[t] = "gone"
    /\ caller' = "ended"
    /\ UNCHANGED <<loop, loops, thrown, outcome, task, generation, completed, stopping, error,
                   worker, seen, chunk, faults, did>>

-----------------------------------------------------------------------------
(* A worker: worker_loop                                                   *)

NothingNew(t) == seen[t] = generation

Look(t) ==
    /\ worker[t] = "wait"
    /\ LET mine == IF t < loop.active THEN ItemsOf(t) ELSE {}
       IN  IF stopping THEN worker' = [worker EXCEPT ![t] = "gone"] /\ UNCHANGED <<seen, chunk>>
           ELSE IF NothingNew(t)
           THEN worker' = [worker EXCEPT ![t] = "asleep"] /\ UNCHANGED <<seen, chunk>>
           ELSE /\ seen' = [seen EXCEPT ![t] = generation]
                /\ chunk' = [chunk EXCEPT ![t] = mine]
                /\ worker' = [worker EXCEPT ![t] = IF mine = {} THEN "report" ELSE "run"]
    /\ UNCHANGED <<caller, loop, loops, thrown, outcome, task, generation, completed, stopping,
                   error, faults, did>>

Run(t) ==
    /\ worker[t] = "run"
    /\ Work(chunk[t])
    /\ \/ worker' = [worker EXCEPT ![t] = "report"] /\ UNCHANGED faults
       \/ worker' = [worker EXCEPT ![t] = "fail"] /\ faults' = faults \cup {t}
    /\ UNCHANGED <<caller, loop, loops, thrown, outcome, task, generation, completed, stopping,
                   error, seen, chunk>>

(* Mutated form: only the last thread to report keeps what it has caught.  *)
RecordErrorLast(t) ==
    /\ worker[t] = "fail"
    /\ error' = (error \/ completed + 1 = Cardinality(Workers))
    /\ worker' = [worker EXCEPT ![t] = "report"]
    /\ UNCHANGED <<caller, loop, loops, thrown, outcome, task, generation, completed, stopping,
                   seen, chunk, faults, did>>
RecordError(t) ==
    /\ worker[t] = "fail"
    /\ error' = TRUE
    /\ worker' = [worker EXCEPT ![t] = "report"]
    /\ UNCHANGED <<caller, loop, loops, thrown, outcome, task, generation, completed, stopping,
                   seen, chunk, faults, did>>

Roused(at) == IF at = "asleep" THEN "await" ELSE at

Report(t) ==
    /\ worker[t] = "report"
    /\ completed' = completed + 1
    /\ worker' = [worker EXCEPT ![t] = "wait"]
    /\ chunk' = [chunk EXCEPT ![t] = {}]
    /\ caller' = IF completed + 1 = Cardinality(Workers) THEN Roused(caller) ELSE caller
    /\ UNCHANGED <<loop, loops, thrown, outcome, task, generation, stopping, error, seen, faults,
                   did>>

(* A condition variable may wake a thread for no reason.                   *)
WakeWorker(t) ==
    /\ worker[t] = "asleep"
    /\ worker' = [worker EXCEPT ![t] = "wait"]
    /\ UNCHANGED <<caller, loop, loops, thrown, outcome, task, generation, completed, stopping,
                   error, seen, chunk, faults, did>>

WakeCaller ==
    /\ caller = "asleep"
    /\ caller' = "await"
    /\ UNCHANGED <<loop, loops, thrown, outcome, task, generation, completed, stopping, error,
                   worker, seen, chunk, faults, did>>

-----------------------------------------------------------------------------
CallerDoes ==
    RunAlone \/ Post \/ Tell \/ OwnChunk \/ Await \/ Destroy \/ TellStop \/ Join
WorkerDoes(t) == Look(t) \/ Run(t) \/ RecordError(t) \/ Report(t)

PoolNext ==
    \/ CallerDoes \/ WakeCaller
    \/ \E t \in Workers : WorkerDoes(t) \/ WakeWorker(t)

(* The operating system runs every thread that can run.                    *)
PoolFairness ==
    WF_poolVars(CallerDoes) /\ \A t \in Workers : WF_poolVars(WorkerDoes(t))

PoolSpec == PoolInit /\ [][PoolNext]_poolVars /\ PoolFairness

-----------------------------------------------------------------------------
InRun == caller \in {"tell", "work", "await", "asleep"}

(* A thread works, or is about to, only on the task of the run() in hand:  *)
(* once run() is over, what the task refers to is gone.                    *)
TaskAlive ==
    \A t \in Workers : worker[t] \in {"run", "fail"} => InRun /\ task /\ seen[t] = generation

(* A run() that returns has worked on every item of its loop once, and on  *)
(* nothing else, whatever the number of threads and of items.              *)
EachItemOnce ==
    outcome = "ok" /\ caller = "idle" =>
        \A i \in Items : did[i] = IF i < loop.items THEN 1 ELSE 0

(* A run() in which a chunk has thrown ends with an error, also when the   *)
(* thread that threw was not the last to report.                           *)
ErrorsReported == ~InRun => (outcome = "error" <=> faults # {})

PoolEnded == caller = "ended"
=============================================================================
