------------------------------ MODULE ThreadPool ------------------------------
(***************************************************************************)
(* class ThreadPool (httplib.h), the default TaskQueue of the server: a    *)
(* fixed number of base threads, dynamic threads that enqueue starts while *)
(* nobody is idle and that leave after an idle timeout, one mutex, one     *)
(* condition variable.                                                     *)
(*                                                                         *)
(* A critical section that cannot block inside is one action, guarded by   *)
(* the mutex being free.  The two that join threads while they hold the    *)
(* mutex (enqueue and the end of shutdown) are split, so that whatever     *)
(* else needs the mutex waits for the join.  A waiter of the condition     *)
(* variable is "waiting"; a notification, a spurious wakeup or the timeout *)
(* makes it "woken" or "timedout", and it then competes for the mutex and  *)
(* re-evaluates the predicate.                                             *)
(***************************************************************************)
EXTENDS Naturals, Sequences, FiniteSets

CONSTANTS
    Jobs,          \* the std::function<void()> objects handed to enqueue
    Callers,       \* threads that call enqueue
    Main,          \* the thread that constructs the pool and calls shutdown
    Workers,       \* thread identities; one is reused once its thread is joined
    NoThread,      \* the mutex is free
    NoJob,         \* the worker runs no job
    BaseCount,     \* base_thread_count_
    MaxCount,      \* max_thread_count_
    MaxQueued,     \* max_queued_requests_, 0 for no limit
    SpawnMayFail   \* whether std::thread's constructor may throw

ASSUME PoolAssumption ==
    /\ BaseCount \in Nat
    /\ MaxCount \in Nat
    /\ BaseCount <= MaxCount       \* the constructor throws otherwise
    /\ MaxQueued \in Nat
    /\ SpawnMayFail \in BOOLEAN
    /\ IsFiniteSet(Workers)
    /\ Cardinality(Workers) >= MaxCount
    /\ Main \notin Callers
    /\ NoThread \notin Callers \cup {Main}
    /\ NoJob \notin Jobs

VARIABLES
    mutex_,             \* who holds mutex_ across steps
    jobs_,              \* the queue
    threads_,           \* base threads
    dynamic_threads_,   \* dynamic threads that have not left
    finished_threads_,  \* dynamic threads that left, to be joined
    idle_thread_count_,
    shutdown_,
    remaining_dynamic,  \* local of shutdown: what it took out of dynamic_threads_
    wpc,                \* where each worker thread is
    fn,                 \* the job each worker runs
    cpc,                \* where each caller is inside enqueue
    mpc,                \* where Main is: constructor, between calls, shutdown
    outcome,            \* what became of each job's enqueue call
    runs,               \* how often each job was started
    done                \* jobs that returned

poolvars == <<jobs_, threads_, dynamic_threads_, finished_threads_,
              idle_thread_count_, shutdown_, remaining_dynamic>>
vars == <<mutex_, poolvars, wpc, fn, cpc, mpc, outcome, runs, done>>

Idle == {"waiting", "woken", "timedout"}
WorkerStates == Idle \cup {"unborn", "start", "running", "leaving", "exited"}
MainStates == {"ctor", "unwind_notify", "unwind_join", "failed", "open",
               "notify_all", "join_base", "take_dynamic", "join_dynamic",
               "cleanup", "closed"}

TypeOK ==
    /\ mutex_ \in Callers \cup {Main, NoThread}
    /\ jobs_ \in Seq(Jobs)
    /\ threads_ \subseteq Workers
    /\ dynamic_threads_ \subseteq Workers
    /\ finished_threads_ \subseteq Workers
    /\ remaining_dynamic \subseteq Workers
    /\ idle_thread_count_ \in Nat
    /\ shutdown_ \in BOOLEAN
    /\ wpc \in [Workers -> WorkerStates]
    /\ fn \in [Workers -> Jobs \cup {NoJob}]
    /\ cpc \in [Callers -> {"out", "spawn", "notify"}]
    /\ mpc \in MainStates
    /\ outcome \in [Jobs -> {"none", "accepted", "rejected", "threw"}]
    /\ runs \in [Jobs -> Nat]
    /\ done \subseteq Jobs

Init ==
    /\ mutex_ = NoThread
    /\ jobs_ = <<>>
    /\ threads_ = {}
    /\ dynamic_threads_ = {}
    /\ finished_threads_ = {}
    /\ remaining_dynamic = {}
    /\ idle_thread_count_ = 0
    /\ shutdown_ = FALSE
    /\ wpc = [w \in Workers |-> "unborn"]
    /\ fn = [w \in Workers |-> NoJob]
    /\ cpc = [c \in Callers |-> "out"]
    /\ mpc = "ctor"
    /\ outcome = [j \in Jobs |-> "none"]
    /\ runs = [j \in Jobs |-> 0]
    /\ done = {}

MutexFree == mutex_ = NoThread
Constructed == mpc \notin {"ctor", "unwind_notify", "unwind_join", "failed"}

\* The predicate both waits of worker() use.
HasWork == jobs_ # <<>> \/ shutdown_

\* A wrong notify_all, for comparison: nobody hears it.
NotifyNobody == UNCHANGED wpc

\* cond_.notify_all()
NotifyAll == wpc' = [w \in Workers |-> IF wpc[w] = "waiting" THEN "woken" ELSE wpc[w]]

-----------------------------------------------------------------------------
(* ThreadPool::ThreadPool *)

SpawnBase(w) ==
    /\ mpc = "ctor"
    /\ Cardinality(threads_) < BaseCount
    /\ wpc[w] = "unborn"
    /\ threads_' = threads_ \cup {w}
    /\ wpc' = [wpc EXCEPT ![w] = "start"]
    /\ UNCHANGED <<mutex_, jobs_, dynamic_threads_, finished_threads_,
                   idle_thread_count_, shutdown_, remaining_dynamic, fn, cpc,
                   mpc, outcome, runs, done>>

CtorReturns ==
    /\ mpc = "ctor"
    /\ Cardinality(threads_) = BaseCount
    /\ mpc' = "open"
    /\ UNCHANGED <<mutex_, poolvars, wpc, fn, cpc, outcome, runs, done>>

\* std::thread throws: the catch block sets shutdown_ under the mutex ...
CtorFails ==
    /\ SpawnMayFail
    /\ mpc = "ctor"
    /\ Cardinality(threads_) < BaseCount
    /\ MutexFree
    /\ shutdown_' = TRUE
    /\ mpc' = "unwind_notify"
    /\ UNCHANGED <<mutex_, jobs_, threads_, dynamic_threads_, finished_threads_,
                   idle_thread_count_, remaining_dynamic, wpc, fn, cpc,
                   outcome, runs, done>>

\* ... wakes the workers already started ...
UnwindNotify ==
    /\ mpc = "unwind_notify"
    /\ NotifyAll
    /\ mpc' = "unwind_join"
    /\ UNCHANGED <<mutex_, poolvars, fn, cpc, outcome, runs, done>>

\* ... joins them and rethrows.
UnwindJoin ==
    /\ mpc = "unwind_join"
    /\ \A w \in threads_ : wpc[w] = "exited"
    /\ mpc' = "failed"
    /\ UNCHANGED <<mutex_, poolvars, wpc, fn, cpc, outcome, runs, done>>

-----------------------------------------------------------------------------
(* ThreadPool::enqueue *)

QueueFull == MaxQueued > 0 /\ Len(jobs_) >= MaxQueued

\* A wrong limit: base threads are not counted.
NeedsThreadUncounted == idle_thread_count_ = 0 /\ Cardinality(dynamic_threads_) < MaxCount

NeedsThread ==
    /\ idle_thread_count_ = 0
    /\ Cardinality(threads_) + Cardinality(dynamic_threads_) < MaxCount

EnqueueRejects(c, j) ==
    /\ Constructed
    /\ cpc[c] = "out"
    /\ outcome[j] = "none"
    /\ MutexFree
    /\ shutdown_ \/ QueueFull
    /\ outcome' = [outcome EXCEPT ![j] = "rejected"]
    /\ UNCHANGED <<mutex_, poolvars, wpc, fn, cpc, mpc, runs, done>>

\* The job is queued; either nothing else happens under the mutex, or it stays
\* held while the threads that left are joined and a new one is started.
Enqueue(c, j) ==
    /\ Constructed
    /\ cpc[c] = "out"
    /\ outcome[j] = "none"
    /\ MutexFree
    /\ ~shutdown_
    /\ ~QueueFull
    /\ jobs_' = Append(jobs_, j)
    /\ outcome' = [outcome EXCEPT ![j] = "accepted"]
    /\ \/ /\ NeedsThread
          /\ cpc' = [cpc EXCEPT ![c] = "spawn"]
          /\ mutex_' = c
       \/ /\ ~NeedsThread
          /\ cpc' = [cpc EXCEPT ![c] = "notify"]
          /\ UNCHANGED mutex_
    /\ UNCHANGED <<threads_, dynamic_threads_, finished_threads_,
                   idle_thread_count_, shutdown_, remaining_dynamic, wpc, fn,
                   mpc, runs, done>>

\* cleanup_finished_threads: every finished thread is joined, its identity free.
FinishedExited == \A w \in finished_threads_ : wpc[w] = "exited"
Reaped == [w \in Workers |-> IF w \in finished_threads_ THEN "unborn" ELSE wpc[w]]

SpawnDynamic(c, w) ==
    /\ cpc[c] = "spawn"
    /\ FinishedExited
    /\ Reaped[w] = "unborn"
    /\ finished_threads_' = {}
    /\ dynamic_threads_' = dynamic_threads_ \cup {w}
    /\ wpc' = [Reaped EXCEPT ![w] = "start"]
    /\ mutex_' = NoThread
    /\ cpc' = [cpc EXCEPT ![c] = "notify"]
    /\ UNCHANGED <<jobs_, threads_, idle_thread_count_, shutdown_,
                   remaining_dynamic, fn, mpc, outcome, runs, done>>

\* std::thread throws out of enqueue: the job stays queued, nobody is notified.
SpawnDynamicFails(c, j) ==
    /\ SpawnMayFail
    /\ cpc[c] = "spawn"
    /\ FinishedExited
    /\ j = jobs_[Len(jobs_)]
    /\ finished_threads_' = {}
    /\ wpc' = Reaped
    /\ mutex_' = NoThread
    /\ cpc' = [cpc EXCEPT ![c] = "out"]
    /\ outcome' = [outcome EXCEPT ![j] = "threw"]
    /\ UNCHANGED <<jobs_, threads_, dynamic_threads_, idle_thread_count_,
                   shutdown_, remaining_dynamic, fn, mpc, runs, done>>

\* cond_.notify_one(), after the mutex is released
NotifyOne(c) ==
    /\ cpc[c] = "notify"
    /\ \/ \E w \in Workers :
            /\ wpc[w] = "waiting"
            /\ wpc' = [wpc EXCEPT ![w] = "woken"]
       \/ /\ \A w \in Workers : wpc[w] # "waiting"
          /\ UNCHANGED wpc
    /\ cpc' = [cpc EXCEPT ![c] = "out"]
    /\ UNCHANGED <<mutex_, poolvars, fn, mpc, outcome, runs, done>>

-----------------------------------------------------------------------------
(* ThreadPool::shutdown *)

ShutdownBegins ==
    /\ mpc = "open"
    /\ MutexFree
    /\ shutdown_' = TRUE
    /\ mpc' = "notify_all"
    /\ UNCHANGED <<mutex_, jobs_, threads_, dynamic_threads_, finished_threads_,
                   idle_thread_count_, remaining_dynamic, wpc, fn, cpc,
                   outcome, runs, done>>

ShutdownNotifies ==
    /\ mpc = "notify_all"
    /\ NotifyAll
    /\ mpc' = "join_base"
    /\ UNCHANGED <<mutex_, poolvars, fn, cpc, outcome, runs, done>>

\* A wrong shutdown: it does not wait for the base threads.
JoinBaseSkipped ==
    /\ mpc = "join_base"
    /\ mpc' = "take_dynamic"
    /\ UNCHANGED <<mutex_, poolvars, wpc, fn, cpc, outcome, runs, done>>

JoinBase ==
    /\ mpc = "join_base"
    /\ \A w \in threads_ : wpc[w] = "exited"
    /\ mpc' = "take_dynamic"
    /\ UNCHANGED <<mutex_, poolvars, wpc, fn, cpc, outcome, runs, done>>

TakeDynamic ==
    /\ mpc = "take_dynamic"
    /\ MutexFree
    /\ remaining_dynamic' = dynamic_threads_
    /\ dynamic_threads_' = {}
    /\ mpc' = "join_dynamic"
    /\ UNCHANGED <<mutex_, jobs_, threads_, finished_threads_,
                   idle_thread_count_, shutdown_, wpc, fn, cpc, outcome, runs, done>>

\* The last join, then the mutex is taken for the final cleanup.
JoinDynamic ==
    /\ mpc = "join_dynamic"
    /\ \A w \in remaining_dynamic : wpc[w] = "exited"
    /\ MutexFree
    /\ mutex_' = Main
    /\ mpc' = "cleanup"
    /\ UNCHANGED <<poolvars, wpc, fn, cpc, outcome, runs, done>>

ShutdownReturns ==
    /\ mpc = "cleanup"
    /\ FinishedExited
    /\ finished_threads_' = {}
    /\ wpc' = Reaped
    /\ mutex_' = NoThread
    /\ mpc' = "closed"
    /\ UNCHANGED <<jobs_, threads_, dynamic_threads_, idle_thread_count_,
                   shutdown_, remaining_dynamic, fn, cpc, outcome, runs, done>>

-----------------------------------------------------------------------------
(* ThreadPool::worker *)

\* A wrong worker: it runs the oldest job and leaves it in the queue.
TakeJobKeepsIt(w) ==
    /\ jobs_ # <<>>
    /\ fn' = [fn EXCEPT ![w] = Head(jobs_)]
    /\ runs' = [runs EXCEPT ![Head(jobs_)] = @ + 1]
    /\ wpc' = [wpc EXCEPT ![w] = "running"]
    /\ UNCHANGED jobs_

\* The wait is over and jobs_ is not empty: take the oldest job and run it.
TakeJob(w) ==
    /\ jobs_ # <<>>
    /\ fn' = [fn EXCEPT ![w] = Head(jobs_)]
    /\ jobs_' = Tail(jobs_)
    /\ runs' = [runs EXCEPT ![Head(jobs_)] = @ + 1]
    /\ wpc' = [wpc EXCEPT ![w] = "running"]

\* A wrong worker: it leaves on shutdown although jobs are queued.
LeaveLoopAtOnce(w) ==
    /\ shutdown_
    /\ wpc' = [wpc EXCEPT ![w] = "leaving"]
    /\ UNCHANGED <<fn, jobs_, runs>>

\* The wait is over because of shutdown_, nothing is left to run.
LeaveLoop(w) ==
    /\ jobs_ = <<>>
    /\ shutdown_
    /\ wpc' = [wpc EXCEPT ![w] = "leaving"]
    /\ UNCHANGED <<fn, jobs_, runs>>

\* The worker locks the mutex and finds the predicate true: it does not wait,
\* and its increment and decrement of idle_thread_count_ cancel out.
ProceedAtOnce(w) ==
    /\ wpc[w] = "start"
    /\ MutexFree
    /\ TakeJob(w) \/ LeaveLoop(w)
    /\ UNCHANGED <<mutex_, threads_, dynamic_threads_, finished_threads_,
                   idle_thread_count_, shutdown_, remaining_dynamic, cpc, mpc,
                   outcome, done>>

\* A wrong wait: the worker is not counted as idle.
BeginWaitUncounted(w) ==
    /\ wpc[w] = "start"
    /\ MutexFree
    /\ ~HasWork
    /\ wpc' = [wpc EXCEPT ![w] = "waiting"]
    /\ UNCHANGED <<mutex_, poolvars, fn, cpc, mpc, outcome, runs, done>>

\* A wrong BeginWait: the wait has no predicate.
BeginWaitBlind(w) ==
    /\ wpc[w] = "start"
    /\ MutexFree
    /\ idle_thread_count_' = idle_thread_count_ + 1
    /\ wpc' = [wpc EXCEPT ![w] = "waiting"]
    /\ UNCHANGED <<mutex_, jobs_, threads_, dynamic_threads_, finished_threads_,
                   shutdown_, remaining_dynamic, fn, cpc, mpc, outcome, runs, done>>

\* ... or false: it waits, idle, and releases the mutex.
BeginWait(w) ==
    /\ wpc[w] = "start"
    /\ MutexFree
    /\ ~HasWork
    /\ idle_thread_count_' = idle_thread_count_ + 1
    /\ wpc' = [wpc EXCEPT ![w] = "waiting"]
    /\ UNCHANGED <<mutex_, jobs_, threads_, dynamic_threads_, finished_threads_,
                   shutdown_, remaining_dynamic, fn, cpc, mpc, outcome, runs, done>>

SpuriousWakeup(w) ==
    /\ wpc[w] = "waiting"
    /\ wpc' = [wpc EXCEPT ![w] = "woken"]
    /\ UNCHANGED <<mutex_, poolvars, fn, cpc, mpc, outcome, runs, done>>

\* Only dynamic threads wait with a deadline.
IdleTimeout(w) ==
    /\ wpc[w] = "waiting"
    /\ w \notin threads_
    /\ wpc' = [wpc EXCEPT ![w] = "timedout"]
    /\ UNCHANGED <<mutex_, poolvars, fn, cpc, mpc, outcome, runs, done>>

\* The mutex is back and the predicate holds (after a timeout too: wait_for
\* returns the predicate's value, not the timeout).
ProceedAfterWait(w) ==
    /\ wpc[w] \in {"woken", "timedout"}
    /\ MutexFree
    /\ idle_thread_count_' = idle_thread_count_ - 1
    /\ TakeJob(w) \/ LeaveLoop(w)
    /\ UNCHANGED <<mutex_, threads_, dynamic_threads_, finished_threads_,
                   shutdown_, remaining_dynamic, cpc, mpc, outcome, done>>

WaitAgain(w) ==
    /\ wpc[w] = "woken"
    /\ MutexFree
    /\ ~HasWork
    /\ wpc' = [wpc EXCEPT ![w] = "waiting"]
    /\ UNCHANGED <<mutex_, poolvars, fn, cpc, mpc, outcome, runs, done>>

\* move_to_finished: only a thread still listed in dynamic_threads_ moves.
Retire(w) ==
    /\ wpc[w] = "timedout"
    /\ MutexFree
    /\ ~HasWork
    /\ idle_thread_count_' = idle_thread_count_ - 1
    /\ finished_threads_' = finished_threads_ \cup ({w} \cap dynamic_threads_)
    /\ dynamic_threads_' = dynamic_threads_ \ {w}
    /\ wpc' = [wpc EXCEPT ![w] = "leaving"]
    /\ UNCHANGED <<mutex_, jobs_, threads_, shutdown_, remaining_dynamic, fn,
                   cpc, mpc, outcome, runs, done>>

FinishJob(w) ==
    /\ wpc[w] = "running"
    /\ done' = done \cup {fn[w]}
    /\ fn' = [fn EXCEPT ![w] = NoJob]
    /\ wpc' = [wpc EXCEPT ![w] = "start"]
    /\ UNCHANGED <<mutex_, poolvars, cpc, mpc, outcome, runs>>

Exit(w) ==
    /\ wpc[w] = "leaving"
    /\ wpc' = [wpc EXCEPT ![w] = "exited"]
    /\ UNCHANGED <<mutex_, poolvars, fn, cpc, mpc, outcome, runs, done>>

-----------------------------------------------------------------------------
MainStep ==
    \/ \E w \in Workers : SpawnBase(w)
    \/ CtorReturns \/ CtorFails \/ UnwindNotify \/ UnwindJoin
    \/ ShutdownBegins \/ ShutdownNotifies \/ JoinBase \/ TakeDynamic
    \/ JoinDynamic \/ ShutdownReturns

CallStep(c) ==
    \/ \E j \in Jobs : EnqueueRejects(c, j) \/ Enqueue(c, j) \/ SpawnDynamicFails(c, j)
    \/ \E w \in Workers : SpawnDynamic(c, w)
    \/ NotifyOne(c)

\* What a worker does by itself, without the clock or a spurious wakeup.
WorkStep(w) ==
    \/ ProceedAtOnce(w) \/ BeginWait(w) \/ ProceedAfterWait(w) \/ WaitAgain(w)
    \/ Retire(w) \/ FinishJob(w) \/ Exit(w)

Finished ==
    /\ mpc \in {"closed", "failed"}
    /\ \A c \in Callers : cpc[c] = "out"
    /\ \A j \in Jobs : outcome[j] # "none" \/ mpc = "failed"
    /\ UNCHANGED vars

Next ==
    \/ MainStep
    \/ \E c \in Callers : CallStep(c)
    \/ \E w \in Workers : WorkStep(w) \/ SpuriousWakeup(w) \/ IdleTimeout(w)
    \/ Finished

Spec == Init /\ [][Next]_vars

(***************************************************************************)
(* Fairness.  Every thread that can take its next step eventually takes    *)
(* it: a call already inside enqueue or shutdown, and a worker, whose job  *)
(* is assumed to return.  The mutex and a deadline that is absolute (the   *)
(* repeated wait of wait_for cannot postpone it) make it strong fairness.  *)
(* Nobody has to call enqueue or shutdown, and no wakeup is spurious       *)
(* because it must.                                                        *)
(***************************************************************************)
InsideCall(c) == (\E w \in Workers : SpawnDynamic(c, w)) \/ NotifyOne(c)

Fairness ==
    /\ \A c \in Callers : WF_vars(InsideCall(c))
    /\ SF_vars(MainStep /\ mpc \notin {"open"})
    /\ \A w \in Workers : SF_vars(WorkStep(w)) /\ SF_vars(IdleTimeout(w))

FairSpec == Spec /\ Fairness

-----------------------------------------------------------------------------
(* Safety *)

\* enqueue decides whether to start a thread from idle_thread_count_: it is
\* exactly the number of workers inside a wait, notified or not, whatever the
\* interleaving of timeouts, notifications and calls.
IdleCountExact ==
    idle_thread_count_ = Cardinality({w \in Workers : wpc[w] \in Idle})

\* max_threads bounds the threads that exist, not only the two lists enqueue
\* counts: finished threads waiting for their join are within the bound too.
ThreadsBounded ==
    Cardinality({w \in Workers : wpc[w] # "unborn"}) <= MaxCount

\* A job is started at most once, and never if enqueue turned it away.
StartedOnce ==
    \A j \in Jobs : /\ runs[j] <= 1
                    /\ outcome[j] \in {"none", "rejected"} => runs[j] = 0

\* notify_one is called outside the mutex and may hit a worker that loses the
\* race for the job.  Still no job is stranded while a worker sleeps: as many
\* workers are on their way to the queue, or callers about to notify, as jobs.
NoStrandedJob ==
    (/\ ~shutdown_
     /\ \E w \in Workers : wpc[w] = "waiting")
    => Len(jobs_) <= Cardinality({w \in Workers : wpc[w] \in {"start", "woken", "timedout"}})
                     + Cardinality({c \in Callers : cpc[c] # "out"})

\* When shutdown has returned, every job that enqueue accepted has been run to
\* its end (with no base thread nobody may be there to run it).
ShutdownDrains ==
    mpc = "closed" /\ BaseCount > 0
    => \A j \in Jobs : outcome[j] = "accepted" => j \in done

\* When shutdown, or the failed constructor, is over, no worker can touch the
\* members any more, and the lists about to be destroyed hold no thread that
\* was not joined (std::thread's destructor would terminate the process).
NoThreadOutlivesPool ==
    mpc \in {"closed", "failed"}
    => /\ \A w \in Workers : wpc[w] \in {"unborn", "exited"}
       /\ dynamic_threads_ = {}
       /\ finished_threads_ = {}

\* The pool implements the queue the server relies on (BaseCount > 0).
TQ == INSTANCE TaskQueue WITH
        queue <- jobs_,
        active <- {fn[w] : w \in {x \in Workers : wpc[x] = "running"}},
        phase <- IF mpc = "closed" THEN "closed" ELSE IF shutdown_ THEN "closing" ELSE "open"

ImplementsTaskQueue == TQ!Spec

-----------------------------------------------------------------------------
(* The inductive invariant behind the safety properties *)

\* A worker holds a job exactly while it runs it.
RunningHasJob == \A w \in Workers : wpc[w] = "running" <=> fn[w] \in Jobs

\* The mutex is held across steps by the caller that is starting a thread, or
\* by shutdown's last cleanup, and by nobody else.
MutexInv ==
    /\ \A c \in Callers : cpc[c] = "spawn" <=> mutex_ = c
    /\ mpc = "cleanup" <=> mutex_ = Main
    /\ \A c \in Callers : cpc[c] = "spawn" => jobs_ # <<>> /\ ~shutdown_

\* shutdown_ is set exactly from the first step of shutdown, or of the
\* constructor's catch block, on; nothing is queued before the constructor is done.
PhaseInv ==
    /\ shutdown_ <=> mpc \notin {"ctor", "open"}
    /\ ~Constructed => /\ jobs_ = <<>>
                       /\ dynamic_threads_ = {}
                       /\ \A c \in Callers : cpc[c] = "out"
    /\ Constructed => Cardinality(threads_) = BaseCount
    /\ mpc \in {"join_dynamic", "cleanup", "closed"} => dynamic_threads_ = {}
    /\ mpc \notin {"join_dynamic", "cleanup", "closed"} => remaining_dynamic = {}

\* Every thread that exists is in exactly one list, the finished ones are past
\* their loop, base threads never time out, and a base thread leaves its loop
\* only when there is nothing left to run and never will be.
ThreadInv ==
    /\ \A w \in Workers :
         /\ wpc[w] # "unborn" => w \in threads_ \cup dynamic_threads_
                                       \cup finished_threads_ \cup remaining_dynamic
         /\ w \in threads_ \cup dynamic_threads_ \cup finished_threads_ => wpc[w] # "unborn"
         /\ w \in finished_threads_ => wpc[w] \in {"leaving", "exited"}
         /\ w \in threads_ => wpc[w] # "timedout"
         /\ w \in threads_ /\ wpc[w] \in {"leaving", "exited"} => shutdown_ /\ jobs_ = <<>>
    /\ threads_ \cap (dynamic_threads_ \cup finished_threads_ \cup remaining_dynamic) = {}
    /\ dynamic_threads_ \cap finished_threads_ = {}
    /\ remaining_dynamic \cap finished_threads_ = {}

\* What shutdown and the catch block have joined stays joined.
JoinInv ==
    /\ mpc \in {"take_dynamic", "join_dynamic", "cleanup", "closed", "failed"}
       => \A w \in threads_ : wpc[w] = "exited"
    /\ mpc \in {"cleanup", "closed"} => \A w \in remaining_dynamic : wpc[w] = "exited"
    /\ mpc \in {"closed", "failed"} \cup {"ctor", "unwind_notify", "unwind_join"}
       => finished_threads_ = {}

\* A queued job was accepted (or its enqueue threw), is queued once and was not
\* started; an accepted job is queued, running or done.
JobInv ==
    /\ \A i \in DOMAIN jobs_ :
         /\ outcome[jobs_[i]] \in {"accepted", "threw"}
         /\ runs[jobs_[i]] = 0
         /\ \A k \in DOMAIN jobs_ : jobs_[i] = jobs_[k] => i = k
    /\ \A j \in Jobs : outcome[j] = "accepted"
                       => \/ j \in done
                          \/ \E w \in Workers : fn[w] = j
                          \/ \E i \in DOMAIN jobs_ : jobs_[i] = j

IInv ==
    /\ TypeOK
    /\ IdleCountExact
    /\ RunningHasJob
    /\ MutexInv
    /\ PhaseInv
    /\ ThreadInv
    /\ JoinInv
    /\ JobInv
    /\ StartedOnce

-----------------------------------------------------------------------------
(* Liveness, under FairSpec *)

\* An accepted job is eventually started, even if shutdown comes first.
JobRuns(j) == outcome[j] = "accepted" ~> runs[j] > 0

\* shutdown terminates: no join waits for a thread that waits for a wakeup or
\* for a mutex that is never released.
ShutdownTerminates == shutdown_ ~> mpc \in {"closed", "failed"}

\* A dynamic thread that starts to wait either gets a job or leaves.
Retires(w) ==
    w \in dynamic_threads_ /\ wpc[w] = "waiting"
    ~> wpc[w] = "running" \/ w \notin dynamic_threads_

-----------------------------------------------------------------------------
(* A claim of the documentation the code does not keep *)

\* In no run.  README-websocket.md: when all base threads are busy, temporary threads are
\* spawned up to the maximum.  So while a job is queued, nobody is inside
\* enqueue and every thread is busy running a job, the maximum is reached.
SpawnsWhenAllBusy ==
    (/\ Constructed
     /\ ~shutdown_
     /\ jobs_ # <<>>
     /\ \A c \in Callers : cpc[c] = "out"
     /\ \A w \in threads_ \cup dynamic_threads_ : wpc[w] = "running")
    => Cardinality(threads_) + Cardinality(dynamic_threads_) >= MaxCount
=============================================================================
