-------------------------- MODULE PoolAndFormProofs --------------------------
(***************************************************************************)
(* Proofs about ThreadPool, and about forms (Content, Multipart), which    *)
(* share a module but nothing else.                                        *)
(*                                                                         *)
(* ThreadPool, for every value of its constants.  The safety properties    *)
(* that IInv implies come first: each lemma NextX shows that a step        *)
(* preserves one conjunct of it, one step of the proof per action.  Then   *)
(* the number of threads, which needs who has still to be joined; the jobs *)
(* that sleeping workers wait for, which needs who was notified; and the   *)
(* steps of the abstract TaskQueue.                                        *)
(*                                                                         *)
(* Forms, for every sender, list of items, preamble and epilogue, send     *)
(* buffer and limit on the parts.  A form is one long text, w.  What the   *)
(* sender has still to send, its buffer, the bytes on the wire and the     *)
(* parser's buffer are stretches of w that lie one behind the other, and   *)
(* the parser's state says which of the form's parts it stands in: FormInv.*)
(* The delimiter occurs in w at the ends of the parts and nowhere else,    *)
(* because a content has no boundary in it, so that buf_find finds what it *)
(* looks for exactly where the next part begins.                           *)
(***************************************************************************)
EXTENDS ThreadPool, Content, QueueLemmas, FiniteSetTheorems

\* The workers inside one of the waits of worker::operator().
IdleWorkers == {w \in Workers : wpc[w] \in Idle}

-----------------------------------------------------------------------------
(* Counting idle workers *)

\* They are finitely many, and the counter's invariant counts them.
LEMMA IdleWorkersFinite ==
    /\ IsFiniteSet(IdleWorkers)
    /\ Cardinality(IdleWorkers) \in Nat
    /\ IdleCountExact <=> idle_thread_count_ = Cardinality(IdleWorkers)
<1>1. IdleWorkers \in SUBSET Workers
  BY DEF IdleWorkers
<1> QED
  BY <1>1, PoolAssumption, FS_Subset, FS_CardinalityType DEF IdleCountExact, IdleWorkers

\* idle_thread_count_ cannot underflow: a worker that leaves a wait was counted.
LEMMA IdleRemove ==
    ASSUME TypeOK, IdleCountExact, NEW w \in Workers, wpc[w] \in Idle
    PROVE  /\ idle_thread_count_ - 1 \in Nat
           /\ idle_thread_count_ - 1 = Cardinality(IdleWorkers \ {w})
<1>1. w \in IdleWorkers
  BY DEF IdleWorkers
<1>2. /\ IsFiniteSet(IdleWorkers \ {w})
      /\ Cardinality(IdleWorkers \ {w}) = Cardinality(IdleWorkers) - 1
  BY <1>1, IdleWorkersFinite, FS_RemoveElement, Zenon
<1> QED
  BY <1>2, IdleWorkersFinite, FS_CardinalityType

\* A worker that begins a wait adds one.
LEMMA IdleAdd ==
    ASSUME IdleCountExact, NEW w \in Workers, wpc[w] \notin Idle
    PROVE  idle_thread_count_ + 1 = Cardinality(IdleWorkers \cup {w})
BY IdleWorkersFinite, FS_AddElement, Zenon DEF IdleWorkers

-----------------------------------------------------------------------------
(* The initial states *)

\* Nothing is queued, nobody has started, Main is about to construct.
LEMMA InitIInv == Init => IInv
<1> SUFFICES ASSUME Init PROVE IInv
  OBVIOUS
<1>1. TypeOK
  BY NoElement, Zenon DEF Init, TypeOK, WorkerStates, MainStates
<1>2. {w \in Workers : wpc[w] \in Idle} = {}
  BY DEF Init, Idle
<1>3. IdleCountExact
  BY <1>2, FS_EmptySet, Zenon DEF Init, IdleCountExact
<1>4. MutexInv /\ RunningHasJob
  BY PoolAssumption DEF Init, MutexInv, RunningHasJob
<1>5. PhaseInv /\ ThreadInv /\ JoinInv
  BY DEF Init, PhaseInv, ThreadInv, JoinInv, Constructed
<1>6. JobInv /\ StartedOnce
  BY DEF Init, JobInv, StartedOnce
<1> QED
  BY <1>1, <1>3, <1>4, <1>5, <1>6 DEF IInv

-----------------------------------------------------------------------------
(* The steps *)

\* Types, given that the counter is exact and a running worker has a job.
LEMMA NextType == TypeOK /\ IdleCountExact /\ RunningHasJob /\ [Next]_vars => TypeOK'
<1> SUFFICES ASSUME TypeOK, IdleCountExact, RunningHasJob, [Next]_vars PROVE TypeOK'
  OBVIOUS
<1>1. ASSUME NEW w \in Workers, SpawnBase(w) PROVE TypeOK'
  BY <1>1 DEF TypeOK, WorkerStates, SpawnBase
<1>2. CASE CtorReturns
  BY <1>2 DEF TypeOK, MainStates, poolvars, CtorReturns
<1>3. CASE CtorFails
  BY <1>3 DEF TypeOK, MainStates, CtorFails
<1>4. CASE UnwindNotify
  BY <1>4
  DEF TypeOK, WorkerStates, MainStates, Idle, poolvars, UnwindNotify, NotifyAll
<1>5. CASE UnwindJoin
  BY <1>5 DEF TypeOK, MainStates, poolvars, UnwindJoin
<1>6. ASSUME NEW c \in Callers, NEW j \in Jobs, EnqueueRejects(c, j) PROVE TypeOK'
  BY <1>6 DEF TypeOK, poolvars, EnqueueRejects
<1>7. ASSUME NEW c \in Callers, NEW j \in Jobs, Enqueue(c, j) PROVE TypeOK'
  BY <1>7, AddLast, Zenon DEF TypeOK, Enqueue
<1>8. ASSUME NEW c \in Callers, NEW w \in Workers, SpawnDynamic(c, w) PROVE TypeOK'
  BY <1>8 DEF TypeOK, WorkerStates, SpawnDynamic, Reaped
<1>9. ASSUME NEW c \in Callers, NEW j \in Jobs, SpawnDynamicFails(c, j) PROVE TypeOK'
  BY <1>9 DEF TypeOK, WorkerStates, SpawnDynamicFails, Reaped
<1>10. ASSUME NEW c \in Callers, NotifyOne(c) PROVE TypeOK'
  BY <1>10, Zenon DEF TypeOK, WorkerStates, Idle, poolvars, NotifyOne
<1>11. CASE ShutdownBegins
  BY <1>11 DEF TypeOK, MainStates, ShutdownBegins
<1>12. CASE ShutdownNotifies
  BY <1>12
  DEF TypeOK, WorkerStates, MainStates, Idle, poolvars, ShutdownNotifies,
     NotifyAll
<1>13. CASE JoinBase
  BY <1>13 DEF TypeOK, MainStates, poolvars, JoinBase
<1>14. CASE TakeDynamic
  BY <1>14 DEF TypeOK, MainStates, TakeDynamic
<1>15. CASE JoinDynamic
  BY <1>15 DEF TypeOK, MainStates, poolvars, JoinDynamic
<1>16. CASE ShutdownReturns
  BY <1>16 DEF TypeOK, WorkerStates, MainStates, ShutdownReturns, Reaped
<1>17. ASSUME NEW w \in Workers, ProceedAtOnce(w) PROVE TypeOK'
  <2>1. CASE TakeJob(w)
    BY <1>17, <2>1 DEF TypeOK, WorkerStates, ProceedAtOnce, TakeJob
  <2>2. CASE LeaveLoop(w)
    BY <1>17, <2>2 DEF TypeOK, WorkerStates, ProceedAtOnce, LeaveLoop
  <2> QED
    BY <1>17, <2>1, <2>2 DEF ProceedAtOnce
<1>18. ASSUME NEW w \in Workers, BeginWait(w) PROVE TypeOK'
  BY <1>18 DEF TypeOK, WorkerStates, Idle, BeginWait
<1>19. ASSUME NEW w \in Workers, SpuriousWakeup(w) PROVE TypeOK'
  BY <1>19 DEF TypeOK, WorkerStates, Idle, poolvars, SpuriousWakeup
<1>20. ASSUME NEW w \in Workers, IdleTimeout(w) PROVE TypeOK'
  BY <1>20 DEF TypeOK, WorkerStates, Idle, poolvars, IdleTimeout
<1>21. ASSUME NEW w \in Workers, ProceedAfterWait(w) PROVE TypeOK'
  <2>0. idle_thread_count_' \in Nat
    BY <1>21, IdleRemove, Zenon DEF ProceedAfterWait, Idle
  <2>1. CASE TakeJob(w)
    BY <1>21, <2>0, <2>1 DEF TypeOK, WorkerStates, ProceedAfterWait, TakeJob
  <2>2. CASE LeaveLoop(w)
    BY <1>21, <2>0, <2>2 DEF TypeOK, WorkerStates, ProceedAfterWait, LeaveLoop
  <2> QED
    BY <1>21, <2>1, <2>2 DEF ProceedAfterWait
<1>22. ASSUME NEW w \in Workers, WaitAgain(w) PROVE TypeOK'
  BY <1>22 DEF TypeOK, WorkerStates, Idle, poolvars, WaitAgain
<1>23. ASSUME NEW w \in Workers, Retire(w) PROVE TypeOK'
  <2>1. idle_thread_count_' \in Nat
    BY <1>23, IdleRemove, Zenon DEF Retire, Idle
  <2> QED
    BY <1>23, <2>1 DEF TypeOK, WorkerStates, Retire
<1>24. ASSUME NEW w \in Workers, FinishJob(w) PROVE TypeOK'
  BY <1>24 DEF TypeOK, WorkerStates, poolvars, RunningHasJob, FinishJob
<1>25. ASSUME NEW w \in Workers, Exit(w) PROVE TypeOK'
  BY <1>25 DEF TypeOK, WorkerStates, poolvars, Exit
<1>26. CASE UNCHANGED vars
  BY <1>26 DEF TypeOK, poolvars, vars
<1> QED
  BY <1>1, <1>2, <1>3, <1>4, <1>5, <1>6, <1>7, <1>8, <1>9, <1>10, <1>11, <1>12,
     <1>13, <1>14, <1>15, <1>16, <1>17, <1>18, <1>19, <1>20, <1>21, <1>22,
     <1>23, <1>24, <1>25, <1>26
  DEF Next, MainStep, CallStep, WorkStep, Finished

\* The counter stays exact.
LEMMA NextIdleCount == TypeOK /\ ThreadInv /\ IdleCountExact /\ [Next]_vars => IdleCountExact'
<1> SUFFICES ASSUME TypeOK, ThreadInv, IdleCountExact, [Next]_vars PROVE IdleCountExact'
  OBVIOUS
<1>1. ASSUME NEW w \in Workers, SpawnBase(w) PROVE IdleCountExact'
  <2>1. \A x \in Workers : wpc'[x] \in Idle <=> wpc[x] \in Idle
    BY <1>1 DEF Idle, SpawnBase
  <2> QED
    BY <1>1, <2>1 DEF IdleCountExact, SpawnBase
<1>2. CASE CtorReturns
  <2>1. \A x \in Workers : wpc'[x] \in Idle <=> wpc[x] \in Idle
    BY <1>2 DEF CtorReturns
  <2> QED
    BY <1>2, <2>1 DEF IdleCountExact, poolvars, CtorReturns
<1>3. CASE CtorFails
  <2>1. \A x \in Workers : wpc'[x] \in Idle <=> wpc[x] \in Idle
    BY <1>3 DEF CtorFails
  <2> QED
    BY <1>3, <2>1 DEF IdleCountExact, CtorFails
<1>4. CASE UnwindNotify
  <2>1. \A x \in Workers : wpc'[x] \in Idle <=> wpc[x] \in Idle
    BY <1>4 DEF Idle, UnwindNotify, NotifyAll
  <2> QED
    BY <1>4, <2>1 DEF IdleCountExact, poolvars, UnwindNotify
<1>5. CASE UnwindJoin
  <2>1. \A x \in Workers : wpc'[x] \in Idle <=> wpc[x] \in Idle
    BY <1>5 DEF UnwindJoin
  <2> QED
    BY <1>5, <2>1 DEF IdleCountExact, poolvars, UnwindJoin
<1>6. ASSUME NEW c \in Callers, NEW j \in Jobs, EnqueueRejects(c, j) PROVE IdleCountExact'
  <2>1. \A x \in Workers : wpc'[x] \in Idle <=> wpc[x] \in Idle
    BY <1>6 DEF EnqueueRejects
  <2> QED
    BY <1>6, <2>1 DEF IdleCountExact, poolvars, EnqueueRejects
<1>7. ASSUME NEW c \in Callers, NEW j \in Jobs, Enqueue(c, j) PROVE IdleCountExact'
  <2>1. \A x \in Workers : wpc'[x] \in Idle <=> wpc[x] \in Idle
    BY <1>7 DEF Enqueue
  <2> QED
    BY <1>7, <2>1 DEF IdleCountExact, Enqueue
<1>8. ASSUME NEW c \in Callers, NEW w \in Workers, SpawnDynamic(c, w) PROVE IdleCountExact'
  <2>1. \A x \in Workers : wpc'[x] \in Idle <=> wpc[x] \in Idle
    BY <1>8 DEF Idle, SpawnDynamic, Reaped, FinishedExited
  <2> QED
    BY <1>8, <2>1, Zenon DEF IdleCountExact, SpawnDynamic
<1>9. ASSUME NEW c \in Callers, NEW j \in Jobs, SpawnDynamicFails(c, j) PROVE IdleCountExact'
  <2>1. \A x \in Workers : wpc'[x] \in Idle <=> wpc[x] \in Idle
    BY <1>9 DEF Idle, SpawnDynamicFails, Reaped, FinishedExited
  <2> QED
    BY <1>9, <2>1, Zenon DEF IdleCountExact, SpawnDynamicFails
<1>10. ASSUME NEW c \in Callers, NotifyOne(c) PROVE IdleCountExact'
  <2>1. \A x \in Workers : wpc'[x] \in Idle <=> wpc[x] \in Idle
    BY <1>10 DEF TypeOK, Idle, NotifyOne
  <2> QED
    BY <1>10, <2>1 DEF IdleCountExact, poolvars, NotifyOne
<1>11. CASE ShutdownBegins
  <2>1. \A x \in Workers : wpc'[x] \in Idle <=> wpc[x] \in Idle
    BY <1>11 DEF ShutdownBegins
  <2> QED
    BY <1>11, <2>1 DEF IdleCountExact, ShutdownBegins
<1>12. CASE ShutdownNotifies
  <2>1. \A x \in Workers : wpc'[x] \in Idle <=> wpc[x] \in Idle
    BY <1>12 DEF Idle, ShutdownNotifies, NotifyAll
  <2> QED
    BY <1>12, <2>1, Zenon DEF IdleCountExact, poolvars, ShutdownNotifies
<1>13. CASE JoinBase
  <2>1. \A x \in Workers : wpc'[x] \in Idle <=> wpc[x] \in Idle
    BY <1>13 DEF JoinBase
  <2> QED
    BY <1>13, <2>1 DEF IdleCountExact, poolvars, JoinBase
<1>14. CASE TakeDynamic
  <2>1. \A x \in Workers : wpc'[x] \in Idle <=> wpc[x] \in Idle
    BY <1>14 DEF TakeDynamic
  <2> QED
    BY <1>14, <2>1 DEF IdleCountExact, TakeDynamic
<1>15. CASE JoinDynamic
  <2>1. \A x \in Workers : wpc'[x] \in Idle <=> wpc[x] \in Idle
    BY <1>15 DEF JoinDynamic
  <2> QED
    BY <1>15, <2>1 DEF IdleCountExact, poolvars, JoinDynamic
<1>16. CASE ShutdownReturns
  <2>1. \A x \in Workers : wpc'[x] \in Idle <=> wpc[x] \in Idle
    BY <1>16 DEF Idle, ShutdownReturns, Reaped, FinishedExited
  <2> QED
    BY <1>16, <2>1 DEF IdleCountExact, ShutdownReturns
<1>17. ASSUME NEW w \in Workers, ProceedAtOnce(w) PROVE IdleCountExact'
  <2>1. \A x \in Workers : wpc'[x] \in Idle <=> wpc[x] \in Idle
    BY <1>17 DEF TypeOK, Idle, ProceedAtOnce, TakeJob, LeaveLoop
  <2> QED
    BY <1>17, <2>1 DEF IdleCountExact, ProceedAtOnce
<1>18. ASSUME NEW w \in Workers, BeginWait(w) PROVE IdleCountExact'
  <2>1. /\ {x \in Workers : wpc'[x] \in Idle} = IdleWorkers \cup {w}
        /\ wpc[w] \notin Idle
    BY <1>18 DEF TypeOK, Idle, IdleWorkers, BeginWait
  <2> QED
    BY <1>18, <2>1, IdleAdd DEF IdleCountExact, BeginWait
<1>19. ASSUME NEW w \in Workers, SpuriousWakeup(w) PROVE IdleCountExact'
  <2>1. \A x \in Workers : wpc'[x] \in Idle <=> wpc[x] \in Idle
    BY <1>19 DEF Idle, SpuriousWakeup
  <2> QED
    BY <1>19, <2>1 DEF IdleCountExact, poolvars, SpuriousWakeup
<1>20. ASSUME NEW w \in Workers, IdleTimeout(w) PROVE IdleCountExact'
  <2>1. \A x \in Workers : wpc'[x] \in Idle <=> wpc[x] \in Idle
    BY <1>20 DEF Idle, IdleTimeout
  <2> QED
    BY <1>20, <2>1 DEF IdleCountExact, poolvars, IdleTimeout
<1>21. ASSUME NEW w \in Workers, ProceedAfterWait(w) PROVE IdleCountExact'
  <2>1. /\ {x \in Workers : wpc'[x] \in Idle} = IdleWorkers \ {w}
        /\ wpc[w] \in Idle
    BY <1>21 DEF TypeOK, Idle, IdleWorkers, ProceedAfterWait, TakeJob, LeaveLoop
  <2> QED
    BY <1>21, <2>1, IdleRemove DEF IdleCountExact, ProceedAfterWait
<1>22. ASSUME NEW w \in Workers, WaitAgain(w) PROVE IdleCountExact'
  <2>1. \A x \in Workers : wpc'[x] \in Idle <=> wpc[x] \in Idle
    BY <1>22 DEF Idle, WaitAgain
  <2> QED
    BY <1>22, <2>1 DEF IdleCountExact, poolvars, WaitAgain
<1>23. ASSUME NEW w \in Workers, Retire(w) PROVE IdleCountExact'
  <2>1. /\ {x \in Workers : wpc'[x] \in Idle} = IdleWorkers \ {w}
        /\ wpc[w] \in Idle
    BY <1>23 DEF TypeOK, Idle, IdleWorkers, Retire
  <2> QED
    BY <1>23, <2>1, IdleRemove DEF IdleCountExact, Retire
<1>24. ASSUME NEW w \in Workers, FinishJob(w) PROVE IdleCountExact'
  <2>1. \A x \in Workers : wpc'[x] \in Idle <=> wpc[x] \in Idle
    BY <1>24 DEF Idle, FinishJob
  <2> QED
    BY <1>24, <2>1 DEF IdleCountExact, poolvars, FinishJob
<1>25. ASSUME NEW w \in Workers, Exit(w) PROVE IdleCountExact'
  <2>1. \A x \in Workers : wpc'[x] \in Idle <=> wpc[x] \in Idle
    BY <1>25 DEF Idle, Exit
  <2> QED
    BY <1>25, <2>1 DEF IdleCountExact, poolvars, Exit
<1>26. CASE UNCHANGED vars
  BY <1>26 DEF IdleCountExact, poolvars, vars
<1> QED
  BY <1>1, <1>2, <1>3, <1>4, <1>5, <1>6, <1>7, <1>8, <1>9, <1>10, <1>11, <1>12,
     <1>13, <1>14, <1>15, <1>16, <1>17, <1>18, <1>19, <1>20, <1>21, <1>22,
     <1>23, <1>24, <1>25, <1>26
  DEF Next, MainStep, CallStep, WorkStep, Finished

\* A worker holds a job exactly while it runs it.
LEMMA NextRunning == TypeOK /\ ThreadInv /\ RunningHasJob /\ [Next]_vars => RunningHasJob'
<1> SUFFICES ASSUME TypeOK, ThreadInv, RunningHasJob, [Next]_vars PROVE RunningHasJob'
  OBVIOUS
<1>1. ASSUME NEW w \in Workers, SpawnBase(w) PROVE RunningHasJob'
  BY <1>1 DEF RunningHasJob, SpawnBase
<1>2. CASE CtorReturns
  BY <1>2 DEF RunningHasJob, CtorReturns
<1>3. CASE CtorFails
  BY <1>3 DEF RunningHasJob, CtorFails
<1>4. CASE UnwindNotify
  BY <1>4 DEF RunningHasJob, UnwindNotify, NotifyAll
<1>5. CASE UnwindJoin
  BY <1>5 DEF RunningHasJob, UnwindJoin
<1>6. ASSUME NEW c \in Callers, NEW j \in Jobs, EnqueueRejects(c, j) PROVE RunningHasJob'
  BY <1>6 DEF RunningHasJob, EnqueueRejects
<1>7. ASSUME NEW c \in Callers, NEW j \in Jobs, Enqueue(c, j) PROVE RunningHasJob'
  BY <1>7 DEF RunningHasJob, Enqueue
<1>8. ASSUME NEW c \in Callers, NEW w \in Workers, SpawnDynamic(c, w) PROVE RunningHasJob'
  BY <1>8 DEF RunningHasJob, SpawnDynamic, FinishedExited, Reaped
<1>9. ASSUME NEW c \in Callers, NEW j \in Jobs, SpawnDynamicFails(c, j) PROVE RunningHasJob'
  BY <1>9 DEF RunningHasJob, SpawnDynamicFails, FinishedExited, Reaped
<1>10. ASSUME NEW c \in Callers, NotifyOne(c) PROVE RunningHasJob'
  BY <1>10 DEF TypeOK, RunningHasJob, NotifyOne
<1>11. CASE ShutdownBegins
  BY <1>11 DEF RunningHasJob, ShutdownBegins
<1>12. CASE ShutdownNotifies
  BY <1>12 DEF RunningHasJob, ShutdownNotifies, NotifyAll
<1>13. CASE JoinBase
  BY <1>13 DEF RunningHasJob, JoinBase
<1>14. CASE TakeDynamic
  BY <1>14 DEF RunningHasJob, TakeDynamic
<1>15. CASE JoinDynamic
  BY <1>15 DEF RunningHasJob, JoinDynamic
<1>16. CASE ShutdownReturns
  BY <1>16 DEF RunningHasJob, ShutdownReturns, FinishedExited, Reaped
<1>17. ASSUME NEW w \in Workers, ProceedAtOnce(w) PROVE RunningHasJob'
  BY <1>17, TakeFirst, PoolAssumption
  DEF TypeOK, RunningHasJob, WorkerStates, poolvars, Idle, TakeJob, LeaveLoop,
     ProceedAtOnce
<1>18. ASSUME NEW w \in Workers, BeginWait(w) PROVE RunningHasJob'
  BY <1>18 DEF RunningHasJob, BeginWait
<1>19. ASSUME NEW w \in Workers, SpuriousWakeup(w) PROVE RunningHasJob'
  BY <1>19 DEF RunningHasJob, SpuriousWakeup
<1>20. ASSUME NEW w \in Workers, IdleTimeout(w) PROVE RunningHasJob'
  BY <1>20 DEF RunningHasJob, IdleTimeout
<1>21. ASSUME NEW w \in Workers, ProceedAfterWait(w) PROVE RunningHasJob'
  BY <1>21, PoolAssumption
  DEF TypeOK, RunningHasJob, WorkerStates, TakeJob, LeaveLoop, ProceedAfterWait
<1>22. ASSUME NEW w \in Workers, WaitAgain(w) PROVE RunningHasJob'
  BY <1>22 DEF RunningHasJob, WaitAgain
<1>23. ASSUME NEW w \in Workers, Retire(w) PROVE RunningHasJob'
  BY <1>23 DEF RunningHasJob, Retire
<1>24. ASSUME NEW w \in Workers, FinishJob(w) PROVE RunningHasJob'
  BY <1>24, PoolAssumption DEF TypeOK, RunningHasJob, FinishJob
<1>25. ASSUME NEW w \in Workers, Exit(w) PROVE RunningHasJob'
  BY <1>25 DEF RunningHasJob, Exit
<1>26. CASE UNCHANGED vars
  BY <1>26 DEF RunningHasJob, vars
<1> QED
  BY <1>1, <1>2, <1>3, <1>4, <1>5, <1>6, <1>7, <1>8, <1>9, <1>10, <1>11, <1>12,
     <1>13, <1>14, <1>15, <1>16, <1>17, <1>18, <1>19, <1>20, <1>21, <1>22,
     <1>23, <1>24, <1>25, <1>26
  DEF Next, MainStep, CallStep, WorkStep, Finished

\* The holder of the mutex.
LEMMA NextMutex == TypeOK /\ PhaseInv /\ MutexInv /\ [Next]_vars => MutexInv'
<1> SUFFICES ASSUME TypeOK, PhaseInv, MutexInv, [Next]_vars PROVE MutexInv'
  OBVIOUS
<1>1. ASSUME NEW w \in Workers, SpawnBase(w) PROVE MutexInv'
  BY <1>1 DEF MutexInv, SpawnBase
<1>2. CASE CtorReturns
  BY <1>2 DEF MutexInv, poolvars, CtorReturns
<1>3. CASE CtorFails
  BY <1>3, PoolAssumption DEF MutexInv, CtorFails, MutexFree
<1>4. CASE UnwindNotify
  BY <1>4 DEF MutexInv, poolvars, UnwindNotify
<1>5. CASE UnwindJoin
  BY <1>5 DEF MutexInv, poolvars, UnwindJoin
<1>6. ASSUME NEW c \in Callers, NEW j \in Jobs, EnqueueRejects(c, j) PROVE MutexInv'
  BY <1>6, PoolAssumption DEF MutexInv, EnqueueRejects, MutexFree
<1>7. ASSUME NEW c \in Callers, NEW j \in Jobs, Enqueue(c, j) PROVE MutexInv'
  BY <1>7, PoolAssumption DEF TypeOK, MutexInv, MainStates, Enqueue, MutexFree
<1>8. ASSUME NEW c \in Callers, NEW w \in Workers, SpawnDynamic(c, w) PROVE MutexInv'
  BY <1>8, PoolAssumption DEF TypeOK, MutexInv, SpawnDynamic
<1>9. ASSUME NEW c \in Callers, NEW j \in Jobs, SpawnDynamicFails(c, j) PROVE MutexInv'
  BY <1>9, PoolAssumption DEF TypeOK, MutexInv, SpawnDynamicFails
<1>10. ASSUME NEW c \in Callers, NotifyOne(c) PROVE MutexInv'
  BY <1>10 DEF MutexInv, poolvars, NotifyOne
<1>11. CASE ShutdownBegins
  BY <1>11, PoolAssumption DEF MutexInv, ShutdownBegins, MutexFree
<1>12. CASE ShutdownNotifies
  BY <1>12 DEF MutexInv, poolvars, ShutdownNotifies
<1>13. CASE JoinBase
  BY <1>13 DEF MutexInv, poolvars, JoinBase
<1>14. CASE TakeDynamic
  BY <1>14 DEF MutexInv, TakeDynamic
<1>15. CASE JoinDynamic
  BY <1>15, PoolAssumption DEF MutexInv, JoinDynamic, MutexFree
<1>16. CASE ShutdownReturns
  BY <1>16, PoolAssumption DEF MutexInv, ShutdownReturns
<1>17. ASSUME NEW w \in Workers, ProceedAtOnce(w) PROVE MutexInv'
  BY <1>17, PoolAssumption DEF MutexInv, MutexFree, ProceedAtOnce
<1>18. ASSUME NEW w \in Workers, BeginWait(w) PROVE MutexInv'
  BY <1>18 DEF MutexInv, BeginWait
<1>19. ASSUME NEW w \in Workers, SpuriousWakeup(w) PROVE MutexInv'
  BY <1>19 DEF MutexInv, poolvars, SpuriousWakeup
<1>20. ASSUME NEW w \in Workers, IdleTimeout(w) PROVE MutexInv'
  BY <1>20 DEF MutexInv, poolvars, IdleTimeout
<1>21. ASSUME NEW w \in Workers, ProceedAfterWait(w) PROVE MutexInv'
  BY <1>21, PoolAssumption DEF MutexInv, MutexFree, ProceedAfterWait
<1>22. ASSUME NEW w \in Workers, WaitAgain(w) PROVE MutexInv'
  BY <1>22, PoolAssumption DEF MutexInv, WaitAgain, MutexFree
<1>23. ASSUME NEW w \in Workers, Retire(w) PROVE MutexInv'
  BY <1>23 DEF MutexInv, Retire
<1>24. ASSUME NEW w \in Workers, FinishJob(w) PROVE MutexInv'
  BY <1>24 DEF MutexInv, poolvars, FinishJob
<1>25. ASSUME NEW w \in Workers, Exit(w) PROVE MutexInv'
  BY <1>25 DEF MutexInv, poolvars, Exit
<1>26. CASE UNCHANGED vars
  BY <1>26 DEF MutexInv, poolvars, vars
<1> QED
  BY <1>1, <1>2, <1>3, <1>4, <1>5, <1>6, <1>7, <1>8, <1>9, <1>10, <1>11, <1>12,
     <1>13, <1>14, <1>15, <1>16, <1>17, <1>18, <1>19, <1>20, <1>21, <1>22,
     <1>23, <1>24, <1>25, <1>26
  DEF Next, MainStep, CallStep, WorkStep, Finished

\* shutdown_ and the phases of construction and shutdown.
LEMMA NextPhase == TypeOK /\ MutexInv /\ PhaseInv /\ [Next]_vars => PhaseInv'
<1> SUFFICES ASSUME TypeOK, MutexInv, PhaseInv, [Next]_vars PROVE PhaseInv'
  OBVIOUS
<1>1. ASSUME NEW w \in Workers, SpawnBase(w) PROVE PhaseInv'
  BY <1>1 DEF PhaseInv, Constructed, SpawnBase
<1>2. CASE CtorReturns
  BY <1>2 DEF PhaseInv, Constructed, poolvars, CtorReturns
<1>3. CASE CtorFails
  BY <1>3 DEF PhaseInv, Constructed, CtorFails
<1>4. CASE UnwindNotify
  BY <1>4 DEF PhaseInv, Constructed, poolvars, UnwindNotify
<1>5. CASE UnwindJoin
  BY <1>5 DEF PhaseInv, Constructed, poolvars, UnwindJoin
<1>6. ASSUME NEW c \in Callers, NEW j \in Jobs, EnqueueRejects(c, j) PROVE PhaseInv'
  BY <1>6 DEF PhaseInv, Constructed, poolvars, EnqueueRejects
<1>7. ASSUME NEW c \in Callers, NEW j \in Jobs, Enqueue(c, j) PROVE PhaseInv'
  BY <1>7 DEF PhaseInv, Constructed, Enqueue
<1>8. ASSUME NEW c \in Callers, NEW w \in Workers, SpawnDynamic(c, w) PROVE PhaseInv'
  BY <1>8 DEF PhaseInv, Constructed, MutexInv, SpawnDynamic
<1>9. ASSUME NEW c \in Callers, NEW j \in Jobs, SpawnDynamicFails(c, j) PROVE PhaseInv'
  BY <1>9 DEF PhaseInv, Constructed, SpawnDynamicFails
<1>10. ASSUME NEW c \in Callers, NotifyOne(c) PROVE PhaseInv'
  BY <1>10 DEF PhaseInv, Constructed, poolvars, NotifyOne
<1>11. CASE ShutdownBegins
  BY <1>11 DEF PhaseInv, Constructed, ShutdownBegins
<1>12. CASE ShutdownNotifies
  BY <1>12 DEF PhaseInv, Constructed, poolvars, ShutdownNotifies
<1>13. CASE JoinBase
  BY <1>13 DEF PhaseInv, Constructed, poolvars, JoinBase
<1>14. CASE TakeDynamic
  BY <1>14 DEF PhaseInv, Constructed, TakeDynamic
<1>15. CASE JoinDynamic
  BY <1>15 DEF PhaseInv, Constructed, poolvars, JoinDynamic
<1>16. CASE ShutdownReturns
  BY <1>16 DEF PhaseInv, Constructed, ShutdownReturns
<1>17. ASSUME NEW w \in Workers, ProceedAtOnce(w) PROVE PhaseInv'
  BY <1>17 DEF PhaseInv, Constructed, ProceedAtOnce, TakeJob, LeaveLoop
<1>18. ASSUME NEW w \in Workers, BeginWait(w) PROVE PhaseInv'
  BY <1>18 DEF PhaseInv, Constructed, BeginWait
<1>19. ASSUME NEW w \in Workers, SpuriousWakeup(w) PROVE PhaseInv'
  BY <1>19 DEF PhaseInv, Constructed, poolvars, SpuriousWakeup
<1>20. ASSUME NEW w \in Workers, IdleTimeout(w) PROVE PhaseInv'
  BY <1>20 DEF PhaseInv, Constructed, poolvars, IdleTimeout
<1>21. ASSUME NEW w \in Workers, ProceedAfterWait(w) PROVE PhaseInv'
  BY <1>21 DEF PhaseInv, Constructed, ProceedAfterWait, TakeJob, LeaveLoop
<1>22. ASSUME NEW w \in Workers, WaitAgain(w) PROVE PhaseInv'
  BY <1>22 DEF PhaseInv, Constructed, poolvars, WaitAgain
<1>23. ASSUME NEW w \in Workers, Retire(w) PROVE PhaseInv'
  BY <1>23 DEF PhaseInv, Constructed, Retire
<1>24. ASSUME NEW w \in Workers, FinishJob(w) PROVE PhaseInv'
  BY <1>24 DEF PhaseInv, Constructed, poolvars, FinishJob
<1>25. ASSUME NEW w \in Workers, Exit(w) PROVE PhaseInv'
  BY <1>25 DEF PhaseInv, Constructed, poolvars, Exit
<1>26. CASE UNCHANGED vars
  BY <1>26 DEF PhaseInv, Constructed, poolvars, vars
<1> QED
  BY <1>1, <1>2, <1>3, <1>4, <1>5, <1>6, <1>7, <1>8, <1>9, <1>10, <1>11, <1>12,
     <1>13, <1>14, <1>15, <1>16, <1>17, <1>18, <1>19, <1>20, <1>21, <1>22,
     <1>23, <1>24, <1>25, <1>26
  DEF Next, MainStep, CallStep, WorkStep, Finished

\* The lists of threads.
LEMMA NextThread == TypeOK /\ MutexInv /\ PhaseInv /\ ThreadInv /\ [Next]_vars => ThreadInv'
<1> SUFFICES ASSUME TypeOK, MutexInv, PhaseInv, ThreadInv, [Next]_vars PROVE ThreadInv'
  OBVIOUS
<1>1. ASSUME NEW w \in Workers, SpawnBase(w) PROVE ThreadInv'
  BY <1>1 DEF TypeOK, ThreadInv, PhaseInv, SpawnBase
<1>2. CASE CtorReturns
  BY <1>2 DEF ThreadInv, poolvars, CtorReturns
<1>3. CASE CtorFails
  BY <1>3 DEF ThreadInv, CtorFails
<1>4. CASE UnwindNotify
  BY <1>4 DEF ThreadInv, poolvars, UnwindNotify, NotifyAll
<1>5. CASE UnwindJoin
  BY <1>5 DEF ThreadInv, poolvars, UnwindJoin
<1>6. ASSUME NEW c \in Callers, NEW j \in Jobs, EnqueueRejects(c, j) PROVE ThreadInv'
  BY <1>6 DEF ThreadInv, poolvars, EnqueueRejects
<1>7. ASSUME NEW c \in Callers, NEW j \in Jobs, Enqueue(c, j) PROVE ThreadInv'
  BY <1>7 DEF ThreadInv, Enqueue
<1>8. ASSUME NEW c \in Callers, NEW w \in Workers, SpawnDynamic(c, w) PROVE ThreadInv'
  BY <1>8 DEF ThreadInv, SpawnDynamic, Reaped
<1>9. ASSUME NEW c \in Callers, NEW j \in Jobs, SpawnDynamicFails(c, j) PROVE ThreadInv'
  BY <1>9 DEF ThreadInv, SpawnDynamicFails, Reaped
<1>10. ASSUME NEW c \in Callers, NotifyOne(c) PROVE ThreadInv'
  BY <1>10 DEF TypeOK, ThreadInv, poolvars, NotifyOne
<1>11. CASE ShutdownBegins
  BY <1>11 DEF ThreadInv, ShutdownBegins
<1>12. CASE ShutdownNotifies
  BY <1>12 DEF ThreadInv, poolvars, ShutdownNotifies, NotifyAll
<1>13. CASE JoinBase
  BY <1>13 DEF ThreadInv, poolvars, JoinBase
<1>14. CASE TakeDynamic
  BY <1>14 DEF ThreadInv, PhaseInv, TakeDynamic
<1>15. CASE JoinDynamic
  BY <1>15 DEF ThreadInv, poolvars, JoinDynamic
<1>16. CASE ShutdownReturns
  BY <1>16 DEF ThreadInv, ShutdownReturns, Reaped
<1>17. ASSUME NEW w \in Workers, ProceedAtOnce(w) PROVE ThreadInv'
  BY <1>17 DEF TypeOK, ThreadInv, ProceedAtOnce, TakeJob, LeaveLoop
<1>18. ASSUME NEW w \in Workers, BeginWait(w) PROVE ThreadInv'
  BY <1>18 DEF ThreadInv, BeginWait
<1>19. ASSUME NEW w \in Workers, SpuriousWakeup(w) PROVE ThreadInv'
  BY <1>19 DEF ThreadInv, poolvars, SpuriousWakeup
<1>20. ASSUME NEW w \in Workers, IdleTimeout(w) PROVE ThreadInv'
  BY <1>20 DEF ThreadInv, poolvars, IdleTimeout
<1>21. ASSUME NEW w \in Workers, ProceedAfterWait(w) PROVE ThreadInv'
  BY <1>21 DEF TypeOK, ThreadInv, ProceedAfterWait, TakeJob, LeaveLoop
<1>22. ASSUME NEW w \in Workers, WaitAgain(w) PROVE ThreadInv'
  BY <1>22 DEF ThreadInv, poolvars, WaitAgain
<1>23. ASSUME NEW w \in Workers, Retire(w) PROVE ThreadInv'
  BY <1>23 DEF TypeOK, ThreadInv, PhaseInv, Retire
<1>24. ASSUME NEW w \in Workers, FinishJob(w) PROVE ThreadInv'
  BY <1>24 DEF ThreadInv, poolvars, FinishJob
<1>25. ASSUME NEW w \in Workers, Exit(w) PROVE ThreadInv'
  BY <1>25 DEF ThreadInv, poolvars, Exit
<1>26. CASE UNCHANGED vars
  BY <1>26 DEF ThreadInv, poolvars, vars
<1> QED
  BY <1>1, <1>2, <1>3, <1>4, <1>5, <1>6, <1>7, <1>8, <1>9, <1>10, <1>11, <1>12,
     <1>13, <1>14, <1>15, <1>16, <1>17, <1>18, <1>19, <1>20, <1>21, <1>22,
     <1>23, <1>24, <1>25, <1>26
  DEF Next, MainStep, CallStep, WorkStep, Finished

\* What is joined stays joined.
LEMMA NextJoin == TypeOK /\ MutexInv /\ PhaseInv /\ ThreadInv /\ JoinInv /\ [Next]_vars => JoinInv'
<1> SUFFICES ASSUME TypeOK, MutexInv, PhaseInv, ThreadInv, JoinInv, [Next]_vars PROVE JoinInv'
  OBVIOUS
<1>1. ASSUME NEW w \in Workers, SpawnBase(w) PROVE JoinInv'
  BY <1>1 DEF JoinInv, SpawnBase
<1>2. CASE CtorReturns
  BY <1>2 DEF JoinInv, CtorReturns
<1>3. CASE CtorFails
  BY <1>3 DEF JoinInv, CtorFails
<1>4. CASE UnwindNotify
  BY <1>4 DEF JoinInv, poolvars, UnwindNotify
<1>5. CASE UnwindJoin
  BY <1>5 DEF JoinInv, poolvars, UnwindJoin
<1>6. ASSUME NEW c \in Callers, NEW j \in Jobs, EnqueueRejects(c, j) PROVE JoinInv'
  BY <1>6 DEF JoinInv, poolvars, EnqueueRejects
<1>7. ASSUME NEW c \in Callers, NEW j \in Jobs, Enqueue(c, j) PROVE JoinInv'
  BY <1>7 DEF JoinInv, Enqueue
<1>8. ASSUME NEW c \in Callers, NEW w \in Workers, SpawnDynamic(c, w) PROVE JoinInv'
  BY <1>8 DEF JoinInv, PhaseInv, MutexInv, SpawnDynamic
<1>9. ASSUME NEW c \in Callers, NEW j \in Jobs, SpawnDynamicFails(c, j) PROVE JoinInv'
  BY <1>9 DEF JoinInv, PhaseInv, MutexInv, SpawnDynamicFails
<1>10. ASSUME NEW c \in Callers, NotifyOne(c) PROVE JoinInv'
  BY <1>10 DEF TypeOK, JoinInv, poolvars, NotifyOne
<1>11. CASE ShutdownBegins
  BY <1>11 DEF JoinInv, ShutdownBegins
<1>12. CASE ShutdownNotifies
  BY <1>12 DEF JoinInv, ShutdownNotifies
<1>13. CASE JoinBase
  BY <1>13 DEF JoinInv, poolvars, JoinBase
<1>14. CASE TakeDynamic
  BY <1>14 DEF JoinInv, TakeDynamic
<1>15. CASE JoinDynamic
  BY <1>15 DEF JoinInv, poolvars, JoinDynamic
<1>16. CASE ShutdownReturns
  BY <1>16 DEF TypeOK, JoinInv, ThreadInv, ShutdownReturns, Reaped
<1>17. ASSUME NEW w \in Workers, ProceedAtOnce(w) PROVE JoinInv'
  BY <1>17 DEF TypeOK, JoinInv, ProceedAtOnce, TakeJob, LeaveLoop
<1>18. ASSUME NEW w \in Workers, BeginWait(w) PROVE JoinInv'
  BY <1>18 DEF JoinInv, BeginWait
<1>19. ASSUME NEW w \in Workers, SpuriousWakeup(w) PROVE JoinInv'
  BY <1>19 DEF JoinInv, poolvars, SpuriousWakeup
<1>20. ASSUME NEW w \in Workers, IdleTimeout(w) PROVE JoinInv'
  BY <1>20 DEF JoinInv, poolvars, IdleTimeout
<1>21. ASSUME NEW w \in Workers, ProceedAfterWait(w) PROVE JoinInv'
  BY <1>21 DEF TypeOK, JoinInv, ProceedAfterWait, TakeJob, LeaveLoop
<1>22. ASSUME NEW w \in Workers, WaitAgain(w) PROVE JoinInv'
  BY <1>22 DEF JoinInv, poolvars, WaitAgain
<1>23. ASSUME NEW w \in Workers, Retire(w) PROVE JoinInv'
  BY <1>23 DEF JoinInv, PhaseInv, Constructed, Retire
<1>24. ASSUME NEW w \in Workers, FinishJob(w) PROVE JoinInv'
  BY <1>24 DEF JoinInv, poolvars, FinishJob
<1>25. ASSUME NEW w \in Workers, Exit(w) PROVE JoinInv'
  BY <1>25 DEF JoinInv, poolvars, Exit
<1>26. CASE UNCHANGED vars
  BY <1>26 DEF JoinInv, poolvars, vars
<1> QED
  BY <1>1, <1>2, <1>3, <1>4, <1>5, <1>6, <1>7, <1>8, <1>9, <1>10, <1>11, <1>12,
     <1>13, <1>14, <1>15, <1>16, <1>17, <1>18, <1>19, <1>20, <1>21, <1>22,
     <1>23, <1>24, <1>25, <1>26
  DEF Next, MainStep, CallStep, WorkStep, Finished

\* No accepted job is lost, queued twice or queued after its start.
LEMMA NextJob == TypeOK /\ RunningHasJob /\ StartedOnce /\ JobInv /\ [Next]_vars => JobInv'
<1> SUFFICES ASSUME TypeOK, RunningHasJob, StartedOnce, JobInv, [Next]_vars PROVE JobInv'
  OBVIOUS
<1>1. ASSUME NEW w \in Workers, SpawnBase(w) PROVE JobInv'
  BY <1>1 DEF JobInv, SpawnBase
<1>2. CASE CtorReturns
  BY <1>2 DEF JobInv, poolvars, CtorReturns
<1>3. CASE CtorFails
  BY <1>3 DEF JobInv, CtorFails
<1>4. CASE UnwindNotify
  BY <1>4 DEF JobInv, poolvars, UnwindNotify
<1>5. CASE UnwindJoin
  BY <1>5 DEF JobInv, poolvars, UnwindJoin
<1>6. ASSUME NEW c \in Callers, NEW j \in Jobs, EnqueueRejects(c, j) PROVE JobInv'
  BY <1>6 DEF JobInv, poolvars, EnqueueRejects
<1>7. ASSUME NEW c \in Callers, NEW j \in Jobs, Enqueue(c, j) PROVE JobInv'
  <2>. DEFINE n == Len(jobs_)
  <2>1. /\ jobs_' = Append(jobs_, j)
        /\ outcome' = [outcome EXCEPT ![j] = "accepted"]
        /\ outcome[j] = "none"
        /\ UNCHANGED <<fn, runs, done>>
    BY <1>7 DEF Enqueue
  <2>2. /\ n \in Nat
        /\ DOMAIN jobs_ = 1 .. n
        /\ DOMAIN jobs_' = 1 .. n + 1
        /\ jobs_'[n + 1] = j
        /\ \A i \in 1 .. n : jobs_'[i] = jobs_[i] /\ jobs_[i] \in Jobs
    BY <2>1 DEF TypeOK
  <2>3. runs[j] = 0
    BY <1>7, <2>1 DEF StartedOnce
  <2>4. \A i \in 1 .. n : jobs_[i] # j
    BY <2>1, <2>2 DEF JobInv
  <2>5. ASSUME NEW i \in DOMAIN jobs_'
        PROVE  /\ outcome'[jobs_'[i]] \in {"accepted", "threw"}
               /\ runs'[jobs_'[i]] = 0
               /\ \A k \in DOMAIN jobs_' : jobs_'[i] = jobs_'[k] => i = k
    <3>1. CASE i = n + 1
      BY <2>1, <2>2, <2>3, <2>4, <3>1 DEF TypeOK
    <3>2. CASE i \in 1 .. n
      BY <2>1, <2>2, <2>4, <3>2 DEF JobInv
    <3> QED
      BY <2>2, <2>5, <3>1, <3>2
  <2>6. ASSUME NEW x \in Jobs, outcome'[x] = "accepted"
        PROVE  \/ x \in done'
               \/ \E w \in Workers : fn'[w] = x
               \/ \E i \in DOMAIN jobs_' : jobs_'[i] = x
    <3>1. CASE x = j
      BY <2>2, <3>1
    <3>2. CASE x # j
      BY <2>1, <2>2, <2>6, <3>2 DEF JobInv
    <3> QED
      BY <3>1, <3>2
  <2> QED
    BY <2>5, <2>6 DEF JobInv
<1>8. ASSUME NEW c \in Callers, NEW w \in Workers, SpawnDynamic(c, w) PROVE JobInv'
  BY <1>8 DEF JobInv, SpawnDynamic
<1>9. ASSUME NEW c \in Callers, NEW j \in Jobs, SpawnDynamicFails(c, j) PROVE JobInv'
  <2>1. ASSUME NEW x \in Jobs, outcome'[x] = "accepted"
        PROVE  outcome[x] = "accepted"
    BY <1>9, <2>1 DEF SpawnDynamicFails
  <2>2. \A i \in DOMAIN jobs_ : jobs_[i] \in Jobs
    BY DEF TypeOK
  <2> QED
    BY <1>9, <2>1, <2>2 DEF SpawnDynamicFails, JobInv
<1>10. ASSUME NEW c \in Callers, NotifyOne(c) PROVE JobInv'
  BY <1>10 DEF JobInv, poolvars, NotifyOne
<1>11. CASE ShutdownBegins
  BY <1>11 DEF JobInv, ShutdownBegins
<1>12. CASE ShutdownNotifies
  BY <1>12 DEF JobInv, poolvars, ShutdownNotifies
<1>13. CASE JoinBase
  BY <1>13 DEF JobInv, poolvars, JoinBase
<1>14. CASE TakeDynamic
  BY <1>14 DEF JobInv, TakeDynamic
<1>15. CASE JoinDynamic
  BY <1>15 DEF JobInv, poolvars, JoinDynamic
<1>16. CASE ShutdownReturns
  BY <1>16 DEF JobInv, ShutdownReturns
<1>17. ASSUME NEW w \in Workers, ProceedAtOnce(w) PROVE JobInv'
  <2>1. CASE TakeJob(w)
    <3>1. /\ fn' = [fn EXCEPT ![w] = jobs_[1]]
          /\ runs' = [runs EXCEPT ![jobs_[1]] = @ + 1]
          /\ fn[w] \notin Jobs
          /\ UNCHANGED <<outcome, done>>
      BY <1>17, <2>1 DEF ProceedAtOnce, TakeJob, RunningHasJob
    <3>2. /\ Len(jobs_) \in Nat \ {0}
          /\ DOMAIN jobs_ = 1 .. Len(jobs_)
          /\ DOMAIN jobs_' = 1 .. Len(jobs_) - 1
          /\ \A i \in DOMAIN jobs_' : jobs_'[i] = jobs_[i + 1]
          /\ jobs_[1] \in Jobs
      BY <2>1 DEF TakeJob, TypeOK
    <3>3. ASSUME NEW i \in DOMAIN jobs_'
          PROVE  /\ outcome'[jobs_'[i]] \in {"accepted", "threw"}
                 /\ runs'[jobs_'[i]] = 0
                 /\ \A k \in DOMAIN jobs_' : jobs_'[i] = jobs_'[k] => i = k
      <4>1. i + 1 \in DOMAIN jobs_ /\ 1 \in DOMAIN jobs_ /\ jobs_[i + 1] # jobs_[1]
        BY <3>2 DEF JobInv
      <4>2. \A k \in DOMAIN jobs_' : k + 1 \in DOMAIN jobs_ /\ (i + 1 = k + 1 => i = k)
        BY <3>2
      <4> QED
        BY <3>1, <3>2, <4>1, <4>2 DEF JobInv
    <3>4. ASSUME NEW x \in Jobs, outcome'[x] = "accepted"
          PROVE  \/ x \in done'
                 \/ \E v \in Workers : fn'[v] = x
                 \/ \E i \in DOMAIN jobs_' : jobs_'[i] = x
      <4>1. CASE x \in done
        BY <3>1, <4>1
      <4>2. CASE \E v \in Workers : fn[v] = x
        BY <3>1, <4>2
      <4>3. ASSUME NEW i \in DOMAIN jobs_, jobs_[i] = x
            PROVE  \/ \E v \in Workers : fn'[v] = x
                   \/ \E k \in DOMAIN jobs_' : jobs_'[k] = x
        <5>1. CASE i = 1
          BY <3>1, <4>3, <5>1 DEF TypeOK
        <5>2. CASE i # 1
          <6>1. i - 1 \in DOMAIN jobs_' /\ (i - 1) + 1 = i
            BY <3>2, <5>2
          <6> QED
            BY <3>2, <4>3, <6>1
        <5> QED
          BY <5>1, <5>2
      <4> QED
        BY <3>1, <3>4, <4>1, <4>2, <4>3 DEF JobInv
    <3> QED
      BY <3>3, <3>4 DEF JobInv
  <2>2. CASE LeaveLoop(w)
    BY <1>17, <2>2 DEF JobInv, LeaveLoop, ProceedAtOnce
  <2> QED
    BY <1>17, <2>1, <2>2 DEF ProceedAtOnce
<1>18. ASSUME NEW w \in Workers, BeginWait(w) PROVE JobInv'
  BY <1>18 DEF JobInv, BeginWait
<1>19. ASSUME NEW w \in Workers, SpuriousWakeup(w) PROVE JobInv'
  BY <1>19 DEF JobInv, poolvars, SpuriousWakeup
<1>20. ASSUME NEW w \in Workers, IdleTimeout(w) PROVE JobInv'
  BY <1>20 DEF JobInv, poolvars, IdleTimeout
<1>21. ASSUME NEW w \in Workers, ProceedAfterWait(w) PROVE JobInv'
  <2>1. CASE TakeJob(w)
    <3>1. /\ fn' = [fn EXCEPT ![w] = jobs_[1]]
          /\ runs' = [runs EXCEPT ![jobs_[1]] = @ + 1]
          /\ fn[w] \notin Jobs
          /\ UNCHANGED <<outcome, done>>
      BY <1>21, <2>1 DEF ProceedAfterWait, TakeJob, RunningHasJob
    <3>2. /\ Len(jobs_) \in Nat \ {0}
          /\ DOMAIN jobs_ = 1 .. Len(jobs_)
          /\ DOMAIN jobs_' = 1 .. Len(jobs_) - 1
          /\ \A i \in DOMAIN jobs_' : jobs_'[i] = jobs_[i + 1]
          /\ jobs_[1] \in Jobs
      BY <2>1 DEF TakeJob, TypeOK
    <3>3. ASSUME NEW i \in DOMAIN jobs_'
          PROVE  /\ outcome'[jobs_'[i]] \in {"accepted", "threw"}
                 /\ runs'[jobs_'[i]] = 0
                 /\ \A k \in DOMAIN jobs_' : jobs_'[i] = jobs_'[k] => i = k
      <4>1. i + 1 \in DOMAIN jobs_ /\ 1 \in DOMAIN jobs_ /\ jobs_[i + 1] # jobs_[1]
        BY <3>2 DEF JobInv
      <4>2. \A k \in DOMAIN jobs_' : k + 1 \in DOMAIN jobs_ /\ (i + 1 = k + 1 => i = k)
        BY <3>2
      <4> QED
        BY <3>1, <3>2, <4>1, <4>2 DEF JobInv
    <3>4. ASSUME NEW x \in Jobs, outcome'[x] = "accepted"
          PROVE  \/ x \in done'
                 \/ \E v \in Workers : fn'[v] = x
                 \/ \E i \in DOMAIN jobs_' : jobs_'[i] = x
      <4>1. CASE x \in done
        BY <3>1, <4>1
      <4>2. CASE \E v \in Workers : fn[v] = x
        BY <3>1, <4>2
      <4>3. ASSUME NEW i \in DOMAIN jobs_, jobs_[i] = x
            PROVE  \/ \E v \in Workers : fn'[v] = x
                   \/ \E k \in DOMAIN jobs_' : jobs_'[k] = x
        <5>1. CASE i = 1
          BY <3>1, <4>3, <5>1 DEF TypeOK
        <5>2. CASE i # 1
          <6>1. i - 1 \in DOMAIN jobs_' /\ (i - 1) + 1 = i
            BY <3>2, <5>2
          <6> QED
            BY <3>2, <4>3, <6>1
        <5> QED
          BY <5>1, <5>2
      <4> QED
        BY <3>1, <3>4, <4>1, <4>2, <4>3 DEF JobInv
    <3> QED
      BY <3>3, <3>4 DEF JobInv
  <2>2. CASE LeaveLoop(w)
    BY <1>21, <2>2 DEF JobInv, LeaveLoop, ProceedAfterWait
  <2> QED
    BY <1>21, <2>1, <2>2 DEF ProceedAfterWait
<1>22. ASSUME NEW w \in Workers, WaitAgain(w) PROVE JobInv'
  BY <1>22 DEF JobInv, poolvars, WaitAgain
<1>23. ASSUME NEW w \in Workers, Retire(w) PROVE JobInv'
  BY <1>23 DEF JobInv, Retire
<1>24. ASSUME NEW w \in Workers, FinishJob(w) PROVE JobInv'
  <2>1. ASSUME NEW x \in Jobs, outcome[x] = "accepted"
        PROVE  \/ x \in done'
               \/ \E v \in Workers : fn'[v] = x
               \/ \E i \in DOMAIN jobs_ : jobs_[i] = x
    BY <1>24, <2>1 DEF FinishJob, JobInv
  <2> QED
    BY <1>24, <2>1 DEF FinishJob, JobInv, poolvars
<1>25. ASSUME NEW w \in Workers, Exit(w) PROVE JobInv'
  BY <1>25 DEF JobInv, poolvars, Exit
<1>26. CASE UNCHANGED vars
  BY <1>26 DEF JobInv, vars, poolvars
<1> QED
  BY <1>1, <1>2, <1>3, <1>4, <1>5, <1>6, <1>7, <1>8, <1>9, <1>10, <1>11, <1>12,
     <1>13, <1>14, <1>15, <1>16, <1>17, <1>18, <1>19, <1>20, <1>21, <1>22,
     <1>23, <1>24, <1>25, <1>26
  DEF Next, MainStep, CallStep, WorkStep, Finished

\* No job is started twice, or after its rejection.
LEMMA NextStarted == TypeOK /\ MutexInv /\ JobInv /\ StartedOnce /\ [Next]_vars => StartedOnce'
<1> SUFFICES ASSUME TypeOK, MutexInv, JobInv, StartedOnce, [Next]_vars PROVE StartedOnce'
  OBVIOUS
<1>1. ASSUME NEW w \in Workers, SpawnBase(w) PROVE StartedOnce'
  BY <1>1 DEF StartedOnce, SpawnBase
<1>2. CASE CtorReturns
  BY <1>2 DEF StartedOnce, CtorReturns
<1>3. CASE CtorFails
  BY <1>3 DEF StartedOnce, CtorFails
<1>4. CASE UnwindNotify
  BY <1>4 DEF StartedOnce, UnwindNotify
<1>5. CASE UnwindJoin
  BY <1>5 DEF StartedOnce, UnwindJoin
<1>6. ASSUME NEW c \in Callers, NEW j \in Jobs, EnqueueRejects(c, j) PROVE StartedOnce'
  BY <1>6 DEF StartedOnce, EnqueueRejects
<1>7. ASSUME NEW c \in Callers, NEW j \in Jobs, Enqueue(c, j) PROVE StartedOnce'
  BY <1>7 DEF StartedOnce, Enqueue
<1>8. ASSUME NEW c \in Callers, NEW w \in Workers, SpawnDynamic(c, w) PROVE StartedOnce'
  BY <1>8 DEF StartedOnce, SpawnDynamic
<1>9. ASSUME NEW c \in Callers, NEW j \in Jobs, SpawnDynamicFails(c, j) PROVE StartedOnce'
  <2>1. \A i \in DOMAIN jobs_ : outcome[jobs_[i]] \in {"accepted", "threw"}
    BY DEF JobInv
  <2>2. Len(jobs_) \in DOMAIN jobs_
    BY <1>9 DEF SpawnDynamicFails, MutexInv
  <2> QED
    BY <1>9, <2>1, <2>2 DEF SpawnDynamicFails, StartedOnce
<1>10. ASSUME NEW c \in Callers, NotifyOne(c) PROVE StartedOnce'
  BY <1>10 DEF StartedOnce, NotifyOne
<1>11. CASE ShutdownBegins
  BY <1>11 DEF StartedOnce, ShutdownBegins
<1>12. CASE ShutdownNotifies
  BY <1>12 DEF StartedOnce, ShutdownNotifies
<1>13. CASE JoinBase
  BY <1>13 DEF StartedOnce, JoinBase
<1>14. CASE TakeDynamic
  BY <1>14 DEF StartedOnce, TakeDynamic
<1>15. CASE JoinDynamic
  BY <1>15 DEF StartedOnce, JoinDynamic
<1>16. CASE ShutdownReturns
  BY <1>16 DEF StartedOnce, ShutdownReturns
<1>17. ASSUME NEW w \in Workers, ProceedAtOnce(w) PROVE StartedOnce'
  <2>1. CASE TakeJob(w)
    <3>1. /\ runs' = [runs EXCEPT ![jobs_[1]] = @ + 1]
          /\ 1 \in DOMAIN jobs_
          /\ UNCHANGED outcome
      BY <1>17, <2>1 DEF ProceedAtOnce, TakeJob, TypeOK
    <3>2. outcome[jobs_[1]] \in {"accepted", "threw"} /\ runs[jobs_[1]] = 0
      BY <3>1 DEF JobInv
    <3> QED
      BY <3>1, <3>2 DEF StartedOnce
  <2>2. CASE LeaveLoop(w)
    BY <1>17, <2>2 DEF StartedOnce, LeaveLoop, ProceedAtOnce
  <2> QED
    BY <1>17, <2>1, <2>2 DEF ProceedAtOnce
<1>18. ASSUME NEW w \in Workers, BeginWait(w) PROVE StartedOnce'
  BY <1>18 DEF StartedOnce, BeginWait
<1>19. ASSUME NEW w \in Workers, SpuriousWakeup(w) PROVE StartedOnce'
  BY <1>19 DEF StartedOnce, SpuriousWakeup
<1>20. ASSUME NEW w \in Workers, IdleTimeout(w) PROVE StartedOnce'
  BY <1>20 DEF StartedOnce, IdleTimeout
<1>21. ASSUME NEW w \in Workers, ProceedAfterWait(w) PROVE StartedOnce'
  <2>1. CASE TakeJob(w)
    <3>1. /\ runs' = [runs EXCEPT ![jobs_[1]] = @ + 1]
          /\ 1 \in DOMAIN jobs_
          /\ UNCHANGED outcome
      BY <1>21, <2>1, TakeFirst DEF ProceedAfterWait, TakeJob
    <3>2. outcome[jobs_[1]] \in {"accepted", "threw"} /\ runs[jobs_[1]] = 0
      BY <3>1 DEF JobInv
    <3> QED
      BY <3>1, <3>2 DEF StartedOnce
  <2>2. CASE LeaveLoop(w)
    BY <1>21, <2>2 DEF StartedOnce, LeaveLoop, ProceedAfterWait
  <2> QED
    BY <1>21, <2>1, <2>2 DEF ProceedAfterWait
<1>22. ASSUME NEW w \in Workers, WaitAgain(w) PROVE StartedOnce'
  BY <1>22 DEF StartedOnce, WaitAgain
<1>23. ASSUME NEW w \in Workers, Retire(w) PROVE StartedOnce'
  BY <1>23 DEF StartedOnce, Retire
<1>24. ASSUME NEW w \in Workers, FinishJob(w) PROVE StartedOnce'
  BY <1>24 DEF StartedOnce, FinishJob
<1>25. ASSUME NEW w \in Workers, Exit(w) PROVE StartedOnce'
  BY <1>25 DEF StartedOnce, Exit
<1>26. CASE UNCHANGED vars
  BY <1>26 DEF StartedOnce, vars
<1> QED
  BY <1>1, <1>2, <1>3, <1>4, <1>5, <1>6, <1>7, <1>8, <1>9, <1>10, <1>11, <1>12,
     <1>13, <1>14, <1>15, <1>16, <1>17, <1>18, <1>19, <1>20, <1>21, <1>22,
     <1>23, <1>24, <1>25, <1>26
  DEF Next, MainStep, CallStep, WorkStep, Finished

-----------------------------------------------------------------------------
(* Theorems *)

\* IInv is an invariant of the pool.
THEOREM PoolInvariant == Spec => []IInv
<1>1. IInv /\ [Next]_vars => IInv'
  BY NextType, NextIdleCount, NextRunning, NextMutex, NextPhase, NextThread,
     NextJoin, NextJob, NextStarted
  DEF IInv
<1> QED
  BY InitIInv, <1>1, PTL DEF Spec

\* Every variable of the pool keeps its type; in particular the unsigned
\* idle_thread_count_ never goes below zero.
THEOREM PoolTypes == Spec => []TypeOK
<1>1. IInv => TypeOK
  BY DEF IInv
<1> QED
  BY PoolInvariant, <1>1, PTL

\* idle_thread_count_ is exactly the number of workers inside a wait.
THEOREM PoolIdleCount == Spec => []IdleCountExact
<1>1. IInv => IdleCountExact
  BY DEF IInv
<1> QED
  BY PoolInvariant, <1>1, PTL

\* A job is started at most once, and never after enqueue rejected it.
THEOREM PoolStartsOnce == Spec => []StartedOnce
<1>1. IInv => StartedOnce
  BY DEF IInv
<1> QED
  BY PoolInvariant, <1>1, PTL

\* When shutdown or the failed constructor is over, no worker is left: each
\* thread is in a list that was joined.
LEMMA OutliveFromIInv == IInv => NoThreadOutlivesPool
<1> SUFFICES ASSUME IInv, mpc \in {"closed", "failed"} PROVE
        /\ \A w \in Workers : wpc[w] \in {"unborn", "exited"}
        /\ dynamic_threads_ = {}
        /\ finished_threads_ = {}
  BY DEF NoThreadOutlivesPool
<1>1. dynamic_threads_ = {} /\ finished_threads_ = {}
  BY DEF IInv, PhaseInv, JoinInv, Constructed
<1>2. \A w \in threads_ \cup remaining_dynamic : wpc[w] = "exited"
  BY DEF IInv, PhaseInv, JoinInv
<1> QED
  BY <1>1, <1>2 DEF IInv, ThreadInv

\* After shutdown or a failed constructor no worker touches the pool any more.
THEOREM PoolThreadsJoined == Spec => []NoThreadOutlivesPool
BY PoolInvariant, OutliveFromIInv, PTL

\* Some base thread left its loop, so the queue is empty for good; no worker is
\* left to hold a job; hence every accepted job is done.
LEMMA DrainFromIInv == IInv => ShutdownDrains
<1> SUFFICES ASSUME IInv, mpc = "closed", BaseCount > 0,
                    NEW j \in Jobs, outcome[j] = "accepted"
             PROVE  j \in done
  BY DEF ShutdownDrains
<1>1. threads_ # {}
  BY FS_EmptySet DEF IInv, PhaseInv, Constructed
<1>2. PICK w \in threads_ : wpc[w] = "exited"
  BY <1>1 DEF IInv, JoinInv
<1>3. jobs_ = <<>>
  BY <1>2 DEF IInv, ThreadInv, TypeOK
<1>4. \A v \in Workers : fn[v] # j
  BY OutliveFromIInv DEF IInv, RunningHasJob, NoThreadOutlivesPool
<1> QED
  BY <1>3, <1>4 DEF IInv, JobInv

\* When shutdown has returned, every job enqueue accepted has been run.
THEOREM PoolDrains == Spec => []ShutdownDrains
BY PoolInvariant, DrainFromIInv, PTL

-----------------------------------------------------------------------------
(* How many threads there are *)

\* The threads that are in a list; finished ones and those shutdown took count.
Threads == threads_ \cup dynamic_threads_ \cup finished_threads_ \cup remaining_dynamic

\* enqueue counts the two lists it sees and joins the finished threads before it
\* makes a new one, so the count is still true when the thread exists.
BoundInv ==
    /\ Cardinality(threads_) <= BaseCount
    /\ Cardinality(Threads) <= MaxCount
    /\ \A c \in Callers :
         cpc[c] = "spawn" => Cardinality(threads_) + Cardinality(dynamic_threads_) < MaxCount

\* One element more counts at most one more.
LEMMA OneMore ==
    ASSUME NEW S, IsFiniteSet(S), NEW x
    PROVE  /\ IsFiniteSet(S \cup {x})
           /\ Cardinality(S \cup {x}) \in Nat
           /\ Cardinality(S) \in Nat
           /\ Cardinality(S \cup {x}) <= Cardinality(S) + 1
<1>1. IsFiniteSet(S \cup {x}) /\ Cardinality(S) \in Nat
  BY FS_AddElement, FS_CardinalityType
<1>2. Cardinality(S \cup {x}) = IF x \in S THEN Cardinality(S) ELSE Cardinality(S) + 1
  BY FS_AddElement
<1> QED
  BY <1>1, <1>2

\* The lists are finite and the base threads are not among the dynamic ones.
LEMMA ListsFinite ==
    ASSUME TypeOK, ThreadInv
    PROVE  /\ IsFiniteSet(threads_) /\ Cardinality(threads_) \in Nat
           /\ IsFiniteSet(dynamic_threads_) /\ Cardinality(dynamic_threads_) \in Nat
           /\ IsFiniteSet(Threads) /\ Cardinality(Threads) \in Nat
           /\ Cardinality(threads_ \cup dynamic_threads_)
                = Cardinality(threads_) + Cardinality(dynamic_threads_)
<1>1. /\ threads_ \in SUBSET Workers
      /\ dynamic_threads_ \in SUBSET Workers
      /\ Threads \in SUBSET Workers
  BY DEF TypeOK, Threads
<1>2. /\ IsFiniteSet(threads_) /\ Cardinality(threads_) \in Nat
      /\ IsFiniteSet(dynamic_threads_) /\ Cardinality(dynamic_threads_) \in Nat
      /\ IsFiniteSet(Threads) /\ Cardinality(Threads) \in Nat
  BY <1>1, PoolAssumption, FS_Subset, FS_CardinalityType
<1>3. threads_ \cap dynamic_threads_ = {}
  BY DEF ThreadInv
<1>4. Cardinality(threads_ \cap dynamic_threads_) = 0
  BY <1>3, FS_EmptySet
<1> QED
  <2>1. Cardinality(threads_ \cup dynamic_threads_)
          = Cardinality(threads_) + Cardinality(dynamic_threads_)
            - Cardinality(threads_ \cap dynamic_threads_)
    BY <1>2, FS_Union
  <2> QED
    BY <1>2, <1>4, <2>1

\* The bound is kept: what is added was counted while the mutex was held.
LEMMA NextBound == IInv /\ BoundInv /\ [Next]_vars => BoundInv'
<1> SUFFICES ASSUME IInv, BoundInv, [Next]_vars PROVE BoundInv'
  OBVIOUS
<1>0. /\ IsFiniteSet(threads_) /\ Cardinality(threads_) \in Nat
      /\ IsFiniteSet(dynamic_threads_) /\ Cardinality(dynamic_threads_) \in Nat
      /\ IsFiniteSet(Threads) /\ Cardinality(Threads) \in Nat
      /\ Cardinality(threads_ \cup dynamic_threads_)
           = Cardinality(threads_) + Cardinality(dynamic_threads_)
      /\ BaseCount \in Nat /\ MaxCount \in Nat /\ BaseCount <= MaxCount
  BY ListsFinite, PoolAssumption DEF IInv
<1> USE DEF BoundInv, Threads, poolvars
<1>1. ASSUME NEW w \in Workers, SpawnBase(w) PROVE BoundInv'
  <2>1. Threads = threads_ /\ Threads' = threads_ \cup {w} /\ w \notin threads_
    BY <1>1 DEF SpawnBase, IInv, PhaseInv, JoinInv, ThreadInv, Constructed
  <2>2. Cardinality(threads_') = Cardinality(threads_) + 1
    BY <1>1, <2>1, <1>0, FS_AddElement, Zenon DEF SpawnBase
  <2>3. \A c \in Callers : cpc'[c] = "out"
    BY <1>1 DEF SpawnBase, IInv, PhaseInv, Constructed
  <2> QED
    BY <1>1, <2>1, <2>2, <2>3, <1>0 DEF SpawnBase
<1>2. ASSUME NEW c \in Callers, NEW j \in Jobs, Enqueue(c, j) PROVE BoundInv'
  <2>1. /\ UNCHANGED <<threads_, dynamic_threads_>> /\ Threads' = Threads
        /\ \A d \in Callers : cpc'[d] = "spawn" => NeedsThread \/ cpc[d] = "spawn"
    BY <1>2 DEF Enqueue, IInv, TypeOK
  <2> QED
    BY <2>1 DEF NeedsThread
<1>3. ASSUME NEW c \in Callers, NEW w \in Workers, SpawnDynamic(c, w) PROVE BoundInv'
  <2>1. /\ cpc[c] = "spawn" /\ remaining_dynamic = {}
        /\ \A d \in Callers : cpc[d] = "spawn" => d = c
    BY <1>3 DEF SpawnDynamic, IInv, MutexInv, PhaseInv
  <2>2. Threads' = (threads_ \cup dynamic_threads_) \cup {w} /\ threads_' = threads_
    BY <1>3, <2>1 DEF SpawnDynamic
  <2> DEFINE Counted == threads_ \cup dynamic_threads_
  <2>3. IsFiniteSet(Counted)
    BY <1>0, FS_Union, Zenon
  <2>5. Cardinality(Counted) \in Nat /\ Cardinality(Counted) + 1 <= MaxCount
    BY <2>1, <1>0
  <2>6. /\ Cardinality(Counted \cup {w}) \in Nat
        /\ Cardinality(Counted \cup {w}) <= Cardinality(Counted) + 1
    BY <2>3, OneMore, Zenon
  <2>7. Cardinality(Threads') <= MaxCount
    <3> HIDE DEF Threads, Counted
    <3>1. Threads' = Counted \cup {w}
      BY <2>2 DEF Counted
    <3> QED
      BY <3>1, <2>5, <2>6, <1>0
  <2>4. \A d \in Callers : cpc'[d] # "spawn"
    BY <1>3, <2>1 DEF SpawnDynamic, IInv, TypeOK
  <2> QED
    BY <2>2, <2>4, <2>7, <1>0
<1>4. ASSUME NEW c \in Callers, NEW j \in Jobs, SpawnDynamicFails(c, j) PROVE BoundInv'
  <2>1. /\ UNCHANGED <<threads_, dynamic_threads_>> /\ Threads' \subseteq Threads
        /\ \A d \in Callers : cpc'[d] = "spawn" => cpc[d] = "spawn"
    BY <1>4 DEF SpawnDynamicFails
  <2>2. Cardinality(Threads') <= Cardinality(Threads) /\ Cardinality(Threads') \in Nat
    BY <2>1, FS_Subset, FS_CardinalityType, <1>0
  <2> QED
    BY <2>1, <2>2, <1>0
<1>5. ASSUME NEW c \in Callers, NotifyOne(c) PROVE BoundInv'
  <2>1. /\ UNCHANGED <<threads_, dynamic_threads_>> /\ Threads' = Threads
        /\ \A d \in Callers : cpc'[d] = "spawn" => cpc[d] = "spawn"
    BY <1>5 DEF NotifyOne
  <2> QED
    BY <2>1, Zenon
<1>6. CASE TakeDynamic
  <2>1. /\ threads_' = threads_ /\ Threads' \subseteq Threads
        /\ \A d \in Callers : cpc'[d] # "spawn"
    BY <1>6, PoolAssumption DEF TakeDynamic, MutexFree, IInv, MutexInv
  <2>2. Cardinality(Threads') <= Cardinality(Threads) /\ Cardinality(Threads') \in Nat
    BY <2>1, FS_Subset, FS_CardinalityType, <1>0
  <2> QED
    BY <2>1, <2>2, <1>0
<1>7. CASE ShutdownReturns
  <2>1. /\ UNCHANGED <<threads_, dynamic_threads_, cpc>> /\ Threads' \subseteq Threads
    BY <1>7 DEF ShutdownReturns
  <2>2. Cardinality(Threads') <= Cardinality(Threads) /\ Cardinality(Threads') \in Nat
    BY <2>1, FS_Subset, FS_CardinalityType, <1>0
  <2> QED
    BY <2>1, <2>2, <1>0
<1>8. ASSUME NEW w \in Workers, Retire(w) PROVE BoundInv'
  <2>1. /\ threads_' = threads_ /\ Threads' = Threads
        /\ \A d \in Callers : cpc'[d] # "spawn"
    BY <1>8, PoolAssumption DEF Retire, MutexFree, IInv, MutexInv
  <2> QED
    BY <2>1, Zenon
<1>9. CASE UNCHANGED <<threads_, dynamic_threads_, finished_threads_, remaining_dynamic, cpc>>
  BY <1>9
<1>10. CASE \/ CtorReturns \/ CtorFails \/ UnwindNotify \/ UnwindJoin
            \/ ShutdownBegins \/ ShutdownNotifies \/ JoinBase \/ JoinDynamic
  BY <1>9, <1>10
  DEF CtorReturns, CtorFails, UnwindNotify, UnwindJoin, ShutdownBegins,
     ShutdownNotifies, JoinBase, JoinDynamic
<1>11. ASSUME NEW c \in Callers, NEW j \in Jobs,
            EnqueueRejects(c, j)
     PROVE  BoundInv'
  BY <1>9, <1>11 DEF EnqueueRejects
<1>12. ASSUME NEW w \in Workers,
            \/ ProceedAtOnce(w) \/ BeginWait(w) \/ SpuriousWakeup(w)
            \/ IdleTimeout(w) \/ ProceedAfterWait(w) \/ WaitAgain(w)
            \/ FinishJob(w) \/ Exit(w)
     PROVE  BoundInv'
  BY <1>9, <1>12
  DEF ProceedAtOnce, BeginWait, SpuriousWakeup, IdleTimeout, ProceedAfterWait,
     WaitAgain, FinishJob, Exit
<1>13. CASE UNCHANGED vars
  BY <1>9, <1>13 DEF vars
<1> QED
  BY <1>1, <1>2, <1>3, <1>4, <1>5, <1>6, <1>7, <1>8, <1>10, <1>11, <1>12, <1>13
  DEF Next, MainStep, CallStep, WorkStep, Finished

\* No more threads exist than max_thread_count, those that have left and wait to
\* be joined included.
THEOREM PoolThreadsBounded == Spec => []ThreadsBounded
<1>1. Init => BoundInv
  BY FS_EmptySet, PoolAssumption DEF Init, BoundInv, Threads
<1>2. IInv /\ BoundInv => ThreadsBounded
  <2> SUFFICES ASSUME IInv, BoundInv
               PROVE  Cardinality({w \in Workers : wpc[w] # "unborn"}) <= MaxCount
    BY DEF ThreadsBounded
  <2>1. {w \in Workers : wpc[w] # "unborn"} \subseteq Threads
    BY DEF IInv, ThreadInv, Threads
  <2> QED
    BY <2>1, ListsFinite, FS_Subset, FS_CardinalityType, PoolAssumption
    DEF IInv, BoundInv
<1> QED
  BY PoolInvariant, NextBound, <1>1, <1>2, PTL DEF Spec

-----------------------------------------------------------------------------
(* No job is stranded *)

\* On the way to the queue: not yet waiting, or out of the wait.
Ready == {w \in Workers : wpc[w] \in {"start", "woken", "timedout"}}

\* Inside enqueue, past the push.
Inside == {c \in Callers : cpc[c] # "out"}

\* A caller that starts a thread found nobody idle, and while it holds the mutex
\* nobody can begin to wait: if its std::thread throws, the job it leaves
\* without a notification has no sleeper to wake.
StrandInv ==
    /\ IsFiniteSet(Inside)
    /\ \A c \in Callers : cpc[c] = "spawn" => \A w \in Workers : wpc[w] \notin Idle
    /\ ~shutdown_ /\ (\E w \in Workers : wpc[w] = "waiting")
       => Len(jobs_) <= Cardinality(Ready) + Cardinality(Inside)

\* What a worker that starts or wakes up adds, and one that takes a job takes away.
LEMMA ReadyFinite ==
    /\ IsFiniteSet(Ready) /\ Cardinality(Ready) \in Nat
    /\ Cardinality(Ready') \in Nat
    /\ \A w \in Workers :
         /\ w \notin Ready => Cardinality(Ready \cup {w}) = Cardinality(Ready) + 1
         /\ w \in Ready => Cardinality(Ready \ {w}) = Cardinality(Ready) - 1
<1>1. Ready \in SUBSET Workers /\ Ready' \in SUBSET Workers
  BY DEF Ready
<1>2. /\ IsFiniteSet(Ready) /\ Cardinality(Ready) \in Nat
      /\ Cardinality(Ready') \in Nat
  BY <1>1, PoolAssumption, FS_Subset, FS_CardinalityType
<1> QED
  BY <1>2, FS_AddElement, FS_RemoveElement

\* The same for a caller that enters enqueue or leaves it.
LEMMA InsideFinite ==
    ASSUME IsFiniteSet(Inside)
    PROVE  /\ Cardinality(Inside) \in Nat
           /\ \A c \in Callers :
                /\ IsFiniteSet(Inside \cup {c})
                /\ IsFiniteSet(Inside \ {c})
                /\ c \notin Inside => Cardinality(Inside \cup {c}) = Cardinality(Inside) + 1
                /\ c \in Inside => Cardinality(Inside \ {c}) = Cardinality(Inside) - 1
BY FS_AddElement, FS_RemoveElement, FS_CardinalityType

\* Each step takes a job with the worker that was on its way to it, and a caller
\* leaves enqueue when it has woken a worker or there was none to wake.
LEMMA NextStrand == IInv /\ StrandInv /\ [Next]_vars => StrandInv'
<1> SUFFICES ASSUME IInv, StrandInv, [Next]_vars PROVE StrandInv'
  OBVIOUS
<1>0. /\ IsFiniteSet(Inside) /\ Cardinality(Inside) \in Nat
      /\ Cardinality(Ready) \in Nat
      /\ Len(jobs_) \in Nat
  BY ReadyFinite, InsideFinite DEF StrandInv
<1> USE DEF poolvars
<1>1. ASSUME NEW w \in Workers, SpawnBase(w) PROVE StrandInv'
  <2>1. cpc' = cpc /\ jobs_' = <<>>
        /\ \A c \in Callers : cpc[c] = "spawn" => \A v \in Workers : wpc'[v] \notin Idle
    BY <1>1, PoolAssumption DEF SpawnBase, IInv, PhaseInv
  <2>2. Inside' = Inside
    BY <2>1 DEF Inside
  <2>3. Len(jobs_') <= Cardinality(Ready') + Cardinality(Inside')
    BY <2>1, <2>2, ReadyFinite, <1>0
  <2> QED
    BY <2>1, <2>2, <2>3 DEF StrandInv
<1>2. CASE CtorFails
  <2>1. shutdown_' /\ cpc' = cpc
        /\ \A w \in Workers : wpc'[w] \in Idle => wpc[w] \in Idle
    BY <1>2 DEF CtorFails
  <2>2. Inside' = Inside
    BY <2>1 DEF Inside
  <2> QED
    BY <2>1, <2>2 DEF StrandInv
<1>3. CASE UnwindNotify
  <2>1. shutdown_' /\ cpc' = cpc
        /\ \A w \in Workers : wpc'[w] \in Idle => wpc[w] \in Idle
    BY <1>3 DEF UnwindNotify, NotifyAll, IInv, PhaseInv, Idle
  <2>2. Inside' = Inside
    BY <2>1 DEF Inside
  <2> QED
    BY <2>1, <2>2 DEF StrandInv
<1>4. ASSUME NEW c \in Callers, NEW j \in Jobs, Enqueue(c, j) PROVE StrandInv'
  <2>1. /\ UNCHANGED <<wpc, shutdown_>> /\ Inside' = Inside \cup {c} /\ c \notin Inside
        /\ \A d \in Callers : cpc'[d] = "spawn" => NeedsThread \/ cpc[d] = "spawn"
    BY <1>4 DEF Enqueue, IInv, TypeOK, Inside
  <2>2. NeedsThread => \A w \in Workers : wpc[w] \notin Idle
    BY IdleWorkersFinite, FS_EmptySet DEF NeedsThread, IInv, IdleWorkers
  <2>3. Len(jobs_') = Len(jobs_) + 1 /\ Ready' = Ready
    BY <1>4 DEF Enqueue, Ready
  <2>4. Cardinality(Inside') = Cardinality(Inside) + 1 /\ IsFiniteSet(Inside')
    BY <2>1, <1>0, InsideFinite
  <2> QED
    BY <2>1, <2>2, <2>3, <2>4, <1>0 DEF StrandInv
<1>5. ASSUME NEW c \in Callers, NEW w \in Workers, SpawnDynamic(c, w) PROVE StrandInv'
  <2>1. Inside' = Inside
    BY <1>5 DEF SpawnDynamic, Inside
  <2>2. \A v \in Workers : wpc'[v] # "waiting"
    BY <1>5 DEF SpawnDynamic, Reaped, StrandInv, Idle
  <2>3. \A d \in Callers : cpc'[d] # "spawn"
    BY <1>5 DEF SpawnDynamic, IInv, TypeOK, MutexInv
  <2> QED
    BY <2>1, <2>2, <2>3 DEF StrandInv
<1>6. ASSUME NEW c \in Callers, NEW j \in Jobs, SpawnDynamicFails(c, j) PROVE StrandInv'
  <2>1. Inside' = Inside \ {c}
    BY <1>6 DEF SpawnDynamicFails, IInv, TypeOK, Inside
  <2>2. \A v \in Workers : wpc'[v] # "waiting"
    BY <1>6 DEF SpawnDynamicFails, Reaped, StrandInv, Idle
  <2>3. \A d \in Callers : cpc'[d] # "spawn"
    BY <1>6 DEF SpawnDynamicFails, IInv, TypeOK, MutexInv
  <2> QED
    BY <2>1, <2>2, <2>3, <1>0, InsideFinite, Zenon DEF StrandInv
<1>7. ASSUME NEW c \in Callers, NotifyOne(c) PROVE StrandInv'
  <2>1. /\ UNCHANGED <<jobs_, shutdown_>> /\ Inside' = Inside \ {c} /\ c \in Inside
        /\ \A d \in Callers : cpc'[d] = "spawn" => cpc[d] = "spawn"
    BY <1>7 DEF NotifyOne, IInv, TypeOK, Inside
  <2>2. /\ Cardinality(Inside') = Cardinality(Inside) - 1
        /\ IsFiniteSet(Inside')
    BY <2>1, <1>0, InsideFinite
  <2>3. CASE \A w \in Workers : wpc[w] # "waiting"
    <3>1. wpc' = wpc
      BY <1>7, <2>3 DEF NotifyOne
    <3> QED
      BY <2>1, <2>2, <2>3, <3>1 DEF StrandInv
  <2>4. ASSUME NEW w \in Workers, wpc[w] = "waiting", wpc' = [wpc EXCEPT ![w] = "woken"]
        PROVE  StrandInv'
    <3>1. /\ Ready' = Ready \cup {w} /\ w \notin Ready
          /\ \A v \in Workers : wpc'[v] \in Idle => wpc[v] \in Idle
          /\ \A v \in Workers : wpc'[v] = "waiting" => wpc[v] = "waiting"
      BY <2>4 DEF IInv, TypeOK, Idle, Ready
    <3>2. Cardinality(Ready') = Cardinality(Ready) + 1
      BY <3>1, ReadyFinite
    <3>3. Len(jobs_) <= Cardinality(Ready) + Cardinality(Inside)
          => Len(jobs_') <= Cardinality(Ready') + Cardinality(Inside')
      BY <2>1, <2>2, <3>2, <1>0
    <3> QED
      BY <2>1, <2>2, <3>1, <3>3 DEF StrandInv
  <2> QED
    BY <1>7, <2>3, <2>4 DEF NotifyOne
<1>8. CASE ShutdownBegins
  <2>1. shutdown_' /\ cpc' = cpc
        /\ \A w \in Workers : wpc'[w] \in Idle => wpc[w] \in Idle
    BY <1>8 DEF ShutdownBegins
  <2>2. Inside' = Inside
    BY <2>1 DEF Inside
  <2> QED
    BY <2>1, <2>2 DEF StrandInv
<1>9. CASE ShutdownNotifies
  <2>1. shutdown_' /\ cpc' = cpc
        /\ \A w \in Workers : wpc'[w] \in Idle => wpc[w] \in Idle
    BY <1>9 DEF ShutdownNotifies, NotifyAll, IInv, PhaseInv, Idle
  <2>2. Inside' = Inside
    BY <2>1 DEF Inside
  <2> QED
    BY <2>1, <2>2 DEF StrandInv
<1>10. CASE ShutdownReturns
  <2>1. shutdown_' /\ cpc' = cpc
        /\ \A w \in Workers : wpc'[w] \in Idle => wpc[w] \in Idle
    BY <1>10 DEF ShutdownReturns, Reaped, IInv, PhaseInv, Idle
  <2>2. Inside' = Inside
    BY <2>1 DEF Inside
  <2> QED
    BY <2>1, <2>2 DEF StrandInv
<1>11. ASSUME NEW w \in Workers, ProceedAtOnce(w) PROVE StrandInv'
  <2>1. CASE TakeJob(w)
    <3>1. /\ UNCHANGED <<cpc, shutdown_>> /\ Ready' = Ready \ {w} /\ w \in Ready
          /\ \A v \in Workers : wpc'[v] \in Idle => wpc[v] \in Idle
          /\ \A v \in Workers : wpc'[v] = "waiting" => wpc[v] = "waiting"
      BY <1>11, <2>1 DEF ProceedAtOnce, TakeJob, IInv, TypeOK, Idle, Ready
    <3>2. Inside' = Inside
      BY <3>1 DEF Inside
    <3>3. Len(jobs_') = Len(jobs_) - 1 /\ Cardinality(Ready') = Cardinality(Ready) - 1
      BY <2>1, <3>1, ReadyFinite DEF TakeJob
    <3>4. Len(jobs_) <= Cardinality(Ready) + Cardinality(Inside)
          => Len(jobs_') <= Cardinality(Ready') + Cardinality(Inside')
      BY <3>2, <3>3, <1>0
    <3>5. ~shutdown_' /\ (\E v \in Workers : wpc'[v] = "waiting")
          => ~shutdown_ /\ (\E v \in Workers : wpc[v] = "waiting")
      BY <3>1
    <3>6. Len(jobs_') <= Cardinality(Ready') + Cardinality(Inside')
          \/ shutdown_' \/ \A v \in Workers : wpc'[v] # "waiting"
      BY <3>4, <3>5 DEF StrandInv
    <3> QED
      BY <3>1, <3>2, <3>6 DEF StrandInv
  <2>2. CASE LeaveLoop(w)
    <3>1. shutdown_' /\ cpc' = cpc /\ \A v \in Workers : wpc'[v] \in Idle => wpc[v] \in Idle
      BY <1>11, <2>2 DEF ProceedAtOnce, LeaveLoop, Idle
    <3>2. Inside' = Inside
      BY <3>1 DEF Inside
    <3> QED
      BY <3>1, <3>2 DEF StrandInv
  <2> QED
    BY <1>11, <2>1, <2>2 DEF ProceedAtOnce
<1>12. ASSUME NEW w \in Workers, BeginWait(w) PROVE StrandInv'
  <2>1. cpc' = cpc /\ jobs_' = <<>>
        /\ \A c \in Callers : cpc[c] = "spawn" => \A v \in Workers : wpc'[v] \notin Idle
    BY <1>12 DEF BeginWait, HasWork, IInv, MutexInv
  <2>2. Inside' = Inside
    BY <2>1 DEF Inside
  <2>3. Len(jobs_') <= Cardinality(Ready') + Cardinality(Inside')
    BY <2>1, <2>2, ReadyFinite, <1>0
  <2> QED
    BY <2>1, <2>2, <2>3 DEF StrandInv
<1>13. ASSUME NEW w \in Workers, SpuriousWakeup(w) PROVE StrandInv'
  <2>1. /\ UNCHANGED <<cpc, jobs_, shutdown_>> /\ Ready' = Ready \cup {w} /\ w \notin Ready
        /\ \A v \in Workers : wpc'[v] \in Idle => wpc[v] \in Idle
        /\ \A v \in Workers : wpc'[v] = "waiting" => wpc[v] = "waiting"
    BY <1>13 DEF SpuriousWakeup, IInv, TypeOK, Idle, Ready
  <2>2. Inside' = Inside
    BY <2>1 DEF Inside
  <2>3. Cardinality(Ready') = Cardinality(Ready) + 1
    BY <2>1, ReadyFinite
  <2>4. Len(jobs_) <= Cardinality(Ready) + Cardinality(Inside)
        => Len(jobs_') <= Cardinality(Ready') + Cardinality(Inside')
    BY <2>1, <2>2, <2>3, <1>0
  <2>5. ~shutdown_' /\ (\E v \in Workers : wpc'[v] = "waiting")
        => ~shutdown_ /\ (\E v \in Workers : wpc[v] = "waiting")
    BY <2>1
  <2>6. Len(jobs_') <= Cardinality(Ready') + Cardinality(Inside')
        \/ shutdown_' \/ \A v \in Workers : wpc'[v] # "waiting"
    BY <2>4, <2>5 DEF StrandInv
  <2> QED
    BY <2>1, <2>2, <2>6 DEF StrandInv
<1>14. ASSUME NEW w \in Workers, IdleTimeout(w) PROVE StrandInv'
  <2>1. /\ UNCHANGED <<cpc, jobs_, shutdown_>> /\ Ready' = Ready \cup {w} /\ w \notin Ready
        /\ \A v \in Workers : wpc'[v] \in Idle => wpc[v] \in Idle
        /\ \A v \in Workers : wpc'[v] = "waiting" => wpc[v] = "waiting"
    BY <1>14 DEF IdleTimeout, IInv, TypeOK, Idle, Ready
  <2>2. Inside' = Inside
    BY <2>1 DEF Inside
  <2>3. Cardinality(Ready') = Cardinality(Ready) + 1
    BY <2>1, ReadyFinite
  <2>4. Len(jobs_) <= Cardinality(Ready) + Cardinality(Inside)
        => Len(jobs_') <= Cardinality(Ready') + Cardinality(Inside')
    BY <2>1, <2>2, <2>3, <1>0
  <2>5. ~shutdown_' /\ (\E v \in Workers : wpc'[v] = "waiting")
        => ~shutdown_ /\ (\E v \in Workers : wpc[v] = "waiting")
    BY <2>1
  <2>6. Len(jobs_') <= Cardinality(Ready') + Cardinality(Inside')
        \/ shutdown_' \/ \A v \in Workers : wpc'[v] # "waiting"
    BY <2>4, <2>5 DEF StrandInv
  <2> QED
    BY <2>1, <2>2, <2>6 DEF StrandInv
<1>15. ASSUME NEW w \in Workers, ProceedAfterWait(w) PROVE StrandInv'
  <2>1. CASE TakeJob(w)
    <3>1. /\ UNCHANGED <<cpc, shutdown_>> /\ Ready' = Ready \ {w} /\ w \in Ready
          /\ \A v \in Workers : wpc'[v] \in Idle => wpc[v] \in Idle
          /\ \A v \in Workers : wpc'[v] = "waiting" => wpc[v] = "waiting"
      BY <1>15, <2>1 DEF ProceedAfterWait, TakeJob, IInv, TypeOK, Idle, Ready
    <3>2. Inside' = Inside
      BY <3>1 DEF Inside
    <3>3. Len(jobs_') = Len(jobs_) - 1 /\ Cardinality(Ready') = Cardinality(Ready) - 1
      BY <2>1, <3>1, ReadyFinite DEF TakeJob
    <3>4. Len(jobs_) <= Cardinality(Ready) + Cardinality(Inside)
          => Len(jobs_') <= Cardinality(Ready') + Cardinality(Inside')
      BY <3>2, <3>3, <1>0
    <3>5. ~shutdown_' /\ (\E v \in Workers : wpc'[v] = "waiting")
          => ~shutdown_ /\ (\E v \in Workers : wpc[v] = "waiting")
      BY <3>1
    <3>6. Len(jobs_') <= Cardinality(Ready') + Cardinality(Inside')
          \/ shutdown_' \/ \A v \in Workers : wpc'[v] # "waiting"
      BY <3>4, <3>5 DEF StrandInv
    <3> QED
      BY <3>1, <3>2, <3>6 DEF StrandInv
  <2>2. CASE LeaveLoop(w)
    <3>1. shutdown_' /\ cpc' = cpc /\ \A v \in Workers : wpc'[v] \in Idle => wpc[v] \in Idle
      BY <1>15, <2>2 DEF ProceedAfterWait, LeaveLoop, Idle
    <3>2. Inside' = Inside
      BY <3>1 DEF Inside
    <3> QED
      BY <3>1, <3>2 DEF StrandInv
  <2> QED
    BY <1>15, <2>1, <2>2 DEF ProceedAfterWait
<1>16. ASSUME NEW w \in Workers, WaitAgain(w) PROVE StrandInv'
  <2>1. cpc' = cpc /\ jobs_' = <<>>
        /\ \A c \in Callers : cpc[c] = "spawn" => \A v \in Workers : wpc'[v] \notin Idle
    BY <1>16 DEF WaitAgain, HasWork, StrandInv, Idle
  <2>2. Inside' = Inside
    BY <2>1 DEF Inside
  <2>3. Len(jobs_') <= Cardinality(Ready') + Cardinality(Inside')
    BY <2>1, <2>2, ReadyFinite, <1>0
  <2> QED
    BY <2>1, <2>2, <2>3 DEF StrandInv
<1>17. ASSUME NEW w \in Workers, Retire(w) PROVE StrandInv'
  <2>1. cpc' = cpc /\ jobs_' = <<>>
        /\ \A c \in Callers : cpc[c] = "spawn" => \A v \in Workers : wpc'[v] \notin Idle
    BY <1>17 DEF Retire, HasWork, StrandInv, Idle
  <2>2. Inside' = Inside
    BY <2>1 DEF Inside
  <2>3. Len(jobs_') <= Cardinality(Ready') + Cardinality(Inside')
    BY <2>1, <2>2, ReadyFinite, <1>0
  <2> QED
    BY <2>1, <2>2, <2>3 DEF StrandInv
<1>18. ASSUME NEW w \in Workers, FinishJob(w) PROVE StrandInv'
  <2>1. /\ UNCHANGED <<cpc, jobs_, shutdown_>> /\ Ready' = Ready \cup {w} /\ w \notin Ready
        /\ \A v \in Workers : wpc'[v] \in Idle => wpc[v] \in Idle
        /\ \A v \in Workers : wpc'[v] = "waiting" => wpc[v] = "waiting"
    BY <1>18 DEF FinishJob, IInv, TypeOK, Idle, Ready
  <2>2. Inside' = Inside
    BY <2>1 DEF Inside
  <2>3. Cardinality(Ready') = Cardinality(Ready) + 1
    BY <2>1, ReadyFinite
  <2>4. Len(jobs_) <= Cardinality(Ready) + Cardinality(Inside)
        => Len(jobs_') <= Cardinality(Ready') + Cardinality(Inside')
    BY <2>1, <2>2, <2>3, <1>0
  <2>5. ~shutdown_' /\ (\E v \in Workers : wpc'[v] = "waiting")
        => ~shutdown_ /\ (\E v \in Workers : wpc[v] = "waiting")
    BY <2>1
  <2>6. Len(jobs_') <= Cardinality(Ready') + Cardinality(Inside')
        \/ shutdown_' \/ \A v \in Workers : wpc'[v] # "waiting"
    BY <2>4, <2>5 DEF StrandInv
  <2> QED
    BY <2>1, <2>2, <2>6 DEF StrandInv
<1>19. ASSUME NEW w \in Workers, Exit(w) PROVE StrandInv'
  <2>1. /\ UNCHANGED <<cpc, jobs_, shutdown_>> /\ Ready' = Ready
        /\ \A v \in Workers : wpc'[v] \in Idle => wpc[v] \in Idle
        /\ \A v \in Workers : wpc'[v] = "waiting" => wpc[v] = "waiting"
    BY <1>19 DEF Exit, Idle, Ready
  <2>2. Inside' = Inside
    BY <2>1 DEF Inside
  <2> QED
    BY <2>1, <2>2 DEF StrandInv
<1>20. CASE UNCHANGED <<wpc, cpc, jobs_, shutdown_>>
  BY <1>20 DEF StrandInv, Inside, Ready
<1>21. CASE CtorReturns \/ UnwindJoin \/ JoinBase \/ TakeDynamic \/ JoinDynamic
  BY <1>20, <1>21
  DEF CtorReturns, UnwindJoin, JoinBase, TakeDynamic, JoinDynamic
<1>22. ASSUME NEW c \in Callers, NEW j \in Jobs,
            EnqueueRejects(c, j)
     PROVE  StrandInv'
  BY <1>20, <1>22 DEF EnqueueRejects
<1>23. CASE UNCHANGED vars
  BY <1>20, <1>23 DEF vars
<1> QED
  BY <1>1, <1>2, <1>3, <1>4, <1>5, <1>6, <1>7, <1>8, <1>9, <1>10, <1>11, <1>12,
     <1>13, <1>14, <1>15, <1>16, <1>17, <1>18, <1>19, <1>21, <1>22, <1>23
  DEF Next, MainStep, CallStep, WorkStep, Finished

\* While a worker sleeps there are as many workers on their way to the queue, and
\* callers about to notify, as jobs: none is stranded.
THEOREM PoolStrandsNoJob == Spec => []NoStrandedJob
<1>1. Init => StrandInv
  <2> SUFFICES ASSUME Init PROVE StrandInv
    OBVIOUS
  <2>1. Inside = {}
    BY DEF Init, Inside
  <2> QED
    BY <2>1, FS_EmptySet DEF Init, StrandInv
<1>2. StrandInv => NoStrandedJob
  BY DEF StrandInv, NoStrandedJob, Ready, Inside
<1> QED
  BY PoolInvariant, NextStrand, <1>1, <1>2, PTL DEF Spec

-----------------------------------------------------------------------------
(* The pool implements the task queue *)

\* A job that runs or is done was started, and no two workers run the same one.
PlacesInv ==
    /\ \A w \in Workers : fn[w] \in Jobs => runs[fn[w]] > 0
    /\ \A j \in done : runs[j] > 0
    /\ \A v, w \in Workers : fn[v] \in Jobs /\ fn[v] = fn[w] => v = w

\* Only taking a job starts one, and it takes one that was never started.
LEMMA NextPlaces == IInv /\ PlacesInv /\ [Next]_vars => PlacesInv'
<1> SUFFICES ASSUME IInv, PlacesInv, [Next]_vars PROVE PlacesInv'
  OBVIOUS
<1> USE DEF PlacesInv, poolvars
<1>1. ASSUME NEW w \in Workers, ProceedAtOnce(w) PROVE PlacesInv'
  <2>1. CASE TakeJob(w)
    <3>1. /\ Head(jobs_) \in Jobs /\ runs[Head(jobs_)] = 0
          /\ runs \in [Jobs -> Nat] /\ fn \in [Workers -> Jobs \cup {NoJob}]
      BY <2>1 DEF TakeJob, IInv, TypeOK, JobInv
    <3>2. /\ runs'[Head(jobs_)] = 1
          /\ \A j \in Jobs : runs[j] > 0 => runs'[j] > 0 /\ j # Head(jobs_)
          /\ fn'[w] = Head(jobs_) /\ \A v \in Workers \ {w} : fn'[v] = fn[v]
          /\ done' = done /\ done \subseteq Jobs
      BY <1>1, <2>1, <3>1 DEF ProceedAtOnce, TakeJob, IInv, TypeOK
    <3>3. \A v \in Workers \ {w} : fn'[v] \in Jobs => fn'[v] # Head(jobs_)
      BY <3>2
    <3> QED
      BY <3>1, <3>2, <3>3
  <2>2. CASE LeaveLoop(w)
    BY <1>1, <2>2 DEF ProceedAtOnce, LeaveLoop
  <2> QED
    BY <1>1, <2>1, <2>2 DEF ProceedAtOnce
<1>2. ASSUME NEW w \in Workers, ProceedAfterWait(w) PROVE PlacesInv'
  <2>1. CASE TakeJob(w)
    <3>1. /\ Head(jobs_) \in Jobs /\ runs[Head(jobs_)] = 0
          /\ runs \in [Jobs -> Nat] /\ fn \in [Workers -> Jobs \cup {NoJob}]
      BY <2>1 DEF TakeJob, IInv, TypeOK, JobInv
    <3>2. /\ runs'[Head(jobs_)] = 1
          /\ \A j \in Jobs : runs[j] > 0 => runs'[j] > 0 /\ j # Head(jobs_)
          /\ fn'[w] = Head(jobs_) /\ \A v \in Workers \ {w} : fn'[v] = fn[v]
          /\ done' = done /\ done \subseteq Jobs
      BY <1>2, <2>1, <3>1 DEF ProceedAfterWait, TakeJob, IInv, TypeOK
    <3>3. \A v \in Workers \ {w} : fn'[v] \in Jobs => fn'[v] # Head(jobs_)
      BY <3>2
    <3> QED
      BY <3>1, <3>2, <3>3
  <2>2. CASE LeaveLoop(w)
    BY <1>2, <2>2 DEF ProceedAfterWait, LeaveLoop
  <2> QED
    BY <1>2, <2>1, <2>2 DEF ProceedAfterWait
<1>3. ASSUME NEW w \in Workers, FinishJob(w) PROVE PlacesInv'
  <2>1. /\ \A v \in Workers : fn'[v] \in Jobs => fn'[v] = fn[v]
        /\ fn[w] \in Jobs /\ done' = done \cup {fn[w]} /\ runs' = runs
    BY <1>3, PoolAssumption DEF FinishJob, IInv, RunningHasJob
  <2> QED
    BY <2>1
<1>4. CASE UNCHANGED <<fn, runs, done>>
  BY <1>4
<1>5. ASSUME NEW w \in Workers,
            \/ SpawnBase(w) \/ BeginWait(w) \/ SpuriousWakeup(w) \/ IdleTimeout(w)
            \/ WaitAgain(w) \/ Retire(w) \/ Exit(w)
     PROVE  PlacesInv'
  BY <1>4, <1>5
  DEF SpawnBase, BeginWait, SpuriousWakeup, IdleTimeout, WaitAgain, Retire, Exit
<1>6. CASE \/ CtorReturns \/ CtorFails \/ UnwindNotify \/ UnwindJoin
            \/ ShutdownBegins \/ ShutdownNotifies \/ JoinBase \/ TakeDynamic
            \/ JoinDynamic \/ ShutdownReturns
  BY <1>4, <1>6
  DEF CtorReturns, CtorFails, UnwindNotify, UnwindJoin, ShutdownBegins,
     ShutdownNotifies, JoinBase, TakeDynamic, JoinDynamic, ShutdownReturns
<1>7. ASSUME NEW c \in Callers, NEW j \in Jobs,
            EnqueueRejects(c, j) \/ Enqueue(c, j) \/ SpawnDynamicFails(c, j)
     PROVE  PlacesInv'
  BY <1>4, <1>7 DEF EnqueueRejects, Enqueue, SpawnDynamicFails
<1>8. ASSUME NEW c \in Callers, NEW w \in Workers,
            SpawnDynamic(c, w)
     PROVE  PlacesInv'
  BY <1>4, <1>8 DEF SpawnDynamic
<1>9. ASSUME NEW c \in Callers,
            NotifyOne(c)
     PROVE  PlacesInv'
  BY <1>4, <1>9 DEF NotifyOne
<1>10. CASE UNCHANGED vars
  BY <1>4, <1>10 DEF vars
<1> QED
  BY <1>1, <1>2, <1>3, <1>5, <1>6, <1>7, <1>8, <1>9, <1>10
  DEF Next, MainStep, CallStep, WorkStep, Finished

\* The mapping of the queue's variables, as TaskQueue sees them.
Active == {fn[w] : w \in {x \in Workers : wpc[x] = "running"}}
Phase == IF mpc = "closed" THEN "closed" ELSE IF shutdown_ THEN "closing" ELSE "open"

\* What the queue's actions are under the mapping.
LEMMA MappedActions ==
    /\ TQ!vars = <<jobs_, Active, done, Phase>>
    /\ \A j : TQ!Accept(j) <=> /\ Phase = "open"
                               /\ j \notin Elements(jobs_) \cup Active \cup done
                               /\ jobs_' = Append(jobs_, j)
                               /\ UNCHANGED <<Active, done, Phase>>
    /\ TQ!Start <=> /\ jobs_ # <<>>
                    /\ Active' = Active \cup {Head(jobs_)}
                    /\ jobs_' = Tail(jobs_)
                    /\ UNCHANGED <<done, Phase>>
    /\ \A j : TQ!Finish(j) <=> /\ j \in Active
                               /\ Active' = Active \ {j}
                               /\ done' = done \cup {j}
                               /\ UNCHANGED <<jobs_, Phase>>
    /\ TQ!Close <=> /\ Phase = "open" /\ Phase' = "closing"
                    /\ UNCHANGED <<jobs_, Active, done>>
    /\ TQ!Closed <=> /\ Phase = "closing" /\ Phase' = "closed"
                     /\ jobs_ = <<>> /\ Active = {}
                     /\ UNCHANGED <<jobs_, Active, done>>
BY Zenon DEF TQ!vars, TQ!Accept, TQ!Known, TQ!Start, TQ!Finish, TQ!Close, TQ!Closed,
   Active, Phase, Elements

\* A step that starts no job, ends none and does not move shutdown is invisible.
LEMMA Invisible ==
    ASSUME UNCHANGED <<jobs_, fn, done, shutdown_>>,
           mpc' = "closed" <=> mpc = "closed",
           \A w \in Workers : wpc'[w] = "running" <=> wpc[w] = "running"
    PROVE  UNCHANGED TQ!vars
<1>1. Active' = Active
  BY DEF Active
<1>2. Phase' = Phase
  BY DEF Phase
<1> QED
  BY <1>1, <1>2 DEF TQ!vars

\* Every step of the pool is a step of the queue or invisible to it.
LEMMA NextMaps == BaseCount > 0 /\ IInv /\ PlacesInv /\ [Next]_vars => [TQ!Next]_TQ!vars
<1> SUFFICES ASSUME BaseCount > 0, IInv, PlacesInv, [Next]_vars PROVE [TQ!Next]_TQ!vars
  OBVIOUS
<1>1. ASSUME NEW w \in Workers, SpawnBase(w) PROVE [TQ!Next]_TQ!vars
  <2>1. /\ UNCHANGED <<jobs_, fn, done, shutdown_>>
        /\ mpc' = "closed" <=> mpc = "closed"
        /\ \A v \in Workers : wpc'[v] = "running" <=> wpc[v] = "running"
    BY <1>1 DEF SpawnBase
  <2> QED
    BY <2>1, Invisible
<1>2. CASE CtorReturns
  <2>1. /\ UNCHANGED <<jobs_, fn, done, shutdown_>>
        /\ mpc' = "closed" <=> mpc = "closed"
        /\ \A v \in Workers : wpc'[v] = "running" <=> wpc[v] = "running"
    BY <1>2 DEF CtorReturns, poolvars
  <2> QED
    BY <2>1, Invisible
<1>3. CASE CtorFails
  <2>1. /\ UNCHANGED <<jobs_, fn, done, wpc>> /\ shutdown_'
        /\ mpc # "closed" /\ mpc' # "closed" /\ ~shutdown_
    BY <1>3 DEF CtorFails, IInv, PhaseInv
  <2>2. Phase = "open" /\ Phase' = "closing" /\ UNCHANGED <<jobs_, Active, done>>
    BY <2>1 DEF Phase, Active
  <2> QED
    BY <2>2, MappedActions DEF TQ!Next
<1>4. CASE UnwindNotify
  <2>1. /\ UNCHANGED <<jobs_, fn, done, shutdown_>>
        /\ mpc' = "closed" <=> mpc = "closed"
        /\ \A v \in Workers : wpc'[v] = "running" <=> wpc[v] = "running"
    BY <1>4 DEF UnwindNotify, NotifyAll, poolvars
  <2> QED
    BY <2>1, Invisible
<1>5. CASE UnwindJoin
  <2>1. /\ UNCHANGED <<jobs_, fn, done, shutdown_>>
        /\ mpc' = "closed" <=> mpc = "closed"
        /\ \A v \in Workers : wpc'[v] = "running" <=> wpc[v] = "running"
    BY <1>5 DEF UnwindJoin, poolvars
  <2> QED
    BY <2>1, Invisible
<1>6. ASSUME NEW c \in Callers, NEW j \in Jobs, EnqueueRejects(c, j) PROVE [TQ!Next]_TQ!vars
  <2>1. /\ UNCHANGED <<jobs_, fn, done, shutdown_>>
        /\ mpc' = "closed" <=> mpc = "closed"
        /\ \A v \in Workers : wpc'[v] = "running" <=> wpc[v] = "running"
    BY <1>6 DEF EnqueueRejects, poolvars
  <2> QED
    BY <2>1, Invisible
<1>7. ASSUME NEW c \in Callers, NEW j \in Jobs, Enqueue(c, j) PROVE [TQ!Next]_TQ!vars
  <2>1. /\ jobs_' = Append(jobs_, j)
        /\ UNCHANGED <<fn, done, wpc, shutdown_, mpc>> /\ ~shutdown_
        /\ outcome[j] = "none"
    BY <1>7 DEF Enqueue
  <2>2. runs[j] = 0 /\ j \notin Elements(jobs_)
    BY <2>1 DEF IInv, StartedOnce, JobInv, Elements
  <2>3. j \notin done /\ \A w \in Workers : fn[w] # j
    BY <2>2 DEF PlacesInv
  <2>4. mpc # "closed" /\ Phase = "open" /\ UNCHANGED <<Active, done, Phase>>
    BY <2>1 DEF IInv, PhaseInv, Phase, Active
  <2>5. j \notin Active
    BY <2>3 DEF Active
  <2>6. TQ!Accept(j)
    BY <2>1, <2>2, <2>3, <2>4, <2>5, MappedActions
  <2> QED
    BY <2>6 DEF TQ!Next
<1>8. ASSUME NEW c \in Callers, NEW w \in Workers, SpawnDynamic(c, w) PROVE [TQ!Next]_TQ!vars
  <2>1. /\ UNCHANGED <<jobs_, fn, done, shutdown_>>
        /\ mpc' = "closed" <=> mpc = "closed"
        /\ \A v \in Workers : wpc'[v] = "running" <=> wpc[v] = "running"
    BY <1>8 DEF SpawnDynamic, Reaped, IInv, ThreadInv
  <2> QED
    BY <2>1, Invisible
<1>9. ASSUME NEW c \in Callers, NEW j \in Jobs, SpawnDynamicFails(c, j) PROVE [TQ!Next]_TQ!vars
  <2>1. /\ UNCHANGED <<jobs_, fn, done, shutdown_>>
        /\ mpc' = "closed" <=> mpc = "closed"
        /\ \A v \in Workers : wpc'[v] = "running" <=> wpc[v] = "running"
    BY <1>9 DEF SpawnDynamicFails, Reaped, IInv, ThreadInv
  <2> QED
    BY <2>1, Invisible
<1>10. ASSUME NEW c \in Callers, NotifyOne(c) PROVE [TQ!Next]_TQ!vars
  <2>1. /\ UNCHANGED <<jobs_, fn, done, shutdown_>>
        /\ mpc' = "closed" <=> mpc = "closed"
        /\ \A v \in Workers : wpc'[v] = "running" <=> wpc[v] = "running"
    BY <1>10 DEF NotifyOne, poolvars, IInv, TypeOK
  <2> QED
    BY <2>1, Invisible
<1>11. CASE ShutdownBegins
  <2>1. /\ UNCHANGED <<jobs_, fn, done, wpc>> /\ shutdown_'
        /\ mpc # "closed" /\ mpc' # "closed" /\ ~shutdown_
    BY <1>11 DEF ShutdownBegins, IInv, PhaseInv
  <2>2. Phase = "open" /\ Phase' = "closing" /\ UNCHANGED <<jobs_, Active, done>>
    BY <2>1 DEF Phase, Active
  <2> QED
    BY <2>2, MappedActions DEF TQ!Next
<1>12. CASE ShutdownNotifies
  <2>1. /\ UNCHANGED <<jobs_, fn, done, shutdown_>>
        /\ mpc' = "closed" <=> mpc = "closed"
        /\ \A v \in Workers : wpc'[v] = "running" <=> wpc[v] = "running"
    BY <1>12 DEF ShutdownNotifies, NotifyAll, poolvars
  <2> QED
    BY <2>1, Invisible
<1>13. CASE JoinBase
  <2>1. /\ UNCHANGED <<jobs_, fn, done, shutdown_>>
        /\ mpc' = "closed" <=> mpc = "closed"
        /\ \A v \in Workers : wpc'[v] = "running" <=> wpc[v] = "running"
    BY <1>13 DEF JoinBase, poolvars
  <2> QED
    BY <2>1, Invisible
<1>14. CASE TakeDynamic
  <2>1. /\ UNCHANGED <<jobs_, fn, done, shutdown_>>
        /\ mpc' = "closed" <=> mpc = "closed"
        /\ \A v \in Workers : wpc'[v] = "running" <=> wpc[v] = "running"
    BY <1>14 DEF TakeDynamic
  <2> QED
    BY <2>1, Invisible
<1>15. CASE JoinDynamic
  <2>1. /\ UNCHANGED <<jobs_, fn, done, shutdown_>>
        /\ mpc' = "closed" <=> mpc = "closed"
        /\ \A v \in Workers : wpc'[v] = "running" <=> wpc[v] = "running"
    BY <1>15 DEF JoinDynamic, poolvars
  <2> QED
    BY <2>1, Invisible
<1>16. CASE ShutdownReturns
  <2>1. /\ UNCHANGED <<jobs_, fn, done, shutdown_>> /\ shutdown_
        /\ mpc = "cleanup" /\ mpc' = "closed" /\ wpc' = Reaped
        /\ \A v \in finished_threads_ : wpc[v] = "exited"
    BY <1>16 DEF ShutdownReturns, FinishedExited, IInv, PhaseInv
  <2>2. \A v \in Workers : wpc[v] \in {"unborn", "exited"}
    BY <2>1 DEF IInv, ThreadInv, JoinInv, PhaseInv
  <2>3. Active = {} /\ Active' = {}
    BY <2>1, <2>2 DEF Active, Reaped
  <2>4. threads_ # {}
    BY <2>1, FS_EmptySet DEF IInv, PhaseInv, Constructed
  <2>5. jobs_ = <<>>
    BY <2>1, <2>4 DEF IInv, TypeOK, ThreadInv, JoinInv
  <2>6. Phase = "closing" /\ Phase' = "closed"
    BY <2>1 DEF Phase
  <2> QED
    BY <2>1, <2>3, <2>5, <2>6, MappedActions DEF TQ!Next
<1>17. ASSUME NEW w \in Workers, ProceedAtOnce(w) PROVE [TQ!Next]_TQ!vars
  <2>1. CASE TakeJob(w)
    <3>1. /\ jobs_ # <<>> /\ jobs_' = Tail(jobs_)
          /\ UNCHANGED <<done, shutdown_, mpc>>
          /\ fn'[w] = Head(jobs_) /\ wpc'[w] = "running" /\ wpc[w] # "running"
          /\ \A v \in Workers \ {w} : fn'[v] = fn[v] /\ wpc'[v] = wpc[v]
      BY <1>17, <2>1 DEF ProceedAtOnce, TakeJob, IInv, TypeOK
    <3>2. Active' = Active \cup {Head(jobs_)} /\ Phase' = Phase
      BY <3>1 DEF Active, Phase
    <3>3. TQ!Start
      BY <3>1, <3>2, MappedActions
    <3> QED
      BY <3>3 DEF TQ!Next
  <2>2. CASE LeaveLoop(w)
    <3>1. /\ UNCHANGED <<jobs_, fn, done, shutdown_>>
          /\ mpc' = "closed" <=> mpc = "closed"
          /\ \A v \in Workers : wpc'[v] = "running" <=> wpc[v] = "running"
      BY <1>17, <2>2 DEF ProceedAtOnce, LeaveLoop
    <3> QED
      BY <3>1, Invisible
  <2> QED
    BY <1>17, <2>1, <2>2 DEF ProceedAtOnce
<1>18. ASSUME NEW w \in Workers, BeginWait(w) PROVE [TQ!Next]_TQ!vars
  <2>1. /\ UNCHANGED <<jobs_, fn, done, shutdown_>>
        /\ mpc' = "closed" <=> mpc = "closed"
        /\ \A v \in Workers : wpc'[v] = "running" <=> wpc[v] = "running"
    BY <1>18 DEF BeginWait
  <2> QED
    BY <2>1, Invisible
<1>19. ASSUME NEW w \in Workers, SpuriousWakeup(w) PROVE [TQ!Next]_TQ!vars
  <2>1. /\ UNCHANGED <<jobs_, fn, done, shutdown_>>
        /\ mpc' = "closed" <=> mpc = "closed"
        /\ \A v \in Workers : wpc'[v] = "running" <=> wpc[v] = "running"
    BY <1>19 DEF SpuriousWakeup, poolvars
  <2> QED
    BY <2>1, Invisible
<1>20. ASSUME NEW w \in Workers, IdleTimeout(w) PROVE [TQ!Next]_TQ!vars
  <2>1. /\ UNCHANGED <<jobs_, fn, done, shutdown_>>
        /\ mpc' = "closed" <=> mpc = "closed"
        /\ \A v \in Workers : wpc'[v] = "running" <=> wpc[v] = "running"
    BY <1>20 DEF IdleTimeout, poolvars
  <2> QED
    BY <2>1, Invisible
<1>21. ASSUME NEW w \in Workers, ProceedAfterWait(w) PROVE [TQ!Next]_TQ!vars
  <2>1. CASE TakeJob(w)
    <3>1. /\ jobs_ # <<>> /\ jobs_' = Tail(jobs_)
          /\ UNCHANGED <<done, shutdown_, mpc>>
          /\ fn'[w] = Head(jobs_) /\ wpc'[w] = "running" /\ wpc[w] # "running"
          /\ \A v \in Workers \ {w} : fn'[v] = fn[v] /\ wpc'[v] = wpc[v]
      BY <1>21, <2>1 DEF ProceedAfterWait, TakeJob, IInv, TypeOK
    <3>2. Active' = Active \cup {Head(jobs_)} /\ Phase' = Phase
      BY <3>1 DEF Active, Phase
    <3>3. TQ!Start
      BY <3>1, <3>2, MappedActions
    <3> QED
      BY <3>3 DEF TQ!Next
  <2>2. CASE LeaveLoop(w)
    <3>1. /\ UNCHANGED <<jobs_, fn, done, shutdown_>>
          /\ mpc' = "closed" <=> mpc = "closed"
          /\ \A v \in Workers : wpc'[v] = "running" <=> wpc[v] = "running"
      BY <1>21, <2>2 DEF ProceedAfterWait, LeaveLoop
    <3> QED
      BY <3>1, Invisible
  <2> QED
    BY <1>21, <2>1, <2>2 DEF ProceedAfterWait
<1>22. ASSUME NEW w \in Workers, WaitAgain(w) PROVE [TQ!Next]_TQ!vars
  <2>1. /\ UNCHANGED <<jobs_, fn, done, shutdown_>>
        /\ mpc' = "closed" <=> mpc = "closed"
        /\ \A v \in Workers : wpc'[v] = "running" <=> wpc[v] = "running"
    BY <1>22 DEF WaitAgain, poolvars
  <2> QED
    BY <2>1, Invisible
<1>23. ASSUME NEW w \in Workers, Retire(w) PROVE [TQ!Next]_TQ!vars
  <2>1. /\ UNCHANGED <<jobs_, fn, done, shutdown_>>
        /\ mpc' = "closed" <=> mpc = "closed"
        /\ \A v \in Workers : wpc'[v] = "running" <=> wpc[v] = "running"
    BY <1>23 DEF Retire
  <2> QED
    BY <2>1, Invisible
<1>24. ASSUME NEW w \in Workers, FinishJob(w) PROVE [TQ!Next]_TQ!vars
  <2>1. /\ UNCHANGED <<jobs_, shutdown_, mpc>> /\ done' = done \cup {fn[w]}
        /\ wpc[w] = "running" /\ wpc'[w] = "start" /\ fn[w] \in Jobs
        /\ \A v \in Workers \ {w} : fn'[v] = fn[v] /\ wpc'[v] = wpc[v]
    BY <1>24 DEF FinishJob, poolvars, IInv, TypeOK, RunningHasJob
  <2>2. PICK j \in Jobs : j = fn[w]
    BY <2>1
  <2>3. \A v \in Workers \ {w} : fn[v] # j
    BY <2>1, <2>2 DEF PlacesInv
  <2>4. Active' = Active \ {j} /\ j \in Active /\ Phase' = Phase
    BY <2>1, <2>2, <2>3 DEF Active, Phase
  <2>5. TQ!Finish(j)
    BY <2>1, <2>2, <2>4, MappedActions
  <2> QED
    BY <2>5 DEF TQ!Next
<1>25. ASSUME NEW w \in Workers, Exit(w) PROVE [TQ!Next]_TQ!vars
  <2>1. /\ UNCHANGED <<jobs_, fn, done, shutdown_>>
        /\ mpc' = "closed" <=> mpc = "closed"
        /\ \A v \in Workers : wpc'[v] = "running" <=> wpc[v] = "running"
    BY <1>25 DEF Exit, poolvars
  <2> QED
    BY <2>1, Invisible
<1>26. CASE UNCHANGED vars
  BY <1>26, Invisible DEF vars, poolvars
<1> QED
  BY <1>1, <1>2, <1>3, <1>4, <1>5, <1>6, <1>7, <1>8, <1>9, <1>10, <1>11, <1>12,
     <1>13, <1>14, <1>15, <1>16, <1>17, <1>18, <1>19, <1>20, <1>21, <1>22,
     <1>23, <1>24, <1>25, <1>26
  DEF Next, MainStep, CallStep, WorkStep, Finished

\* With a base thread, the pool is a TaskQueue as the server expects it: a job it
\* accepts is started once and in order, later ones are turned away, and shutdown
\* returns when all have been run.
THEOREM PoolImplementsTaskQueue == BaseCount > 0 => (Spec => ImplementsTaskQueue)
<1> SUFFICES ASSUME BaseCount > 0 PROVE Spec => ImplementsTaskQueue
  OBVIOUS
<1>1. Init => PlacesInv
  BY PoolAssumption DEF Init, PlacesInv
<1>2. Init => TQ!Init
  BY DEF Init, TQ!Init
<1>3. IInv /\ PlacesInv /\ [Next]_vars => [TQ!Next]_TQ!vars
  BY NextMaps
<1> QED
  BY PoolInvariant, NextPlaces, <1>1, <1>2, <1>3, PTL
  DEF Spec, ImplementsTaskQueue, TQ!Spec

-----------------------------------------------------------------------------
(* Forms (Content, Multipart): a form is one long text, and the sender's      *)
(* segments, the bytes on the wire and the parser's buffer are stretches of   *)
(* it, one behind the other.                                                  *)

-----------------------------------------------------------------------------
(* What the segments of a form are                                           *)

Byte == STRING \cup {"r", "n", "-", "b"}
FormItem == [lines : Seq(Byte), content : Seq(Byte)]

\* FlattenSeq is the same for every module that takes it from the library.
LEMMA SameFlat == \A s : M!FlattenSeq(s) = Lists!FlattenSeq(s)
BY DEF M!FlattenSeq, Lists!FlattenSeq

LEMMA TheBytes == "r" \in Byte /\ "n" \in Byte /\ "-" \in Byte /\ "b" \in Byte
  BY DEF Byte

LEMMA LineEndIs ==
    ASSUME NEW x \in Byte
    PROVE  /\ <<x>> \o <<"r", "n">> = <<x, "r", "n">> /\ <<x, "r", "n">> \in Seq(Byte)
           /\ <<"r", "n">> \in Seq(Byte)
<1>1. <<x>> \in Seq(Byte) /\ <<"r","n">> \in Seq(Byte) /\ <<x, "r", "n">> \in Seq(Byte)
  BY TheBytes
<1>2. Len(<<x>>) = 1 /\ Len(<<"r", "n">>) = 2 /\ Len(<<x, "r", "n">>) = 3
  OBVIOUS
<1>3. Len(<<x>> \o <<"r", "n">>) = 3 /\ <<x>> \o <<"r", "n">> \in Seq(Byte)
  BY <1>1, <1>2, ConcatProperties
<1>4. \A i \in 1 .. 3 : (<<x>> \o <<"r", "n">>)[i] = <<x, "r", "n">>[i]
  BY <1>1, <1>2, ConcatProperties
<1> QED
  BY <1>1, <1>2, <1>3, <1>4, SeqEqual, Zenon

\* The boundary, before a part and at the end.
LEMMA BoundaryIs ==
    /\ M!DashBoundaryCrLf = <<"-", "-", "b", "r", "n">>
    /\ <<"-", "-", "b", "r", "n">> \in Seq(Byte)
    /\ M!CrLfDashBoundary = <<"r", "n", "-", "-", "b">>
    /\ <<"r", "n", "-", "-", "b">> \in Seq(Byte)
    /\ M!Dashes \o <<"b">> \o M!Dashes \o M!CrLf = <<"-", "-", "b", "-", "-", "r", "n">>
    /\ <<"-", "-", "b", "-", "-", "r", "n">> \in Seq(Byte)
<1> DEFINE x == <<"-", "-">>
           y == <<"r", "n">>
           z == <<"b">>
<1>1. /\ x \in Seq(Byte) /\ y \in Seq(Byte) /\ z \in Seq(Byte)
      /\ <<"-", "-", "b">> \in Seq(Byte)
      /\ <<"-", "-", "b", "-", "-">> \in Seq(Byte)
      /\ <<"r", "n", "-", "-">> \in Seq(Byte)
      /\ <<"-", "-", "b", "r", "n">> \in Seq(Byte)
      /\ <<"r", "n", "-", "-", "b">> \in Seq(Byte)
      /\ <<"-", "-", "b", "-", "-", "r", "n">> \in Seq(Byte)
  BY TheBytes
<1>2. Len(x) = 2 /\ Len(y) = 2 /\ Len(z) = 1
  OBVIOUS
<1>3. x \o z = <<"-", "-", "b">>
  <2>1. /\ x \o z \in Seq(Byte) /\ Len(x \o z) = 3
        /\ \A i \in 1 .. 3 : (x \o z)[i] = <<"-", "-", "b">>[i]
    BY <1>1, <1>2, ConcatProperties
  <2> QED
    BY <1>1, <2>1, SeqEqual, Zenon
<1>4. <<"-", "-", "b">> \o y = <<"-", "-", "b", "r", "n">>
  <2>1. /\ <<"-", "-", "b">> \o y \in Seq(Byte) /\ Len(<<"-", "-", "b">> \o y) = 5
        /\ \A i \in 1 .. 5 : (<<"-", "-", "b">> \o y)[i] = <<"-", "-", "b", "r", "n">>[i]
    BY <1>1, <1>2, ConcatProperties
  <2> QED
    BY <1>1, <2>1, SeqEqual, Zenon
<1>5. <<"-", "-", "b">> \o x = <<"-", "-", "b", "-", "-">>
  <2>1. /\ <<"-", "-", "b">> \o x \in Seq(Byte) /\ Len(<<"-", "-", "b">> \o x) = 5
        /\ \A i \in 1 .. 5 : (<<"-", "-", "b">> \o x)[i] = <<"-", "-", "b", "-", "-">>[i]
    BY <1>1, <1>2, ConcatProperties
  <2> QED
    BY <1>1, <2>1, SeqEqual, Zenon
<1>6. <<"-", "-", "b", "-", "-">> \o y = <<"-", "-", "b", "-", "-", "r", "n">>
  <2>1. /\ <<"-", "-", "b", "-", "-">> \o y \in Seq(Byte)
        /\ Len(<<"-", "-", "b", "-", "-">> \o y) = 7
        /\ \A i \in 1 .. 7 : (<<"-", "-", "b", "-", "-">> \o y)[i]
                              = <<"-", "-", "b", "-", "-", "r", "n">>[i]
    BY <1>1, <1>2, ConcatProperties
  <2> QED
    BY <1>1, <2>1, SeqEqual, Zenon
<1>7. y \o x = <<"r", "n", "-", "-">>
  <2>1. /\ y \o x \in Seq(Byte) /\ Len(y \o x) = 4
        /\ \A i \in 1 .. 4 : (y \o x)[i] = <<"r", "n", "-", "-">>[i]
    BY <1>1, <1>2, ConcatProperties
  <2> QED
    BY <1>1, <2>1, SeqEqual, Zenon
<1>8. <<"r", "n", "-", "-">> \o z = <<"r", "n", "-", "-", "b">>
  <2>1. /\ <<"r", "n", "-", "-">> \o z \in Seq(Byte) /\ Len(<<"r", "n", "-", "-">> \o z) = 5
        /\ \A i \in 1 .. 5 : (<<"r", "n", "-", "-">> \o z)[i] = <<"r", "n", "-", "-", "b">>[i]
    BY <1>1, <1>2, ConcatProperties
  <2> QED
    BY <1>1, <2>1, SeqEqual, Zenon
<1>9. M!DashBoundaryCrLf = x \o z \o y /\ M!CrLfDashBoundary = y \o x \o z
  BY DEF M!DashBoundaryCrLf, M!CrLfDashBoundary, M!Dashes, M!CrLf
<1>10. M!Dashes \o <<"b">> \o M!Dashes \o M!CrLf = x \o z \o x \o y
  BY DEF M!Dashes, M!CrLf
<1> HIDE DEF x, y, z
<1> QED
  BY <1>1, <1>3, <1>4, <1>5, <1>6, <1>7, <1>8, <1>9, <1>10, Zenon

LEMMA FormLinesAre ==
    ASSUME NEW lines \in Seq(Byte)
    PROVE  /\ M!WithLineEnds(lines) \in Seq(Byte)
           /\ Len(M!WithLineEnds(lines)) = 3 * Len(lines)
           /\ \A i \in 1 .. Len(lines) :
                  /\ M!WithLineEnds(lines)[3 * i - 2] = lines[i]
                  /\ M!WithLineEnds(lines)[3 * i - 1] = "r"
                  /\ M!WithLineEnds(lines)[3 * i] = "n"
<1> DEFINE s == [i \in DOMAIN lines |-> <<lines[i]>> \o M!CrLf]
<1>1. Len(lines) \in Nat /\ DOMAIN lines = 1 .. Len(lines) /\ \A i \in 1 .. Len(lines) : lines[i] \in Byte
  BY LenProperties, ElementOfSeq
<1>2. \A x \in Byte : <<x>> \o M!CrLf = <<x, "r", "n">> /\ <<x, "r", "n">> \in Seq(Byte)
  BY LineEndIs, Zenon DEF M!CrLf
<1>3. \A i \in 1 .. Len(lines) : s[i] = <<lines[i], "r", "n">> /\ s[i] \in Seq(Byte)
  BY <1>1, <1>2, Zenon
<1>4. s \in Seq(Seq(Byte)) /\ Len(s) = Len(lines)
  <2>1. s = [i \in 1 .. Len(lines) |-> s[i]]
    BY <1>1
  <2> HIDE DEF s
  <2> QED
    BY <1>1, <1>3, <2>1, IsASeq
<1>5. M!WithLineEnds(lines) = Lists!FlattenSeq(s)
  BY SameFlat DEF M!WithLineEnds
<1> HIDE DEF s
<1>6. \A i \in 1 .. Len(lines) :
          Len(s[i]) = 3 /\ s[i][1] = lines[i] /\ s[i][2] = "r" /\ s[i][3] = "n"
  <2>1. ASSUME NEW i \in 1 .. Len(lines)
        PROVE  Len(s[i]) = 3 /\ s[i][1] = lines[i] /\ s[i][2] = "r" /\ s[i][3] = "n"
    <3>1. s[i] = <<lines[i], "r", "n">>
      BY <1>3
    <3> QED
      BY <3>1
  <2> QED
    BY <2>1
<1>7. /\ Lists!FlattenSeq(s) \in Seq(Byte) /\ Len(Lists!FlattenSeq(s)) = 3 * Len(s)
      /\ \A i \in 1 .. Len(s) :
             /\ Lists!FlattenSeq(s)[3 * i - 2] = s[i][1]
             /\ Lists!FlattenSeq(s)[3 * i - 1] = s[i][2]
             /\ Lists!FlattenSeq(s)[3 * i] = s[i][3]
  <2>1. \A i \in 1 .. Len(s) : Len(s[i]) = 3
    BY <1>4, <1>6
  <2> QED
    BY <1>4, <2>1, FlatThrees
<1>8. \A i \in 1 .. Len(lines) :
          /\ Lists!FlattenSeq(s)[3 * i - 2] = lines[i]
          /\ Lists!FlattenSeq(s)[3 * i - 1] = "r"
          /\ Lists!FlattenSeq(s)[3 * i] = "n"
  BY <1>4, <1>6, <1>7, Zenon
<1> QED
  BY <1>4, <1>5, <1>7, <1>8

LEMMA ItemBeginIs ==
    ASSUME NEW item \in FormItem
    PROVE  /\ M!ItemBegin(item) \in Seq(Byte)
           /\ Len(M!ItemBegin(item)) = 7 + 3 * Len(item.lines)
           /\ M!ItemBegin(item)[1] = "-" /\ M!ItemBegin(item)[2] = "-"
           /\ M!ItemBegin(item)[3] = "b"
           /\ M!ItemBegin(item)[4] = "r" /\ M!ItemBegin(item)[5] = "n"
           /\ \A i \in 1 .. Len(item.lines) :
                  /\ M!ItemBegin(item)[3 + 3 * i] = item.lines[i]
                  /\ M!ItemBegin(item)[4 + 3 * i] = "r"
                  /\ M!ItemBegin(item)[5 + 3 * i] = "n"
           /\ M!ItemBegin(item)[6 + 3 * Len(item.lines)] = "r"
           /\ M!ItemBegin(item)[7 + 3 * Len(item.lines)] = "n"
<1> DEFINE l == item.lines
           d == M!DashBoundaryCrLf
           m == M!WithLineEnds(l)
           n == Len(l)
<1>1. l \in Seq(Byte) /\ n \in Nat
  BY LenProperties DEF FormItem
<1>2. /\ m \in Seq(Byte) /\ Len(m) = 3 * n
      /\ \A i \in 1 .. n : m[3 * i - 2] = l[i] /\ m[3 * i - 1] = "r" /\ m[3 * i] = "n"
  BY <1>1, FormLinesAre, Zenon
<1>3. d = <<"-", "-", "b", "r", "n">>
  BY BoundaryIs
<1>4. M!ItemBegin(item) = (d \o m) \o <<"r", "n">>
  BY DEF M!ItemBegin, M!CrLf
<1> HIDE DEF d, m, n, l
<1>5. d \in Seq(Byte) /\ Len(d) = 5 /\ <<"r", "n">> \in Seq(Byte) /\ Len(<<"r", "n">>) = 2
  BY <1>3, TheBytes, BoundaryIs
<1>6. /\ d \o m \in Seq(Byte) /\ Len(d \o m) = 5 + 3 * n
      /\ \A i \in 1 .. 5 + 3 * n : (d \o m)[i] = IF i <= 5 THEN d[i] ELSE m[i - 5]
  <2>1. /\ d \o m \in Seq(Byte) /\ Len(d \o m) = Len(d) + Len(m)
        /\ \A i \in 1 .. Len(d) + Len(m) : (d \o m)[i] = IF i <= Len(d) THEN d[i] ELSE m[i - Len(d)]
    <3>1. d \in Seq(Byte) /\ m \in Seq(Byte)
      BY <1>2, <1>5
    <3> QED
      BY <3>1, ConcatProperties
  <2> QED
    BY <1>2, <1>5, <2>1
<1>7. /\ M!ItemBegin(item) \in Seq(Byte) /\ Len(M!ItemBegin(item)) = 7 + 3 * n
      /\ \A i \in 1 .. 7 + 3 * n :
             M!ItemBegin(item)[i] = IF i <= 5 + 3 * n THEN (d \o m)[i] ELSE <<"r", "n">>[i - (5 + 3 * n)]
  <2>1. Len(d \o m) + Len(<<"r", "n">>) = 7 + 3 * n
    BY <1>1, <1>5, <1>6
  <2> QED
    BY <1>4, <1>5, <1>6, <2>1, ConcatProperties
<1>8. \A i \in 1 .. 5 : M!ItemBegin(item)[i] = d[i]
  <2>1. ASSUME NEW i \in 1 .. 5 PROVE M!ItemBegin(item)[i] = d[i]
    <3>1. i \in 1 .. 7 + 3 * n /\ i <= 5 + 3 * n /\ i \in 1 .. 5 + 3 * n /\ i <= 5
      BY <1>1
    <3>2. M!ItemBegin(item)[i] = (d \o m)[i]
      BY <1>7, <3>1, Zenon
    <3>3. (d \o m)[i] = d[i]
      BY <1>6, <3>1
    <3> QED
      BY <3>2, <3>3
  <2> QED
    BY <2>1
<1>9. \A i \in 1 .. 3 * n : M!ItemBegin(item)[5 + i] = m[i]
  <2>1. \A i \in 1 .. 3 * n : /\ 5 + i \in 1 .. 7 + 3 * n /\ 5 + i <= 5 + 3 * n /\ 5 + i \in 1 .. 5 + 3 * n
                              /\ ~(5 + i <= 5) /\ (5 + i) - 5 = i
    BY <1>1
  <2> QED
    BY <1>6, <1>7, <2>1, Zenon
<1>10. ASSUME NEW i \in 1 .. n
       PROVE  /\ M!ItemBegin(item)[3 + 3 * i] = l[i]
              /\ M!ItemBegin(item)[4 + 3 * i] = "r"
              /\ M!ItemBegin(item)[5 + 3 * i] = "n"
  <2>1. /\ 3 * i - 2 \in 1 .. 3 * n /\ 3 * i - 1 \in 1 .. 3 * n /\ 3 * i \in 1 .. 3 * n
        /\ 5 + (3 * i - 2) = 3 + 3 * i /\ 5 + (3 * i - 1) = 4 + 3 * i
    BY <1>1
  <2> QED
    BY <1>2, <1>9, <2>1
<1>11. M!ItemBegin(item)[6 + 3 * n] = "r" /\ M!ItemBegin(item)[7 + 3 * n] = "n"
  <2>1. /\ 6 + 3 * n \in 1 .. 7 + 3 * n /\ ~(6 + 3 * n <= 5 + 3 * n) /\ 6 + 3 * n - (5 + 3 * n) = 1
        /\ 7 + 3 * n \in 1 .. 7 + 3 * n /\ ~(7 + 3 * n <= 5 + 3 * n) /\ 7 + 3 * n - (5 + 3 * n) = 2
    BY <1>1
  <2>2. /\ M!ItemBegin(item)[6 + 3 * n] = <<"r", "n">>[1]
        /\ M!ItemBegin(item)[7 + 3 * n] = <<"r", "n">>[2]
    <3> DEFINE k == 6 + 3 * n
               e == 7 + 3 * n
               f == 5 + 3 * n
    <3>1. /\ k \in 1 .. e /\ ~(k <= f) /\ e \in 1 .. e /\ ~(e <= f)
          /\ k - f = 1 /\ e - f = 2
      BY <1>1
    <3>2. \A i \in 1 .. e : M!ItemBegin(item)[i] = IF i <= f THEN (d \o m)[i] ELSE <<"r", "n">>[i - f]
      BY <1>7, Zenon
    <3> HIDE DEF k, e, f
    <3>3. /\ M!ItemBegin(item)[k] = <<"r", "n">>[k - f]
          /\ M!ItemBegin(item)[e] = <<"r", "n">>[e - f]
      BY <3>1, <3>2, Zenon
    <3>4. /\ M!ItemBegin(item)[k] = <<"r", "n">>[1]
          /\ M!ItemBegin(item)[e] = <<"r", "n">>[2]
      BY <3>1, <3>3
    <3> QED
      BY <3>4 DEF k, e
  <2>3. <<"r", "n">>[1] = "r" /\ <<"r", "n">>[2] = "n"
    OBVIOUS
  <2> QED
    BY <2>1, <2>2, <2>3
<1> QED
  BY <1>3, <1>7, <1>8, <1>10, <1>11 DEF n, l

LEMMA SegmentsAre ==
    ASSUME NEW all \in Seq(FormItem)
    PROVE  /\ M!Segments(all, M!CrLf) \in Seq(Seq(Byte))
           /\ Len(M!Segments(all, M!CrLf)) = 3 * Len(all) + 1
           /\ \A k \in 1 .. Len(all) :
                  /\ M!Segments(all, M!CrLf)[3 * k - 2] = M!ItemBegin(all[k])
                  /\ M!Segments(all, M!CrLf)[3 * k - 1] = all[k].content
                  /\ M!Segments(all, M!CrLf)[3 * k] = <<"r", "n">>
           /\ M!Segments(all, M!CrLf)[3 * Len(all) + 1] = <<"-", "-", "b", "-", "-", "r", "n">>
<1> DEFINE n == Len(all)
           three == [i \in DOMAIN all |-> <<M!ItemBegin(all[i]), all[i].content, M!CrLf>>]
           f == Lists!FlattenSeq(three)
           z == <<"-", "-", "b", "-", "-", "r", "n">>
           g == M!Segments(all, M!CrLf)
<1>1. n \in Nat /\ DOMAIN all = 1 .. n /\ \A i \in 1 .. n : all[i] \in FormItem
  BY LenProperties, ElementOfSeq
<1>2. ASSUME NEW i \in 1 .. n
      PROVE  /\ three[i] = <<M!ItemBegin(all[i]), all[i].content, <<"r", "n">>>>
             /\ M!ItemBegin(all[i]) \in Seq(Byte) /\ all[i].content \in Seq(Byte)
             /\ <<"r", "n">> \in Seq(Byte)
  <2>1. M!ItemBegin(all[i]) \in Seq(Byte)
    BY <1>1, ItemBeginIs
  <2>2. all[i].content \in Seq(Byte)
    BY <1>1 DEF FormItem
  <2>3. <<"r", "n">> \in Seq(Byte)
    BY TheBytes
  <2>4. three[i] = <<M!ItemBegin(all[i]), all[i].content, <<"r", "n">>>>
    BY <1>1 DEF M!CrLf
  <2> QED
    BY <2>1, <2>2, <2>3, <2>4
<1>3. \A i \in 1 .. n : three[i] \in Seq(Seq(Byte)) /\ Len(three[i]) = 3
  <2> HIDE DEF three
  <2>1. ASSUME NEW X, NEW a \in X, NEW b \in X, NEW c \in X
        PROVE  <<a, b, c>> \in Seq(X) /\ Len(<<a, b, c>>) = 3
    OBVIOUS
  <2>2. ASSUME NEW i \in 1 .. n PROVE three[i] \in Seq(Seq(Byte)) /\ Len(three[i]) = 3
    <3> DEFINE a == M!ItemBegin(all[i])
               b == all[i].content
               c == <<"r", "n">>
    <3>1. a \in Seq(Byte) /\ b \in Seq(Byte) /\ c \in Seq(Byte) /\ three[i] = <<a, b, c>>
      BY <1>2
    <3> HIDE DEF a, b, c
    <3>2. <<a, b, c>> \in Seq(Seq(Byte)) /\ Len(<<a, b, c>>) = 3
      BY <2>1, <3>1
    <3> QED
      BY <3>1, <3>2
  <2> QED
    BY <2>2
<1>4. three \in Seq(Seq(Seq(Byte))) /\ Len(three) = n
  <2>1. three = [i \in 1 .. n |-> three[i]]
    BY <1>1
  <2> HIDE DEF three
  <2> QED
    BY <1>1, <1>3, <2>1, IsASeq
<1>5. g = f \o <<z>>
  BY BoundaryIs, SameFlat, Zenon DEF M!Segments
<1> HIDE DEF three, g, n
<1>6. /\ f \in Seq(Seq(Byte)) /\ Len(f) = 3 * n
      /\ \A i \in 1 .. n :
             f[3 * i - 2] = three[i][1] /\ f[3 * i - 1] = three[i][2] /\ f[3 * i] = three[i][3]
  <2>1. \A i \in 1 .. Len(three) : Len(three[i]) = 3
    BY <1>3, <1>4
  <2>2. /\ f \in Seq(Seq(Byte)) /\ Len(f) = 3 * Len(three)
        /\ \A i \in 1 .. Len(three) :
             f[3 * i - 2] = three[i][1] /\ f[3 * i - 1] = three[i][2] /\ f[3 * i] = three[i][3]
    BY <1>4, <2>1, FlatThrees, Zenon
  <2> QED
    BY <1>4, <2>2
<1>7. z \in Seq(Byte) /\ <<z>> \in Seq(Seq(Byte)) /\ Len(<<z>>) = 1 /\ <<z>>[1] = z
  <2>1. z \in Seq(Byte)
    BY BoundaryIs
  <2> HIDE DEF z
  <2> QED
    BY <2>1
<1> HIDE DEF f, z
<1>8. /\ g \in Seq(Seq(Byte)) /\ Len(g) = 3 * n + 1
      /\ \A i \in 1 .. 3 * n : g[i] = f[i]
      /\ g[3 * n + 1] = z
  <2>1. /\ g \in Seq(Seq(Byte)) /\ Len(g) = Len(f) + Len(<<z>>)
        /\ \A i \in 1 .. Len(f) + Len(<<z>>) : g[i] = IF i <= Len(f) THEN f[i] ELSE <<z>>[i - Len(f)]
    BY <1>5, <1>6, <1>7, ConcatProperties
  <2>2. \A i \in 1 .. 3 * n : g[i] = f[i]
    BY <1>1, <1>6, <1>7, <2>1
  <2>3. g[3 * n + 1] = <<z>>[1]
    BY <1>1, <1>6, <1>7, <2>1
  <2> QED
    BY <1>6, <1>7, <2>1, <2>2, <2>3
<1>9. ASSUME NEW i \in 1 .. n
      PROVE  g[3 * i - 2] = M!ItemBegin(all[i]) /\ g[3 * i - 1] = all[i].content /\ g[3 * i] = <<"r", "n">>
  <2>1. 3 * i - 2 \in 1 .. 3 * n /\ 3 * i - 1 \in 1 .. 3 * n /\ 3 * i \in 1 .. 3 * n
    BY <1>1
  <2>2. g[3 * i - 2] = three[i][1] /\ g[3 * i - 1] = three[i][2] /\ g[3 * i] = three[i][3]
    BY <1>6, <1>8, <2>1
  <2>3. three[i] = <<M!ItemBegin(all[i]), all[i].content, <<"r", "n">>>>
    BY <1>2
  <2> QED
    BY <2>2, <2>3
<1> QED
  BY <1>8, <1>9, Zenon DEF g, n, z

-----------------------------------------------------------------------------
(* The text of a form: B[k] bytes precede its k-th part, C[k] the content of *)
(* that, and B of one more the last boundary.                                *)

Text(w, B, C) ==
    /\ w \in Seq(Byte) /\ B \in [1 .. Len(items) + 1 -> Nat] /\ C \in [1 .. Len(items) -> Nat]
    /\ \A i \in 1 .. B[1] : w[i] # "b"
    /\ B[Len(items) + 1] + 7 = Len(w)
    /\ Stretch(<<"-", "-", "b", "-", "-", "r", "n">>, w, B[Len(items) + 1], Len(w))
    /\ \A k \in 1 .. Len(items) :
           /\ C[k] = B[k] + 7 + 3 * Len(items[k].lines)
           /\ B[k + 1] = C[k] + Len(items[k].content) + 2
           /\ Stretch(M!ItemBegin(items[k]), w, B[k], C[k])
           /\ Stretch(items[k].content, w, C[k], C[k] + Len(items[k].content))
           /\ Stretch(<<"r", "n">>, w, C[k] + Len(items[k].content), B[k + 1])
    /\ \A m \in 0 .. Len(items) :
           Stretch(Flat(M!Segments(items, epilogue), 3 * m), w, B[1], B[m + 1])

\* What a client may put in a form (MultipartAssumption).
FormGiven ==
    /\ items \in Seq(FormItem) /\ epilogue = M!CrLf
    /\ \A k \in 1 .. Len(items) :
           /\ \A j \in 1 .. Len(items[k].lines) : items[k].lines[j] # "r"
           /\ \A j \in 1 .. Len(items[k].content) : items[k].content[j] # "b"

LEMMA TextExists ==
    ASSUME FormGiven, NEW pre \in Seq(Byte), \A i \in 1 .. Len(pre) : pre[i] # "b"
    PROVE  \E w, B, C, o :
               /\ Text(w, B, C)
               /\ Strung(M!Segments(items, epilogue), w, o)
               /\ o[1] = Len(pre) /\ o[3 * Len(items) + 2] = Len(w)
               /\ B[1] = Len(pre) /\ Stretch(pre, w, 0, Len(pre))
<1> DEFINE n == Len(items)
           g == M!Segments(items, epilogue)
           u == Lists!FlattenSeq(g)
           w == pre \o u
<1>1. /\ n \in Nat /\ items \in Seq(FormItem) /\ Len(pre) \in Nat
      /\ \A k \in 1 .. n : items[k] \in FormItem
  BY LenProperties, ElementOfSeq DEF FormGiven
<1>2. /\ g \in Seq(Seq(Byte)) /\ Len(g) = 3 * n + 1
      /\ \A k \in 1 .. n : /\ g[3 * k - 2] = M!ItemBegin(items[k])
                           /\ g[3 * k - 1] = items[k].content
                           /\ g[3 * k] = <<"r", "n">>
      /\ g[3 * n + 1] = <<"-", "-", "b", "-", "-", "r", "n">>
  BY SegmentsAre, Zenon DEF FormGiven
<1> HIDE DEF g
<1>3. u \in Seq(Byte) /\ Len(u) \in Nat
  <2>1. Len(g) \in 0 .. Len(g)
    BY <1>1, <1>2
  <2> QED
    BY <1>2, <2>1, FlatSteps, LenProperties, Zenon
<1>4. PICK f : Strung(g, u, f) /\ f[1] = 0 /\ f[Len(g) + 1] = Len(u)
  BY <1>2, FlatStrung, Zenon
<1> HIDE DEF u
<1>5. w \in Seq(Byte) /\ Len(w) = Len(pre) + Len(u)
  BY <1>3, ConcatProperties
<1>6. /\ f \in [1 .. 3 * n + 2 -> Nat]
      /\ \A i \in 1 .. 3 * n + 1 : Stretch(g[i], u, f[i], f[i + 1])
  BY <1>1, <1>2, <1>4 DEF Strung
<1> DEFINE o == [i \in 1 .. 3 * n + 2 |-> Len(pre) + f[i]]
           B == [k \in 1 .. n + 1 |-> o[3 * k - 2]]
           C == [k \in 1 .. n |-> o[3 * k - 1]]
<1>7. o \in [1 .. 3 * n + 2 -> Nat]
  BY <1>1, <1>6
<1>8. \A i \in 1 .. 3 * n + 1 : Stretch(g[i], w, o[i], o[i + 1])
  <2>1. ASSUME NEW i \in 1 .. 3 * n + 1 PROVE Stretch(g[i], w, o[i], o[i + 1])
    <3>1. Stretch(g[i], w, Len(pre) + f[i], Len(pre) + f[i + 1])
      BY <1>3, <1>6, StretchShift
    <3>2. o[i] = Len(pre) + f[i] /\ o[i + 1] = Len(pre) + f[i + 1]
      BY <1>1
    <3> QED
      BY <3>1, <3>2
  <2> QED
    BY <2>1, Zenon
<1>9. Strung(g, w, o)
  <2>1. Len(g) + 1 = 3 * n + 2
    BY <1>1, <1>2
  <2> HIDE DEF o
  <2> QED
    BY <1>2, <1>7, <1>8, <2>1, Zenon DEF Strung
<1>10. o[1] = Len(pre) /\ o[3 * n + 2] = Len(w)
  <2>1. 1 \in 1 .. 3 * n + 2 /\ 3 * n + 2 \in 1 .. 3 * n + 2 /\ Len(g) + 1 = 3 * n + 2
    BY <1>1, <1>2
  <2>2. o[1] = Len(pre) + f[1] /\ o[3 * n + 2] = Len(pre) + f[3 * n + 2]
    BY <2>1
  <2>3. f[1] = 0 /\ f[3 * n + 2] = Len(u)
    BY <1>4, <2>1
  <2> QED
    BY <1>1, <1>5, <2>2, <2>3
<1>11. Stretch(pre, w, 0, Len(pre))
  <2>1. \A i \in 1 .. Len(pre) : w[i] = pre[i]
    BY <1>1, <1>3, ConcatProperties
  <2> QED
    BY <1>1, <1>3, <1>5, <2>1 DEF Stretch
<1>12. /\ B \in [1 .. n + 1 -> Nat] /\ C \in [1 .. n -> Nat]
       /\ \A k \in 1 .. n + 1 : B[k] = o[3 * k - 2]
       /\ \A k \in 1 .. n : C[k] = o[3 * k - 1]
  <2>1. \A k \in 1 .. n + 1 : 3 * k - 2 \in 1 .. 3 * n + 2
    BY <1>1
  <2>2. \A k \in 1 .. n : 3 * k - 1 \in 1 .. 3 * n + 2
    BY <1>1
  <2> HIDE DEF o
  <2> QED
    BY <1>7, <2>1, <2>2, Zenon
<1> HIDE DEF o, B, C, w
<1>13. ASSUME NEW k \in 1 .. n
       PROVE  /\ C[k] = B[k] + 7 + 3 * Len(items[k].lines)
              /\ B[k + 1] = C[k] + Len(items[k].content) + 2
              /\ Stretch(M!ItemBegin(items[k]), w, B[k], C[k])
              /\ Stretch(items[k].content, w, C[k], C[k] + Len(items[k].content))
              /\ Stretch(<<"r", "n">>, w, C[k] + Len(items[k].content), B[k + 1])
  <2>1. /\ 3 * k - 2 \in 1 .. 3 * n + 1 /\ (3 * k - 2) + 1 = 3 * k - 1
        /\ 3 * k - 1 \in 1 .. 3 * n + 1 /\ (3 * k - 1) + 1 = 3 * k
        /\ 3 * k \in 1 .. 3 * n + 1 /\ 3 * k + 1 = 3 * (k + 1) - 2
        /\ k \in 1 .. n + 1 /\ k + 1 \in 1 .. n + 1
    BY <1>1
  <2>2. B[k] = o[3 * k - 2] /\ C[k] = o[3 * k - 1] /\ B[k + 1] = o[3 * k + 1]
    BY <1>12, <2>1
  <2>3. /\ Stretch(g[3 * k - 2], w, o[3 * k - 2], o[3 * k - 1])
        /\ Stretch(g[3 * k - 1], w, o[3 * k - 1], o[3 * k])
        /\ Stretch(g[3 * k], w, o[3 * k], o[3 * k + 1])
    BY <1>8, <2>1
  <2>4. /\ Stretch(M!ItemBegin(items[k]), w, B[k], C[k])
        /\ Stretch(items[k].content, w, C[k], o[3 * k])
        /\ Stretch(<<"r", "n">>, w, o[3 * k], B[k + 1])
    BY <1>2, <2>2, <2>3, Zenon
  <2>5. /\ Len(M!ItemBegin(items[k])) = 7 + 3 * Len(items[k].lines)
        /\ Len(items[k].lines) \in Nat /\ Len(items[k].content) \in Nat
    BY <1>1, ItemBeginIs, LenProperties, Zenon DEF FormItem
  <2>6. B[k] \in Nat /\ C[k] \in Nat /\ o[3 * k] \in Nat /\ B[k + 1] \in Nat
    BY <2>4 DEF Stretch
  <2>7. C[k] = B[k] + 7 + 3 * Len(items[k].lines)
    <3>1. 7 + 3 * Len(items[k].lines) = C[k] - B[k]
      BY <2>4, <2>5, Zenon DEF Stretch
    <3>2. \A a, c, l \in Nat : 7 + 3 * l = c - a => c = a + 7 + 3 * l
      OBVIOUS
    <3> QED
      BY <2>5, <2>6, <3>1, <3>2, Zenon
  <2>8. o[3 * k] = C[k] + Len(items[k].content)
    <3>1. Len(items[k].content) = o[3 * k] - C[k]
      BY <2>4 DEF Stretch
    <3> QED
      BY <2>5, <2>6, <3>1
  <2>9. B[k + 1] = o[3 * k] + 2
    <3>1. Len(<<"r", "n">>) = B[k + 1] - o[3 * k]
      BY <2>4 DEF Stretch
    <3>2. B[k + 1] - o[3 * k] = 2
      BY <3>1
    <3> QED
      BY <2>6, <3>2
  <2>10. B[k + 1] = C[k] + Len(items[k].content) + 2
    BY <2>8, <2>9
  <2> QED
    BY <2>4, <2>7, <2>8, <2>10
<1>14. Stretch(<<"-", "-", "b", "-", "-", "r", "n">>, w, B[n + 1], Len(w)) /\ B[n + 1] + 7 = Len(w)
  <2>1. /\ 3 * n + 1 \in 1 .. 3 * n + 1 /\ (3 * n + 1) + 1 = 3 * n + 2
        /\ n + 1 \in 1 .. n + 1 /\ 3 * (n + 1) - 2 = 3 * n + 1
    BY <1>1
  <2>2. B[n + 1] = o[3 * n + 1]
    BY <1>12, <2>1
  <2>3. Stretch(g[3 * n + 1], w, o[3 * n + 1], o[3 * n + 2])
    BY <1>8, <2>1
  <2>4. Stretch(<<"-", "-", "b", "-", "-", "r", "n">>, w, B[n + 1], Len(w))
    BY <1>2, <1>10, <2>2, <2>3
  <2>5. /\ Len(<<"-", "-", "b", "-", "-", "r", "n">>) = Len(w) - B[n + 1]
        /\ B[n + 1] \in Nat /\ Len(w) \in Nat
    BY <2>4 DEF Stretch
  <2>6. Len(w) - B[n + 1] = 7
    BY <2>5
  <2> QED
    BY <2>4, <2>5, <2>6
<1>15. ASSUME NEW m \in 0 .. n PROVE Stretch(Flat(g, 3 * m), w, B[1], B[m + 1])
  <2>1. /\ 3 * m \in 0 .. Len(g) /\ 3 * (m + 1) - 2 = 3 * m + 1 /\ m + 1 \in 1 .. n + 1
        /\ 1 \in 1 .. n + 1 /\ 3 * 1 - 2 = 1 /\ Len(g) # 0
    BY <1>1, <1>2
  <2>2. Stretch(Flat(g, 3 * m), w, o[1], o[3 * m + 1])
    BY <1>2, <1>5, <1>9, <2>1, FlatStretch, Zenon DEF w
  <2> QED
    BY <1>12, <2>1, <2>2, Zenon
<1>16. B[1] = Len(pre)
  BY <1>1, <1>10, <1>12
<1>17. \A i \in 1 .. B[1] : w[i] # "b"
  <2>1. \A i \in 1 .. Len(pre) : pre[i] = w[0 + i]
    BY <1>11 DEF Stretch
  <2> QED
    BY <1>16, <2>1
<1>18. w \in Seq(Byte)
  BY <1>5 DEF w
<1>19. Text(w, B, C)
  BY <1>12, <1>13, <1>14, <1>15, <1>17, <1>18, Zenon DEF Text, g
<1> QED
  BY <1>9, <1>10, <1>11, <1>16, <1>19 DEF g

-----------------------------------------------------------------------------
(* buf_find                                                                  *)

Occurs(s, pat, i) == i + Len(pat) <= Len(s) /\ \A j \in 1 .. Len(pat) : s[i + j] = pat[j]

LEMMA FindIs ==
    ASSUME buf \in Seq(Byte), NEW pat \in Seq(Byte), Len(pat) > 0
    PROVE  /\ \A i \in Nat : Occurs(buf, pat, i) /\ (\A j \in 0 .. i - 1 : ~Occurs(buf, pat, j))
                            => M!Found(pat) /\ M!Find(pat) = i
           /\ (\A i \in Nat : ~Occurs(buf, pat, i)) => ~M!Found(pat)
<1> DEFINE at(i) == i + Len(pat) <= Len(buf) /\ SubSeq(buf, i + 1, i + Len(pat)) = pat
           D == 0 .. Len(buf)
           first(i) == at(i) /\ \A j \in 0 .. (i - 1) : ~at(j)
<1>1. Len(buf) \in Nat /\ Len(pat) \in Nat
  BY LenProperties
<1>2. ASSUME NEW i \in Nat PROVE at(i) <=> Occurs(buf, pat, i)
  <2>1. CASE i + Len(pat) <= Len(buf)
    <3> DEFINE s == SubSeq(buf, i + 1, i + Len(pat))
    <3>1. /\ s \in Seq(Byte) /\ Len(s) = Len(pat)
          /\ \A j \in 1 .. Len(pat) : s[j] = buf[i + j]
      <4>1. i + 1 \in 1 .. Len(buf) + 1 /\ i + Len(pat) \in i .. Len(buf) /\ (i + Len(pat)) - (i + 1) + 1 = Len(pat)
        BY <1>1, <2>1
      <4>2. s \in Seq(Byte)
        BY <1>1, <2>1, <4>1
      <4>3. Len(s) = Len(pat)
        BY <1>1, <2>1, <4>1
      <4>4. ASSUME NEW j \in 1 .. Len(pat) PROVE s[j] = buf[i + j]
        <5>1. j \in 1 .. (i + Len(pat)) - (i + 1) + 1 /\ (i + 1) + j - 1 = i + j
          BY <1>1, <4>1
        <5> QED
          BY <1>1, <2>1, <4>1, <5>1
      <4> QED
        BY <4>2, <4>3, <4>4
    <3> HIDE DEF s
    <3>2. s = pat <=> \A j \in 1 .. Len(pat) : s[j] = pat[j]
      BY <3>1, SeqEqual
    <3>3. (\A j \in 1 .. Len(pat) : s[j] = pat[j]) <=> \A j \in 1 .. Len(pat) : buf[i + j] = pat[j]
      BY <3>1
    <3>4. at(i) <=> s = pat
      BY <2>1 DEF s
    <3>5. Occurs(buf, pat, i) <=> \A j \in 1 .. Len(pat) : buf[i + j] = pat[j]
      BY <2>1, Zenon DEF Occurs
    <3> QED
      BY <3>2, <3>3, <3>4, <3>5
  <2>2. CASE ~(i + Len(pat) <= Len(buf))
    BY <2>2 DEF Occurs
  <2> QED
    BY <2>1, <2>2
<1>3. M!Find(pat) = IF \E i \in D : at(i) THEN CHOOSE i \in D : first(i) ELSE Len(buf)
  BY DEF M!Find
<1>4. \A i \in Nat : at(i) => i \in D /\ i < Len(buf)
  BY <1>1
<1>5. ASSUME NEW i \in Nat, Occurs(buf, pat, i), \A j \in 0 .. i - 1 : ~Occurs(buf, pat, j)
      PROVE  M!Found(pat) /\ M!Find(pat) = i
  <2>1. at(i) /\ i \in D /\ i < Len(buf)
    BY <1>2, <1>4, <1>5
  <2>2. \A j \in 0 .. i - 1 : ~at(j)
    <3>1. \A j \in 0 .. i - 1 : j \in Nat
      OBVIOUS
    <3> HIDE DEF at
    <3> QED
      BY <1>2, <1>5, <3>1
  <2> HIDE DEF at, D
  <2>3. \A k \in D : first(k) => k = i
    <3>1. \A k \in D : k \in Nat
      BY DEF D
    <3>2. ASSUME NEW k \in D, first(k) PROVE k = i
      <4>1. ~(k < i)
        <5>1. k < i => k \in 0 .. i - 1
          BY <3>1
        <5> QED
          BY <2>2, <3>2, <5>1
      <4>2. ~(i < k)
        <5>1. i < k => i \in 0 .. (k - 1)
          BY <3>1
        <5> QED
          BY <2>1, <3>2, <5>1
      <4> QED
        BY <3>1, <4>1, <4>2
    <3> QED
      BY <3>2
  <2>4. first(i)
    BY <2>1, <2>2
  <2> HIDE DEF first
  <2>5. (CHOOSE k \in D : first(k)) = i
    BY <2>1, <2>3, <2>4, Zenon
  <2>6. M!Find(pat) = i
    BY <1>3, <2>1, <2>5, Zenon
  <2> QED
    BY <2>1, <2>6 DEF M!Found
<1>6. ASSUME \A i \in Nat : ~Occurs(buf, pat, i) PROVE ~M!Found(pat)
  <2>1. ~\E i \in D : at(i)
    <3>1. \A i \in D : i \in Nat
      OBVIOUS
    <3> HIDE DEF at, D
    <3> QED
      BY <1>2, <1>6, <3>1
  <2> HIDE DEF at, D
  <2>2. M!Find(pat) = Len(buf)
    BY <1>3, <2>1, Zenon
  <2> QED
    BY <1>1, <2>2 DEF M!Found
<1> QED
  BY <1>5, <1>6

LEMMA OccursThere ==
    ASSUME NEW w \in Seq(Byte), NEW p, NEW q, Stretch(buf, w, p, q), NEW i \in Nat
    PROVE  /\ Occurs(buf, M!CrLf, i) <=> p + i + 2 <= q /\ w[p + i + 1] = "r" /\ w[p + i + 2] = "n"
           /\ Occurs(buf, M!Dashes, i) <=> p + i + 2 <= q /\ w[p + i + 1] = "-" /\ w[p + i + 2] = "-"
           /\ Occurs(buf, M!DashBoundaryCrLf, i)
              <=> /\ p + i + 5 <= q
                  /\ w[p + i + 1] = "-" /\ w[p + i + 2] = "-" /\ w[p + i + 3] = "b"
                  /\ w[p + i + 4] = "r" /\ w[p + i + 5] = "n"
           /\ Occurs(buf, M!CrLfDashBoundary, i)
              <=> /\ p + i + 5 <= q
                  /\ w[p + i + 1] = "r" /\ w[p + i + 2] = "n"
                  /\ w[p + i + 3] = "-" /\ w[p + i + 4] = "-" /\ w[p + i + 5] = "b"
<1>1. p \in Nat /\ q \in Nat /\ p <= q /\ Len(buf) = q - p
  BY DEF Stretch
<1>2. \A j \in 1 .. q - p : buf[j] = w[p + j]
  BY DEF Stretch
<1>3. ASSUME NEW k \in 1 .. 5, i + k <= Len(buf) PROVE buf[i + k] = w[p + i + k]
  <2>1. i + k \in 1 .. q - p /\ p + (i + k) = p + i + k
    BY <1>1, <1>3
  <2> QED
    BY <1>2, <2>1
<1>4. M!CrLf = <<"r", "n">> /\ M!Dashes = <<"-", "-">>
  BY DEF M!CrLf, M!Dashes
<1>5. ASSUME NEW a, NEW b
      PROVE  Occurs(buf, <<a, b>>, i) <=> p + i + 2 <= q /\ w[p + i + 1] = a /\ w[p + i + 2] = b
  <2>1. Len(<<a, b>>) = 2 /\ <<a, b>>[1] = a /\ <<a, b>>[2] = b
    OBVIOUS
  <2>2. Occurs(buf, <<a, b>>, i) <=> i + 2 <= Len(buf) /\ buf[i + 1] = a /\ buf[i + 2] = b
    <3>1. (\A j \in 1 .. 2 : buf[i + j] = <<a, b>>[j]) <=> buf[i + 1] = a /\ buf[i + 2] = b
      <4>1. \A j \in 1 .. 2 : j = 1 \/ j = 2
        OBVIOUS
      <4>2. 1 \in 1 .. 2 /\ 2 \in 1 .. 2
        OBVIOUS
      <4> QED
        BY <2>1, <4>1, <4>2
    <3> QED
      BY <2>1, <3>1 DEF Occurs
  <2>3. i + 2 <= Len(buf) <=> p + i + 2 <= q
    BY <1>1
  <2>4. i + 2 <= Len(buf) => i + 1 <= Len(buf)
    BY <1>1
  <2> QED
    BY <1>3, <2>2, <2>3, <2>4
<1>6. ASSUME NEW a, NEW b, NEW c, NEW d, NEW e
      PROVE  Occurs(buf, <<a, b, c, d, e>>, i)
             <=> /\ p + i + 5 <= q /\ w[p + i + 1] = a /\ w[p + i + 2] = b
                 /\ w[p + i + 3] = c /\ w[p + i + 4] = d /\ w[p + i + 5] = e
  <2>1. /\ Len(<<a, b, c, d, e>>) = 5 /\ <<a, b, c, d, e>>[1] = a /\ <<a, b, c, d, e>>[2] = b
        /\ <<a, b, c, d, e>>[3] = c /\ <<a, b, c, d, e>>[4] = d /\ <<a, b, c, d, e>>[5] = e
    OBVIOUS
  <2>2. Occurs(buf, <<a, b, c, d, e>>, i)
        <=> /\ i + 5 <= Len(buf) /\ buf[i + 1] = a /\ buf[i + 2] = b
            /\ buf[i + 3] = c /\ buf[i + 4] = d /\ buf[i + 5] = e
    <3>1. (\A j \in 1 .. 5 : buf[i + j] = <<a, b, c, d, e>>[j])
          <=> /\ buf[i + 1] = a /\ buf[i + 2] = b /\ buf[i + 3] = c /\ buf[i + 4] = d /\ buf[i + 5] = e
      <4>1. \A j \in 1 .. 5 : j = 1 \/ j = 2 \/ j = 3 \/ j = 4 \/ j = 5
        OBVIOUS
      <4>2. 1 \in 1 .. 5 /\ 2 \in 1 .. 5 /\ 3 \in 1 .. 5 /\ 4 \in 1 .. 5 /\ 5 \in 1 .. 5
        OBVIOUS
      <4> QED
        BY <2>1, <4>1, <4>2
    <3> QED
      BY <2>1, <3>1, Zenon DEF Occurs
  <2>3. i + 5 <= Len(buf) <=> p + i + 5 <= q
    BY <1>1
  <2>4. i + 5 <= Len(buf) => /\ i + 1 <= Len(buf) /\ i + 2 <= Len(buf) /\ i + 3 <= Len(buf)
                             /\ i + 4 <= Len(buf)
    BY <1>1
  <2> QED
    BY <1>3, <2>2, <2>3, <2>4
<1> QED
  BY <1>4, <1>5, <1>6, BoundaryIs

-----------------------------------------------------------------------------
(* What the bytes of the text are                                            *)

LEMMA ItemIs ==
    ASSUME FormGiven, NEW k \in 1 .. Len(items)
    PROVE  /\ items[k] \in FormItem /\ items[k].lines \in Seq(Byte) /\ items[k].content \in Seq(Byte)
           /\ Len(items[k].lines) \in Nat /\ Len(items[k].content) \in Nat /\ Len(items) \in Nat
           /\ \A j \in 1 .. Len(items[k].lines) : items[k].lines[j] # "r"
           /\ \A j \in 1 .. Len(items[k].content) : items[k].content[j] # "b"
<1>1. items \in Seq(FormItem)
  BY DEF FormGiven
<1>2. items[k] \in FormItem /\ Len(items) \in Nat
  BY <1>1, ElementOfSeq, LenProperties
<1>3. items[k].lines \in Seq(Byte) /\ items[k].content \in Seq(Byte)
  BY <1>2 DEF FormItem
<1>4. Len(items[k].lines) \in Nat /\ Len(items[k].content) \in Nat
  BY <1>3, LenProperties
<1>5. /\ \A j \in 1 .. Len(items[k].lines) : items[k].lines[j] # "r"
      /\ \A j \in 1 .. Len(items[k].content) : items[k].content[j] # "b"
  BY Zenon DEF FormGiven
<1> QED
  BY <1>2, <1>3, <1>4, <1>5

LEMMA TextEnd ==
    ASSUME FormGiven, NEW w, NEW B, NEW C, Text(w, B, C)
    PROVE  LET e == B[Len(items) + 1] IN
           /\ e \in Nat /\ Len(w) = e + 7 /\ Len(items) \in Nat
           /\ w[e + 1] = "-" /\ w[e + 2] = "-" /\ w[e + 3] = "b" /\ w[e + 4] = "-"
           /\ w[e + 5] = "-" /\ w[e + 6] = "r" /\ w[e + 7] = "n"
<1> DEFINE e == B[Len(items) + 1]
           z == <<"-", "-", "b", "-", "-", "r", "n">>
<1>1. e + 7 = Len(w) /\ Stretch(z, w, e, Len(w)) /\ Len(items) \in Nat
  BY LenProperties DEF Text, FormGiven
<1> HIDE DEF e
<1>2. e \in Nat /\ \A i \in 1 .. Len(w) - e : z[i] = w[e + i]
  BY <1>1 DEF Stretch
<1>3. \A i \in 1 .. 7 : i \in 1 .. Len(w) - e
  BY <1>1, <1>2
<1>4. 1 \in 1 .. 7 /\ 2 \in 1 .. 7 /\ 3 \in 1 .. 7 /\ 4 \in 1 .. 7 /\ 5 \in 1 .. 7 /\ 6 \in 1 .. 7 /\ 7 \in 1 .. 7
  OBVIOUS
<1>5. /\ z[1] = "-" /\ z[2] = "-" /\ z[3] = "b" /\ z[4] = "-" /\ z[5] = "-" /\ z[6] = "r" /\ z[7] = "n"
  OBVIOUS
<1> HIDE DEF z
<1> QED
  BY <1>1, <1>2, <1>3, <1>4, <1>5, Zenon DEF e

\* The k-th part, from its boundary to its content.
PartBegins(w, B, C, k) ==
    LET a == B[k]
        c == C[k]
        l == Len(items[k].lines)
    IN
    /\ a \in Nat /\ c \in Nat /\ l \in Nat /\ Len(w) \in Nat
    /\ c = a + 7 + 3 * l /\ c <= Len(w)
    /\ w[a + 1] = "-" /\ w[a + 2] = "-" /\ w[a + 3] = "b" /\ w[a + 4] = "r" /\ w[a + 5] = "n"
    /\ \A j \in 1 .. l : /\ w[a + 3 + 3 * j] = items[k].lines[j]
                         /\ w[a + 4 + 3 * j] = "r" /\ w[a + 5 + 3 * j] = "n"
    /\ w[a + 6 + 3 * l] = "r" /\ w[a + 7 + 3 * l] = "n"

LEMMA TextBegin ==
    ASSUME FormGiven, NEW w, NEW B, NEW C, Text(w, B, C), NEW k \in 1 .. Len(items)
    PROVE  PartBegins(w, B, C, k)
<1> DEFINE a == B[k]
           c == C[k]
           l == Len(items[k].lines)
           z == M!ItemBegin(items[k])
<1>1. c = a + 7 + 3 * l /\ Stretch(z, w, a, c)
  BY DEF Text
<1>2. items[k] \in FormItem /\ l \in Nat
  BY ItemIs
<1>3. /\ Len(z) = 7 + 3 * l
      /\ z[1] = "-" /\ z[2] = "-" /\ z[3] = "b" /\ z[4] = "r" /\ z[5] = "n"
      /\ \A i \in 1 .. l : z[3 + 3 * i] = items[k].lines[i] /\ z[4 + 3 * i] = "r" /\ z[5 + 3 * i] = "n"
      /\ z[6 + 3 * l] = "r" /\ z[7 + 3 * l] = "n"
  BY <1>2, ItemBeginIs, Zenon
<1> HIDE DEF a, c, l, z
<1>4. a \in Nat /\ c \in Nat /\ c <= Len(w) /\ \A i \in 1 .. c - a : z[i] = w[a + i]
  BY <1>1 DEF Stretch
<1>5. c - a = 7 + 3 * l
  BY <1>1, <1>2, <1>4
<1>6. \A i \in 1 .. 7 + 3 * l : w[a + i] = z[i]
  BY <1>4, <1>5
<1>7. /\ w[a + 1] = "-" /\ w[a + 2] = "-" /\ w[a + 3] = "b" /\ w[a + 4] = "r" /\ w[a + 5] = "n"
  <2>1. /\ 1 \in 1 .. 7 + 3 * l /\ 2 \in 1 .. 7 + 3 * l /\ 3 \in 1 .. 7 + 3 * l
        /\ 4 \in 1 .. 7 + 3 * l /\ 5 \in 1 .. 7 + 3 * l
    BY <1>2
  <2> QED
    BY <1>3, <1>6, <2>1
<1>8. ASSUME NEW j \in 1 .. l
      PROVE  /\ w[a + 3 + 3 * j] = items[k].lines[j]
             /\ w[a + 4 + 3 * j] = "r" /\ w[a + 5 + 3 * j] = "n"
  <2>1. /\ 3 + 3 * j \in 1 .. 7 + 3 * l /\ 4 + 3 * j \in 1 .. 7 + 3 * l /\ 5 + 3 * j \in 1 .. 7 + 3 * l
        /\ a + (3 + 3 * j) = a + 3 + 3 * j /\ a + (4 + 3 * j) = a + 4 + 3 * j
        /\ a + (5 + 3 * j) = a + 5 + 3 * j
    BY <1>2, <1>4
  <2>2. /\ w[a + (3 + 3 * j)] = z[3 + 3 * j] /\ w[a + (4 + 3 * j)] = z[4 + 3 * j]
        /\ w[a + (5 + 3 * j)] = z[5 + 3 * j]
    BY <1>6, <2>1
  <2> QED
    BY <1>3, <2>1, <2>2, Zenon
<1>9. w[a + 6 + 3 * l] = "r" /\ w[a + 7 + 3 * l] = "n"
  <2>1. /\ 6 + 3 * l \in 1 .. 7 + 3 * l /\ 7 + 3 * l \in 1 .. 7 + 3 * l
        /\ a + (6 + 3 * l) = a + 6 + 3 * l /\ a + (7 + 3 * l) = a + 7 + 3 * l
    BY <1>2, <1>4
  <2>2. w[a + (6 + 3 * l)] = z[6 + 3 * l] /\ w[a + (7 + 3 * l)] = z[7 + 3 * l]
    BY <1>6, <2>1
  <2> QED
    BY <1>3, <2>1, <2>2
<1>10. Len(w) \in Nat
  BY LenProperties DEF Text
<1> QED
  BY <1>1, <1>2, <1>4, <1>7, <1>8, <1>9, <1>10 DEF a, c, l, PartBegins

LEMMA FirstBoundary ==
    ASSUME FormGiven, NEW w, NEW B, NEW C, Text(w, B, C), NEW k \in 1 .. Len(items)
    PROVE  /\ w[B[k] + 3] = "b" /\ w[B[k] + 4] = "r" /\ w[B[k] + 5] = "n"
           /\ B[k] + 5 < Len(w) /\ Len(w) \in Nat /\ B[k] \in Nat
<1> DEFINE a == B[k]
           l == Len(items[k].lines)
<1>1. /\ a \in Nat /\ l \in Nat /\ C[k] = a + 7 + 3 * l /\ C[k] <= Len(w) /\ Len(w) \in Nat
      /\ w[a + 3] = "b" /\ w[a + 4] = "r" /\ w[a + 5] = "n"
  <2>1. PartBegins(w, B, C, k)
    BY TextBegin, Zenon
  <2> QED
    BY <2>1 DEF PartBegins
<1> HIDE DEF a, l
<1>2. a + 7 + 3 * l <= Len(w)
  BY <1>1
<1>3. a + 5 < Len(w)
  BY <1>1, <1>2
<1> QED
  BY <1>1, <1>3 DEF a

LEMMA TextContent ==
    ASSUME FormGiven, NEW w, NEW B, NEW C, Text(w, B, C), NEW k \in 1 .. Len(items)
    PROVE  LET c == C[k]
               l == Len(items[k].content)
               e == B[k + 1]
           IN
           /\ c \in Nat /\ l \in Nat /\ e \in Nat /\ Len(w) \in Nat
           /\ e = c + l + 2 /\ e + 3 < Len(w)
           /\ \A j \in 1 .. l : w[c + j] = items[k].content[j] /\ w[c + j] # "b"
           /\ w[c + l + 1] = "r" /\ w[c + l + 2] = "n"
           /\ w[c + l + 3] = "-" /\ w[c + l + 4] = "-" /\ w[c + l + 5] = "b"
<1> DEFINE c == C[k]
           l == Len(items[k].content)
           e == B[k + 1]
           t == items[k].content
<1>1. /\ e = c + l + 2 /\ Stretch(t, w, c, c + l) /\ Stretch(<<"r", "n">>, w, c + l, e)
  BY DEF Text
<1>2. /\ items[k] \in FormItem /\ l \in Nat /\ Len(items) \in Nat
      /\ \A j \in 1 .. l : t[j] # "b"
  BY ItemIs
<1>3. Len(w) \in Nat
  BY LenProperties DEF Text
<1>4. /\ e \in Nat /\ e + 3 < Len(w)
      /\ w[e + 1] = "-" /\ w[e + 2] = "-" /\ w[e + 3] = "b"
  <2>1. CASE k = Len(items)
    <3> DEFINE d == B[Len(items) + 1]
    <3>1. /\ d \in Nat /\ Len(w) = d + 7 /\ w[d + 1] = "-" /\ w[d + 2] = "-" /\ w[d + 3] = "b"
      BY TextEnd
    <3>2. e = d
      BY <2>1
    <3> HIDE DEF d, e
    <3> QED
      BY <3>1, <3>2
  <2>2. CASE k # Len(items)
    <3>1. PICK j \in 1 .. Len(items) : j = k + 1
      BY <1>2, <2>2
    <3> DEFINE a == B[j]
               o == Len(items[j].lines)
    <3>2. /\ a \in Nat /\ o \in Nat /\ C[j] = a + 7 + 3 * o /\ C[j] <= Len(w)
          /\ w[a + 1] = "-" /\ w[a + 2] = "-" /\ w[a + 3] = "b"
      <4>1. PartBegins(w, B, C, j)
        BY TextBegin, Zenon
      <4> QED
        BY <4>1 DEF PartBegins
    <3>3. e = a
      BY <3>1
    <3> HIDE DEF a, e, o
    <3>4. a + 7 + 3 * o <= Len(w)
      BY <3>2
    <3> QED
      BY <1>3, <3>2, <3>3, <3>4
  <2> QED
    BY <2>1, <2>2
<1> HIDE DEF c, l, e, t
<1>5. c \in Nat /\ c + l - c = l
  BY <1>1, <1>2 DEF Stretch
<1>6. \A j \in 1 .. l : w[c + j] = t[j]
  <2>1. Stretch(t, w, c, c + l)
    BY <1>1
  <2>2. \A j \in 1 .. (c + l) - c : t[j] = w[c + j]
    BY <2>1, Zenon DEF Stretch
  <2>3. (c + l) - c = l
    BY <1>2, <1>5
  <2> QED
    BY <2>2, <2>3, Zenon
<1>7. w[c + l + 1] = "r" /\ w[c + l + 2] = "n"
  <2>1. \A i \in 1 .. e - (c + l) : <<"r", "n">>[i] = w[c + l + i]
    BY <1>1 DEF Stretch
  <2>2. 1 \in 1 .. e - (c + l) /\ 2 \in 1 .. e - (c + l)
    BY <1>1, <1>2, <1>5
  <2>3. <<"r", "n">>[1] = "r" /\ <<"r", "n">>[2] = "n"
    OBVIOUS
  <2> QED
    BY <2>1, <2>2, <2>3
<1>8. e + 1 = c + l + 3 /\ e + 2 = c + l + 4 /\ e + 3 = c + l + 5
  BY <1>1, <1>2, <1>5
<1> QED
  BY <1>1, <1>2, <1>3, <1>4, <1>5, <1>6, <1>7, <1>8, Zenon DEF c, l, e, t

-----------------------------------------------------------------------------
(* The invariant: where the parser is in the text, and what of the form it   *)
(* has.                                                                      *)

FormPart == [lines : Seq(Byte), content : Seq(Byte), file : BOOLEAN]

\* What holds the bytes of a form, and the parts made of them.
FormTyped ==
    /\ form_wire \in Seq(Byte) /\ buf \in Seq(Byte) /\ buffer \in Seq(Byte) /\ segs \in Seq(Seq(Byte))
    /\ sender \in {"segments", "stream"} /\ sending \in {"yes", "done", "broken"}
    /\ stream \in [plain : Nat, item : Nat, start : Nat, offset : Nat]
    /\ parsing \in BOOLEAN /\ valid \in BOOLEAN
    /\ form \in Seq(FormPart)

\* A form that the handler refuses, whole as it is.
BadForm ==
    \/ Len(items) \notin 1 .. MaxParts
    \/ \E i \in DOMAIN items : \E j \in DOMAIN items[i].lines :
           Kind[items[i].lines[j]] \in {"nameless", "malformed"}

\* The handler takes only what is whole, and refuses only what is broken or bad.
FormVerdict ==
    /\ accepted \in {"reading", "ok", "refused"}
    /\ accepted # "reading" => ~parsing
    /\ accepted = "ok" => sending = "done" /\ valid
    /\ accepted = "refused" => sending = "broken" \/ BadForm

\* The parts so far are those sent; but in the midst of one its content is a
\* beginning of what was sent.
PartsHeld ==
    /\ Len(form) <= Len(items)
    /\ \A i \in 1 .. Len(form) : i < Len(form) \/ state # 3 => form[i] = M!Part(items[i])

\* The parser has used up p bytes of the text.
AtPlace(w, B, C, p) ==
    LET m == Len(form) IN
    IF valid
    THEN /\ m = Len(items)
         /\ \/ state = 4 /\ p >= B[m + 1] + 5
            \/ state = 1 /\ p = Len(w) /\ ~parsing
    ELSE \/ state = 0 /\ p = 0 /\ m = 0
         \/ state = 1 /\ m < Len(items) /\ p = B[m + 1] + 5
         \/ /\ state = 2 /\ m < Len(items)
            /\ \E h \in 0 .. Len(items[m + 1].lines) :
                   head = SubSeq(items[m + 1].lines, 1, h) /\ p = B[m + 1] + 5 + 3 * h
         \/ /\ state = 3 /\ m >= 1
            /\ \E c \in 0 .. Len(items[m].content) :
                   /\ form[m] = [M!Part(items[m]) EXCEPT !.content = SubSeq(items[m].content, 1, c)]
                   /\ p = C[m] + c
         \/ state = 4 /\ m >= 1 /\ p = B[m + 1] + 3

\* A parser that waits has not got the whole text.
Starved(w, q) ==
    ~parsing /\ accepted = "reading" /\ ~valid /\ Len(items) > 0 => q < Len(w)

\* s bytes of the text are on the wire or further.
SentUpTo(w, B, C, s) ==
    /\ sending = "done" => s = Len(w)
    /\ sending = "yes" /\ sender = "segments" =>
           \E o : /\ Strung(segs, w, o) /\ o[Len(segs) + 1] = Len(w)
                  /\ Stretch(buffer, w, s, o[1]) /\ Len(buffer) < SendBuffer
    /\ sending = "yes" /\ sender = "stream" =>
           \/ /\ stream.offset = 0 /\ stream.start = 0 /\ stream.plain \in 1 .. Len(items)
              /\ stream.item = stream.plain + 1 /\ s = B[1]
           \/ /\ stream.offset > 0 \/ stream.plain = 0
              /\ stream.start = 0 /\ stream.item \in 1 .. Len(items) + 1 /\ s = B[stream.item]
           \/ /\ stream.start > 0 /\ stream.offset >= stream.start /\ stream.item \in 1 .. Len(items)
              /\ stream.offset - stream.start <= Len(items[stream.item].content)
              /\ s = C[stream.item] + (stream.offset - stream.start)

FormAt(w, B, C, p, q, s) ==
    /\ Text(w, B, C)
    /\ Stretch(buf, w, p, q) /\ Stretch(form_wire, w, q, s)
    /\ PartsHeld /\ AtPlace(w, B, C, p) /\ Starved(w, q) /\ SentUpTo(w, B, C, s)

\* The inductive invariant: some text w and places p <= q <= s in it, such that the
\* parser has used up p bytes, holds those up to q, and those up to s are on the wire.
FormInv ==
    /\ FormGiven /\ FormTyped /\ FormVerdict
    /\ \E w, B, C, p, q, s : FormAt(w, B, C, p, q, s)

\* What a step of the parser keeps.
ParserKept(w, B, C, q) ==
    /\ FormTyped' /\ FormVerdict' /\ PartsHeld' /\ Starved(w, q)'
    /\ \E r : Stretch(buf, w, r, q)' /\ AtPlace(w, B, C, r)'

LEMMA EraseKeeps ==
    ASSUME NEW w \in Seq(Byte), NEW p, NEW q, buf \in Seq(Byte), Stretch(buf, w, p, q),
           NEW n \in 0 .. Len(buf), M!Erase(n)
    PROVE  /\ Stretch(buf, w, p + n, q)' /\ buf' \in Seq(Byte)
           /\ parsing' \in BOOLEAN /\ (parsing' <=> p + n < q)
<1>1. p \in Nat /\ q \in Nat /\ Len(buf) = q - p
  BY DEF Stretch
<1>2. buf' = SubSeq(buf, n + 1, Len(buf)) /\ parsing' = (n < Len(buf))
  BY DEF M!Erase
<1>3. Stretch(SubSeq(buf, n + 1, Len(buf)), w, p + n, q) /\ SubSeq(buf, n + 1, Len(buf)) \in Seq(Byte)
  BY StretchCut
<1>4. Stretch(buf', w, p + n, q) /\ buf' \in Seq(Byte)
  BY <1>2, <1>3
<1>5. Stretch(buf, w, p + n, q)'
  BY <1>4 DEF Stretch
<1>6. n < Len(buf) <=> p + n < q
  BY <1>1
<1>7. parsing' \in BOOLEAN /\ (parsing' <=> n < Len(buf))
  <2>1. (n < Len(buf)) \in BOOLEAN
    OBVIOUS
  <2> QED
    BY <1>2, <2>1, Zenon
<1>8. parsing' <=> p + n < q
  BY <1>6, <1>7, Zenon
<1> QED
  BY <1>4, <1>5, <1>7, <1>8

-----------------------------------------------------------------------------
(* The parser's steps                                                        *)

\* The first boundary is where the first of its byte is, at B[1].
LEMMA InitialBoundaryKeeps ==
    ASSUME FormGiven, FormTyped, FormVerdict,
           NEW w, NEW B, NEW C, NEW p, NEW q, NEW s, FormAt(w, B, C, p, q, s),
           M!InitialBoundary, UNCHANGED <<items, epilogue, sender, segs, buffer, stream, sending, form_wire>>
    PROVE  ParserKept(w, B, C, q)
<1>1. /\ w \in Seq(Byte) /\ Text(w, B, C) /\ Stretch(buf, w, p, q) /\ buf \in Seq(Byte)
      /\ parsing /\ state = 0 /\ PartsHeld
  BY Zenon DEF FormAt, Text, FormTyped, M!InitialBoundary, M!InState
<1>2. p = 0 /\ ~valid /\ Len(form) = 0
  BY <1>1 DEF FormAt, AtPlace
<1>3. q \in Nat /\ Len(buf) = q
  BY <1>1, <1>2 DEF Stretch
<1>4. Len(items) \in Nat /\ B[1] \in Nat /\ \A i \in 1 .. B[1] : w[i] # "b"
  <2>1. Len(items) \in Nat
    BY LenProperties DEF FormGiven
  <2>2. 1 \in 1 .. Len(items) + 1 /\ B \in [1 .. Len(items) + 1 -> Nat]
    BY <1>1, <2>1 DEF Text
  <2> QED
    BY <1>1, <2>1, <2>2, Zenon DEF Text
<1>5. /\ M!DashBoundaryCrLf \in Seq(Byte) /\ Len(M!DashBoundaryCrLf) = 5 /\ Len(M!DashBoundaryCrLf) > 0
  BY BoundaryIs
<1>6. w[B[1] + 1] = "-" /\ w[B[1] + 2] = "-"
  <2>1. CASE Len(items) = 0
    BY <1>1, <2>1, TextEnd
  <2>2. CASE Len(items) # 0
    <3>1. 1 \in 1 .. Len(items)
      BY <1>4, <2>2
    <3>2. PartBegins(w, B, C, 1)
      BY <1>1, <3>1, TextBegin, Zenon
    <3> QED
      BY <3>2 DEF PartBegins
  <2> QED
    BY <2>1, <2>2
<1>7. \A i \in Nat : Occurs(buf, M!DashBoundaryCrLf, i)
                     <=> /\ i + 5 <= q
                         /\ w[i + 1] = "-" /\ w[i + 2] = "-" /\ w[i + 3] = "b"
                         /\ w[i + 4] = "r" /\ w[i + 5] = "n"
  <2>1. ASSUME NEW i \in Nat
        PROVE  Occurs(buf, M!DashBoundaryCrLf, i)
               <=> /\ i + 5 <= q
                   /\ w[i + 1] = "-" /\ w[i + 2] = "-" /\ w[i + 3] = "b"
                   /\ w[i + 4] = "r" /\ w[i + 5] = "n"
    <3>1. Occurs(buf, M!DashBoundaryCrLf, i)
          <=> /\ p + i + 5 <= q
              /\ w[p + i + 1] = "-" /\ w[p + i + 2] = "-" /\ w[p + i + 3] = "b"
              /\ w[p + i + 4] = "r" /\ w[p + i + 5] = "n"
      BY <1>1, OccursThere
    <3>2. /\ p + i + 1 = i + 1 /\ p + i + 2 = i + 2 /\ p + i + 3 = i + 3
          /\ p + i + 4 = i + 4 /\ p + i + 5 = i + 5
      BY <1>2
    <3> QED
      BY <3>1, <3>2
  <2> QED
    BY <2>1
<1>8. \A i \in Nat : Occurs(buf, M!DashBoundaryCrLf, i) => i >= B[1]
  <2>1. ASSUME NEW i \in Nat, w[i + 3] = "b", ~(i >= B[1]) PROVE FALSE
    <3>1. i + 3 \in 1 .. B[1] \/ i + 3 = B[1] + 1 \/ i + 3 = B[1] + 2
      BY <1>4, <2>1
    <3> QED
      BY <1>4, <1>6, <2>1, <3>1
  <2> QED
    BY <1>7, <2>1
<1>9. CASE M!Found(M!DashBoundaryCrLf)
  <2>1. PICK i \in Nat : Occurs(buf, M!DashBoundaryCrLf, i)
    BY <1>1, <1>5, <1>9, FindIs, Zenon
  <2>2. i >= B[1] /\ i + 5 <= q /\ w[i + 3] = "b" /\ w[i + 4] = "r" /\ q <= Len(w)
    <3>1. q <= Len(w)
      BY <1>1 DEF Stretch
    <3> QED
      BY <1>7, <1>8, <2>1, <3>1
  <2>3. Len(items) # 0
    <3>1. SUFFICES ASSUME Len(items) = 0 PROVE FALSE
      OBVIOUS
    <3> DEFINE b == B[1]
    <3>2. /\ Len(w) = b + 7 /\ w[b + 4] = "-" /\ w[b + 5] = "-"
      BY <1>1, <3>1, TextEnd
    <3>3. b \in Nat /\ i >= b /\ w[i + 3] = "b" /\ w[i + 4] = "r"
      BY <1>4, <2>2
    <3>4. i + 5 <= b + 7
      BY <1>3, <2>2, <3>2, <3>3
    <3> HIDE DEF b
    <3>5. i = b \/ i = b + 1 \/ i = b + 2
      BY <3>3, <3>4
    <3>6. CASE i = b
      BY <3>2, <3>3, <3>6
    <3>7. CASE i = b + 1
      <4>1. i + 3 = b + 4
        BY <3>3, <3>7
      <4> QED
        BY <3>2, <3>3, <4>1
    <3>8. CASE i = b + 2
      <4>1. i + 3 = b + 5
        BY <3>3, <3>8
      <4> QED
        BY <3>2, <3>3, <4>1
    <3> QED
      BY <3>5, <3>6, <3>7, <3>8
  <2>4. 1 \in 1 .. Len(items)
    BY <1>4, <2>3
  <2>5. /\ w[B[1] + 3] = "b" /\ w[B[1] + 4] = "r" /\ w[B[1] + 5] = "n"
        /\ B[1] + 5 < Len(w) /\ Len(w) \in Nat
    BY <1>1, <2>4, FirstBoundary
  <2>6. B[1] + 5 <= q
    BY <1>3, <1>4, <2>2
  <2>7. Occurs(buf, M!DashBoundaryCrLf, B[1]) /\ \A j \in 0 .. B[1] - 1 : ~Occurs(buf, M!DashBoundaryCrLf, j)
    <3>1. Occurs(buf, M!DashBoundaryCrLf, B[1])
      BY <1>4, <1>6, <1>7, <2>5, <2>6, Zenon
    <3>2. \A j \in 0 .. B[1] - 1 : j \in Nat /\ ~(j >= B[1])
      BY <1>4
    <3> QED
      BY <1>8, <3>1, <3>2
  <2>8. M!Find(M!DashBoundaryCrLf) = B[1]
    BY <1>1, <1>4, <1>5, <2>7, FindIs, Zenon
  <2>9. M!Erase(B[1] + 5) /\ state' = 1 /\ UNCHANGED <<valid, head, form, accepted>>
    BY <1>5, <1>9, <2>8 DEF M!InitialBoundary
  <2>10. /\ Stretch(buf, w, B[1] + 5, q)' /\ buf' \in Seq(Byte) /\ parsing' \in BOOLEAN
         /\ (parsing' <=> B[1] + 5 < q)
    <3>1. B[1] + 5 \in 0 .. Len(buf) /\ p + (B[1] + 5) = B[1] + 5
      BY <1>2, <1>3, <1>4, <2>6
    <3> QED
      BY <1>1, <2>9, <3>1, EraseKeeps
  <2>11. FormTyped'
    BY <2>9, <2>10 DEF FormTyped
  <2>12. FormVerdict'
    BY <1>1, <2>9 DEF FormVerdict, BadForm
  <2>13. PartsHeld'
    BY <1>1, <2>9 DEF PartsHeld
  <2>14. AtPlace(w, B, C, B[1] + 5)'
    BY <1>2, <1>4, <2>3, <2>9 DEF AtPlace
  <2>15. Starved(w, q)'
    BY <2>5, <2>6, <2>10, <1>3, <1>4 DEF Starved
  <2> QED
    BY <2>10, <2>11, <2>12, <2>13, <2>14, <2>15 DEF ParserKept
<1>10. CASE ~M!Found(M!DashBoundaryCrLf)
  <2>1. parsing' = FALSE /\ UNCHANGED <<state, valid, buf, head, form, accepted>>
    BY <1>10 DEF M!InitialBoundary, M!Waits
  <2>2. FormTyped' /\ FormVerdict' /\ PartsHeld'
    BY <1>1, <2>1, Zenon DEF FormTyped, FormVerdict, BadForm, PartsHeld
  <2>3. Stretch(buf, w, p, q)'
    BY <1>1, <2>1 DEF Stretch
  <2>4. AtPlace(w, B, C, p)'
    BY <1>1, <1>2, <2>1 DEF AtPlace
  <2>5. Starved(w, q)'
    <3>1. SUFFICES ASSUME Len(items) > 0 PROVE q < Len(w)
      BY <2>1 DEF Starved
    <3>2. 1 \in 1 .. Len(items)
      BY <1>4, <3>1
    <3>3. /\ w[B[1] + 3] = "b" /\ w[B[1] + 4] = "r" /\ w[B[1] + 5] = "n"
          /\ B[1] + 5 < Len(w) /\ Len(w) \in Nat
      BY <1>1, <3>2, FirstBoundary
    <3>4. ~(B[1] + 5 <= q)
      <4>1. SUFFICES ASSUME B[1] + 5 <= q PROVE FALSE
        OBVIOUS
      <4>2. Occurs(buf, M!DashBoundaryCrLf, B[1])
        BY <1>4, <1>6, <1>7, <3>3, <4>1, Zenon
      <4>3. \A j \in 0 .. B[1] - 1 : j \in Nat /\ ~(j >= B[1])
        BY <1>4
      <4>4. \A j \in 0 .. B[1] - 1 : ~Occurs(buf, M!DashBoundaryCrLf, j)
        BY <1>8, <4>3
      <4>5. M!Found(M!DashBoundaryCrLf)
        <5>1. \A i \in Nat : Occurs(buf, M!DashBoundaryCrLf, i)
                             /\ (\A j \in 0 .. i - 1 : ~Occurs(buf, M!DashBoundaryCrLf, j))
                             => M!Found(M!DashBoundaryCrLf) /\ M!Find(M!DashBoundaryCrLf) = i
          BY <1>1, <1>5, FindIs, Zenon
        <5> QED
          BY <1>4, <4>2, <4>4, <5>1, Zenon
      <4> QED
        BY <1>10, <4>5
    <3> QED
      BY <1>3, <1>4, <3>3, <3>4
  <2> QED
    BY <2>2, <2>3, <2>4, <2>5 DEF ParserKept
<1> QED
  BY <1>9, <1>10

LEMMA FoundOccurs ==
    ASSUME buf \in Seq(Byte), NEW pat \in Seq(Byte), Len(pat) > 0, M!Found(pat)
    PROVE  /\ M!Find(pat) \in Nat /\ Occurs(buf, pat, M!Find(pat))
           /\ \A j \in 0 .. M!Find(pat) - 1 : ~Occurs(buf, pat, j)
<1> DEFINE D == {i \in Nat : Occurs(buf, pat, i)}
<1>1. D # {} /\ D \subseteq Nat
  BY FindIs, Zenon
<1>2. PICK i \in D : \A j \in D : i <= j
  <2> HIDE DEF D
  <2> QED
    BY <1>1, Least, Zenon
<1>3. \A j \in 0 .. i - 1 : j \in Nat /\ ~(i <= j)
  BY <1>1
<1>4. \A j \in 0 .. i - 1 : ~Occurs(buf, pat, j)
  BY <1>2, <1>3
<1>5. i \in Nat /\ Occurs(buf, pat, i)
  OBVIOUS
<1>6. M!Find(pat) = i
  BY <1>4, <1>5, FindIs
<1> QED
  BY <1>4, <1>5, <1>6

\* The first line end of the buffer, when no "r" comes before it.
LEMMA CrLfFound ==
    ASSUME buf \in Seq(Byte), NEW w \in Seq(Byte), NEW p, NEW q, Stretch(buf, w, p, q), NEW i \in Nat,
           w[p + i + 1] = "r", w[p + i + 2] = "n", \A j \in 0 .. i - 1 : w[p + j + 1] # "r"
    PROVE  /\ M!Found(M!CrLf) => p + i + 2 <= q /\ M!Find(M!CrLf) = i
           /\ p + i + 2 <= q => M!Found(M!CrLf)
<1>1. M!CrLf \in Seq(Byte) /\ Len(M!CrLf) > 0
  BY LineEndIs, TheBytes DEF M!CrLf
<1>2. p \in Nat /\ q \in Nat
  BY DEF Stretch
<1>3. \A j \in Nat : Occurs(buf, M!CrLf, j) <=> p + j + 2 <= q /\ w[p + j + 1] = "r" /\ w[p + j + 2] = "n"
  BY OccursThere
<1>4. \A j \in 0 .. i - 1 : ~Occurs(buf, M!CrLf, j)
  <2>1. \A j \in 0 .. i - 1 : j \in Nat
    OBVIOUS
  <2> QED
    BY <1>3, <2>1, Zenon
<1>5. p + i + 2 <= q => M!Found(M!CrLf) /\ M!Find(M!CrLf) = i
  <2>1. p + i + 2 <= q => Occurs(buf, M!CrLf, i)
    BY <1>3
  <2> QED
    BY <1>1, <1>4, <2>1, FindIs, Zenon
<1>6. ASSUME M!Found(M!CrLf) PROVE p + i + 2 <= q
  <2> DEFINE f == M!Find(M!CrLf)
  <2>1. f \in Nat /\ Occurs(buf, M!CrLf, f)
    BY <1>1, <1>6, FoundOccurs
  <2> HIDE DEF f
  <2>2. p + f + 2 <= q
    BY <1>3, <2>1
  <2>3. ~(f < i)
    <3>1. f < i => f \in 0 .. i - 1
      BY <2>1
    <3> QED
      BY <1>4, <2>1, <3>1
  <2> QED
    BY <1>2, <2>1, <2>2, <2>3
<1> QED
  BY <1>5, <1>6

\* The first delimiter of the buffer, when no "b" comes before it.
LEMMA BoundaryFound ==
    ASSUME buf \in Seq(Byte), NEW w \in Seq(Byte), NEW p, NEW q, Stretch(buf, w, p, q), NEW i \in Nat,
           w[p + i + 1] = "r", w[p + i + 2] = "n", w[p + i + 3] = "-", w[p + i + 4] = "-",
           w[p + i + 5] = "b", \A j \in 0 .. i - 1 : w[p + j + 5] # "b"
    PROVE  /\ M!Found(M!CrLfDashBoundary) => p + i + 5 <= q /\ M!Find(M!CrLfDashBoundary) = i
           /\ p + i + 5 <= q => M!Found(M!CrLfDashBoundary)
<1> DEFINE pat == M!CrLfDashBoundary
<1>1. pat \in Seq(Byte) /\ Len(pat) > 0
  BY BoundaryIs
<1>2. p \in Nat /\ q \in Nat
  BY DEF Stretch
<1>3. \A j \in Nat : Occurs(buf, pat, j)
          <=> /\ p + j + 5 <= q /\ w[p + j + 1] = "r" /\ w[p + j + 2] = "n"
              /\ w[p + j + 3] = "-" /\ w[p + j + 4] = "-" /\ w[p + j + 5] = "b"
  BY OccursThere
<1> HIDE DEF pat
<1>4. \A j \in 0 .. i - 1 : ~Occurs(buf, pat, j)
  <2>1. \A j \in 0 .. i - 1 : j \in Nat
    OBVIOUS
  <2> QED
    BY <1>3, <2>1, Zenon
<1>5. p + i + 5 <= q => M!Found(pat) /\ M!Find(pat) = i
  <2>1. p + i + 5 <= q => Occurs(buf, pat, i)
    BY <1>3
  <2> QED
    BY <1>1, <1>4, <2>1, FindIs, Zenon
<1>6. ASSUME M!Found(pat) PROVE p + i + 5 <= q
  <2> DEFINE f == M!Find(pat)
  <2>1. f \in Nat /\ Occurs(buf, pat, f)
    BY <1>1, <1>6, FoundOccurs
  <2> HIDE DEF f
  <2>2. p + f + 5 <= q
    BY <1>3, <2>1
  <2>3. ~(f < i)
    <3>1. f < i => f \in 0 .. i - 1
      BY <2>1
    <3> QED
      BY <1>4, <2>1, <3>1
  <2> QED
    BY <1>2, <2>1, <2>2, <2>3
<1> QED
  BY <1>5, <1>6, Zenon DEF pat

\* What stands first in the buffer.
LEMMA FirstIs ==
    ASSUME buf \in Seq(Byte), NEW w \in Seq(Byte), NEW p, NEW q, Stretch(buf, w, p, q)
    PROVE  /\ M!Find(M!CrLf) = 0 /\ M!Found(M!CrLf)
              <=> p + 2 <= q /\ w[p + 1] = "r" /\ w[p + 2] = "n"
           /\ M!Find(M!Dashes) = 0 /\ M!Found(M!Dashes)
              <=> p + 2 <= q /\ w[p + 1] = "-" /\ w[p + 2] = "-"
<1>1. /\ M!CrLf \in Seq(Byte) /\ Len(M!CrLf) > 0
      /\ M!Dashes \in Seq(Byte) /\ Len(M!Dashes) > 0
  BY LineEndIs, TheBytes DEF M!CrLf, M!Dashes
<1>2. p \in Nat
  BY DEF Stretch
<1>3. ASSUME NEW pat \in Seq(Byte), Len(pat) > 0
      PROVE  M!Find(pat) = 0 /\ M!Found(pat) <=> Occurs(buf, pat, 0)
  <2>1. ASSUME M!Find(pat) = 0, M!Found(pat) PROVE Occurs(buf, pat, 0)
    <3>1. Occurs(buf, pat, M!Find(pat))
      BY <1>3, <2>1, FoundOccurs
    <3> QED
      BY <2>1, <3>1
  <2>2. ASSUME Occurs(buf, pat, 0) PROVE M!Find(pat) = 0 /\ M!Found(pat)
    <3>1. 0 \in Nat /\ \A j \in 0 .. 0 - 1 : FALSE
      OBVIOUS
    <3> QED
      BY <1>3, <2>2, <3>1, FindIs, Zenon
  <2> QED
    BY <2>1, <2>2
<1>4. p + 0 + 1 = p + 1 /\ p + 0 + 2 = p + 2 /\ 0 \in Nat
  BY <1>2
<1>5. /\ Occurs(buf, M!CrLf, 0) <=> p + 0 + 2 <= q /\ w[p + 0 + 1] = "r" /\ w[p + 0 + 2] = "n"
      /\ Occurs(buf, M!Dashes, 0) <=> p + 0 + 2 <= q /\ w[p + 0 + 1] = "-" /\ w[p + 0 + 2] = "-"
  BY <1>4, OccursThere
<1>6. /\ Occurs(buf, M!CrLf, 0) <=> p + 2 <= q /\ w[p + 1] = "r" /\ w[p + 2] = "n"
      /\ Occurs(buf, M!Dashes, 0) <=> p + 2 <= q /\ w[p + 1] = "-" /\ w[p + 2] = "-"
  BY <1>4, <1>5
<1>7. /\ M!Find(M!CrLf) = 0 /\ M!Found(M!CrLf) <=> Occurs(buf, M!CrLf, 0)
      /\ M!Find(M!Dashes) = 0 /\ M!Found(M!Dashes) <=> Occurs(buf, M!Dashes, 0)
  BY <1>1, <1>3
<1> QED
  BY <1>6, <1>7, Zenon

LEMMA NewEntryKeeps ==
    ASSUME FormGiven, FormTyped, FormVerdict,
           NEW w, NEW B, NEW C, NEW p, NEW q, NEW s, FormAt(w, B, C, p, q, s),
           M!NewEntry, UNCHANGED <<items, epilogue, sender, segs, buffer, stream, sending, form_wire>>
    PROVE  ParserKept(w, B, C, q)
<1>1. /\ state = 1 /\ parsing /\ head' = <<>> /\ state' = 2
      /\ UNCHANGED <<valid, buf, parsing, form, accepted, items>>
      /\ Stretch(buf, w, p, q) /\ PartsHeld
  BY DEF FormAt, M!NewEntry, M!InState
<1>2. ~valid /\ Len(form) < Len(items) /\ p = B[Len(form) + 1] + 5
  BY <1>1 DEF FormAt, AtPlace
<1>3. Len(form) \in Nat /\ Len(items) \in Nat /\ p \in Nat
  BY <1>1, LenProperties DEF FormTyped, FormGiven, Stretch
<1>4. FormTyped' /\ FormVerdict' /\ PartsHeld' /\ Starved(w, q)'
  BY <1>1 DEF FormTyped, FormVerdict, BadForm, PartsHeld, Starved
<1>5. Stretch(buf, w, p, q)'
  BY <1>1 DEF Stretch
<1>6. AtPlace(w, B, C, p)'
  <2> DEFINE l == items[Len(form) + 1].lines
  <2>1. Len(form) + 1 \in 1 .. Len(items)
    BY <1>2, <1>3
  <2>2. 0 \in 0 .. Len(l)
    BY <2>1, ItemIs
  <2>3. SubSeq(l, 1, 0) = <<>>
    OBVIOUS
  <2>4. p = B[Len(form) + 1] + 5 + 3 * 0
    BY <1>2, <1>3
  <2>5. \E h \in 0 .. Len(l) : <<>> = SubSeq(l, 1, h) /\ p = B[Len(form) + 1] + 5 + 3 * h
    BY <2>2, <2>3, <2>4
  <2> QED
    BY <1>1, <1>2, <2>5, Zenon DEF AtPlace
<1> QED
  BY <1>4, <1>5, <1>6 DEF ParserKept

\* Among the header lines of a part: what the next bytes are.
LEMMA HeaderAt ==
    ASSUME FormGiven, FormTyped, NEW w, NEW B, NEW C, NEW p, NEW q, NEW s, FormAt(w, B, C, p, q, s),
           state = 2
    PROVE  LET k == Len(form) + 1
               l == items[k].lines
           IN
           /\ ~valid /\ k \in 1 .. Len(items) /\ C[k] \in Nat /\ C[k] < Len(w) /\ Len(w) \in Nat
           /\ p \in Nat /\ q \in Nat /\ Len(buf) = q - p
           /\ w \in Seq(Byte) /\ Stretch(buf, w, p, q) /\ buf \in Seq(Byte)
           /\ Len(form) \in Nat
           /\ \E h \in 0 .. Len(l) :
                  /\ head = SubSeq(l, 1, h) /\ p = B[k] + 5 + 3 * h
                  /\ \/ /\ h < Len(l) /\ w[p + 1] = l[h + 1] /\ w[p + 1] # "r"
                        /\ w[p + 2] = "r" /\ w[p + 3] = "n" /\ p + 3 < Len(w)
                     \/ /\ h = Len(l) /\ w[p + 1] = "r" /\ w[p + 2] = "n" /\ p + 2 = C[k]
<1> DEFINE k == Len(form) + 1
           l == items[k].lines
           a == B[k]
           o == Len(l)
<1>1. /\ w \in Seq(Byte) /\ Text(w, B, C) /\ Stretch(buf, w, p, q) /\ buf \in Seq(Byte)
  BY Zenon DEF FormAt, Text, FormTyped
<1>2. /\ ~valid /\ Len(form) < Len(items)
      /\ \E h \in 0 .. o : head = SubSeq(l, 1, h) /\ p = a + 5 + 3 * h
  BY DEF FormAt, AtPlace
<1>3. Len(form) \in Nat /\ Len(items) \in Nat
  BY LenProperties DEF FormTyped, FormGiven
<1>4. k \in 1 .. Len(items)
  BY <1>2, <1>3
<1>5. p \in Nat /\ q \in Nat /\ Len(buf) = q - p
  BY <1>1 DEF Stretch
<1> HIDE DEF k
<1>6. o \in Nat /\ \A j \in 1 .. o : l[j] # "r"
  BY <1>4, ItemIs
<1>7. /\ a \in Nat /\ C[k] \in Nat /\ Len(w) \in Nat
      /\ C[k] = a + 7 + 3 * o
      /\ \A j \in 1 .. o : /\ w[a + 3 + 3 * j] = l[j]
                           /\ w[a + 4 + 3 * j] = "r" /\ w[a + 5 + 3 * j] = "n"
      /\ w[a + 6 + 3 * o] = "r" /\ w[a + 7 + 3 * o] = "n"
  <2>1. PartBegins(w, B, C, k)
    BY <1>1, <1>4, TextBegin, Zenon
  <2> QED
    BY <2>1 DEF PartBegins
<1>8. C[k] < Len(w)
  <2> DEFINE c == C[k]
             m == Len(items[k].content)
             e == B[k + 1]
  <2>1. c \in Nat /\ m \in Nat /\ e \in Nat /\ e = c + m + 2 /\ e + 3 < Len(w)
    BY <1>1, <1>4, TextContent
  <2> HIDE DEF c, m, e
  <2>2. c < Len(w)
    BY <1>7, <2>1
  <2> QED
    BY <2>2 DEF c
<1>9. PICK h \in 0 .. o : head = SubSeq(l, 1, h) /\ p = a + 5 + 3 * h
  BY <1>2
<1> HIDE DEF a, o, l
<1>10. CASE h < o
  <2>1. h + 1 \in 1 .. o
    BY <1>6, <1>10
  <2>2. /\ a + 3 + 3 * (h + 1) = p + 1 /\ a + 4 + 3 * (h + 1) = p + 2 /\ a + 5 + 3 * (h + 1) = p + 3
    BY <1>7, <1>9
  <2>3. /\ w[a + 3 + 3 * (h + 1)] = l[h + 1]
        /\ w[a + 4 + 3 * (h + 1)] = "r" /\ w[a + 5 + 3 * (h + 1)] = "n"
    BY <1>7, <2>1
  <2>4. w[p + 1] = l[h + 1] /\ w[p + 1] # "r" /\ w[p + 2] = "r" /\ w[p + 3] = "n"
    BY <1>6, <2>1, <2>2, <2>3
  <2>5. p + 3 < Len(w)
    BY <1>6, <1>7, <1>8, <1>9, <1>10
  <2> QED
    BY <1>1, <1>2, <1>3, <1>4, <1>5, <1>7, <1>8, <1>9, <1>10, <2>4, <2>5, Zenon DEF k, a, o, l
<1>11. CASE ~(h < o)
  <2>1. h = o
    BY <1>6, <1>11
  <2>2. /\ a + 6 + 3 * o = p + 1 /\ a + 7 + 3 * o = p + 2 /\ p + 2 = C[k]
    BY <1>6, <1>7, <1>9, <2>1
  <2>3. w[p + 1] = "r" /\ w[p + 2] = "n"
    BY <1>7, <2>2
  <2> QED
    BY <1>1, <1>2, <1>3, <1>4, <1>5, <1>7, <1>8, <1>9, <2>1, <2>2, <2>3, Zenon DEF k, a, o, l
<1> QED
  BY <1>10, <1>11, Zenon

LEMMA HeaderWaitsKeeps ==
    ASSUME FormGiven, FormTyped, FormVerdict,
           NEW w, NEW B, NEW C, NEW p, NEW q, NEW s, FormAt(w, B, C, p, q, s),
           M!HeaderWaits, UNCHANGED <<items, epilogue, sender, segs, buffer, stream, sending, form_wire>>
    PROVE  ParserKept(w, B, C, q)
<1> DEFINE k == Len(form) + 1
           l == items[k].lines
<1>1. /\ state = 2 /\ ~M!Found(M!CrLf) /\ parsing' = FALSE
      /\ UNCHANGED <<state, valid, buf, head, form, accepted, items, stream, sending, sender>>
      /\ PartsHeld /\ AtPlace(w, B, C, p)
  BY DEF FormAt, M!HeaderWaits, M!InState, M!Waits
<1>2. /\ ~valid /\ C[k] < Len(w) /\ Len(w) \in Nat /\ C[k] \in Nat
      /\ p \in Nat /\ q \in Nat
      /\ w \in Seq(Byte) /\ Stretch(buf, w, p, q) /\ buf \in Seq(Byte)
      /\ \E h \in 0 .. Len(l) :
                  /\ head = SubSeq(l, 1, h) /\ p = B[k] + 5 + 3 * h
                  /\ \/ /\ h < Len(l) /\ w[p + 1] = l[h + 1] /\ w[p + 1] # "r"
                        /\ w[p + 2] = "r" /\ w[p + 3] = "n" /\ p + 3 < Len(w)
                     \/ /\ h = Len(l) /\ w[p + 1] = "r" /\ w[p + 2] = "n" /\ p + 2 = C[k]
  BY <1>1, HeaderAt
<1>3. q < Len(w)
  <2>1. CASE /\ w[p + 1] # "r" /\ w[p + 2] = "r" /\ w[p + 3] = "n" /\ p + 3 < Len(w)
    <3>1. p + 1 + 1 = p + 2 /\ p + 1 + 2 = p + 3 /\ 1 \in Nat
      <4>1. p \in Nat
        BY <1>2
      <4> QED
        BY <4>1
    <3>2. \A j \in 0 .. 1 - 1 : w[p + j + 1] # "r"
      <4>1. \A j \in 0 .. 1 - 1 : p + j + 1 = p + 1
        BY <1>2
      <4> QED
        BY <2>1, <4>1
    <3>3. p + 1 + 2 <= q => M!Found(M!CrLf)
      BY <1>2, <2>1, <3>1, <3>2, CrLfFound, Zenon
    <3> QED
      BY <1>1, <1>2, <2>1, <3>1, <3>3
  <2>2. CASE w[p + 1] = "r" /\ w[p + 2] = "n" /\ p + 2 = C[k]
    <3>1. p + 2 <= q => M!Found(M!CrLf)
      BY <1>2, <2>2, FirstIs, Zenon
    <3> QED
      BY <1>1, <1>2, <2>2, <3>1
  <2> QED
    BY <1>2, <2>1, <2>2
<1>4. FormTyped' /\ FormVerdict' /\ PartsHeld'
  BY <1>1, Zenon DEF FormTyped, FormVerdict, BadForm, PartsHeld
<1>5. Starved(w, q)'
  BY <1>3 DEF Starved
<1>6. Stretch(buf, w, p, q)'
  BY <1>1, <1>2 DEF Stretch
<1>7. AtPlace(w, B, C, p)'
  BY <1>1, <1>2, Zenon DEF AtPlace
<1> QED
  BY <1>4, <1>5, <1>6, <1>7 DEF ParserKept

\* A line that is no header refuses the form, and it was in it.
LEMMA HeaderLineKeeps ==
    ASSUME FormGiven, FormTyped, FormVerdict,
           NEW w, NEW B, NEW C, NEW p, NEW q, NEW s, FormAt(w, B, C, p, q, s),
           M!HeaderLine, UNCHANGED <<items, epilogue, sender, segs, buffer, stream, sending, form_wire>>
    PROVE  ParserKept(w, B, C, q)
<1> DEFINE k == Len(form) + 1
           l == items[k].lines
           line == SubSeq(buf, 1, M!Find(M!CrLf))
<1>1. /\ state = 2 /\ parsing /\ M!Found(M!CrLf) /\ M!Find(M!CrLf) > 0
      /\ UNCHANGED <<items, stream, sending, sender>>
      /\ PartsHeld /\ AtPlace(w, B, C, p)
  BY DEF FormAt, M!HeaderLine, M!InState
<1>2. /\ ~valid /\ k \in 1 .. Len(items) /\ C[k] < Len(w) /\ Len(w) \in Nat /\ C[k] \in Nat
      /\ p \in Nat /\ q \in Nat /\ Len(buf) = q - p /\ Len(form) \in Nat
      /\ w \in Seq(Byte) /\ Stretch(buf, w, p, q) /\ buf \in Seq(Byte)
      /\ \E h \in 0 .. Len(l) :
                  /\ head = SubSeq(l, 1, h) /\ p = B[k] + 5 + 3 * h
                  /\ \/ /\ h < Len(l) /\ w[p + 1] = l[h + 1] /\ w[p + 1] # "r"
                        /\ w[p + 2] = "r" /\ w[p + 3] = "n" /\ p + 3 < Len(w)
                     \/ /\ h = Len(l) /\ w[p + 1] = "r" /\ w[p + 2] = "n" /\ p + 2 = C[k]
  BY <1>1, HeaderAt
<1> HIDE DEF k, l, line
<1>20. p \in Nat /\ q \in Nat /\ Len(buf) = q - p
  BY <1>2
<1>21. w \in Seq(Byte) /\ Stretch(buf, w, p, q) /\ buf \in Seq(Byte)
  BY <1>2
<1>3. ~(w[p + 1] = "r" /\ w[p + 2] = "n")
  <2>1. SUFFICES ASSUME w[p + 1] = "r" /\ w[p + 2] = "n" PROVE FALSE
    OBVIOUS
  <2>2. p + 0 + 1 = p + 1 /\ p + 0 + 2 = p + 2 /\ 0 \in Nat
    BY <1>20
  <2>3. \A j \in 0 .. 0 - 1 : w[p + j + 1] # "r"
    OBVIOUS
  <2>4. w[p + 0 + 1] = "r" /\ w[p + 0 + 2] = "n"
    BY <2>1, <2>2
  <2>5. M!Find(M!CrLf) = 0
    BY <1>1, <1>21, <2>2, <2>3, <2>4, CrLfFound
  <2> QED
    BY <1>1, <2>5
<1>4. PICK h \in 0 .. Len(l) :
          /\ head = SubSeq(l, 1, h) /\ p = B[k] + 5 + 3 * h
          /\ h < Len(l) /\ w[p + 1] = l[h + 1] /\ w[p + 1] # "r"
          /\ w[p + 2] = "r" /\ w[p + 3] = "n" /\ p + 3 < Len(w)
  BY <1>2, <1>3, Zenon
<1>5. p + 3 <= q /\ M!Find(M!CrLf) = 1
  <2>1. p + 1 + 1 = p + 2 /\ p + 1 + 2 = p + 3 /\ 1 \in Nat
    BY <1>20
  <2>2. \A j \in 0 .. 1 - 1 : w[p + j + 1] # "r"
    <3>1. \A j \in 0 .. 1 - 1 : p + j + 1 = p + 1
      BY <1>20
    <3> QED
      BY <1>4, <3>1, Zenon
  <2>3. M!Found(M!CrLf) => p + 1 + 2 <= q /\ M!Find(M!CrLf) = 1
    <3>1. w[p + 1 + 1] = "r" /\ w[p + 1 + 2] = "n"
      BY <1>4, <2>1, Zenon
    <3> QED
      BY <1>21, <2>1, <2>2, <3>1, CrLfFound
  <2> QED
    BY <1>1, <2>1, <2>3
<1>6. line = <<l[h + 1]>>
  <2>1. Len(buf) \in Nat /\ Len(buf) >= 1
    BY <1>20, <1>5
  <2>2. buf[1] = l[h + 1]
    <3>1. \A j \in 1 .. q - p : buf[j] = w[p + j]
      BY <1>2 DEF Stretch
    <3>2. 1 \in 1 .. q - p
      BY <1>2, <1>5
    <3> QED
      BY <1>4, <3>1, <3>2
  <2>3. SubSeq(buf, 1, 1) = <<buf[1]>>
    BY <1>21, <2>1, FirstAlone
  <2> QED
    BY <1>5, <2>2, <2>3 DEF line
<1>7. l \in Seq(Byte) /\ Len(l) \in Nat /\ h + 1 \in 1 .. Len(l)
  <2>1. k \in 1 .. Len(items)
    BY <1>2
  <2>2. l \in Seq(Byte) /\ Len(l) \in Nat
    BY <2>1, ItemIs DEF l
  <2> QED
    BY <1>4, <2>2
<1>8. CASE \A i \in DOMAIN line : Kind[line[i]] \in {"nameless", "malformed"}
  <2>1. M!Fails
    BY <1>8, Zenon DEF M!HeaderLine, line
  <2>2. /\ parsing' = FALSE /\ valid' = FALSE /\ accepted' = "refused"
        /\ UNCHANGED <<state, buf, head, form>>
    BY <2>1 DEF M!Fails
  <2>3. Kind[l[h + 1]] \in {"nameless", "malformed"}
    <3>1. 1 \in DOMAIN line /\ line[1] = l[h + 1]
      BY <1>6
    <3> QED
      BY <1>8, <3>1
  <2>4. BadForm
    <3>1. k \in DOMAIN items /\ h + 1 \in DOMAIN l
      BY <1>2, <1>7, LenProperties, Zenon DEF FormGiven
    <3> QED
      BY <2>3, <3>1 DEF BadForm, l
  <2>5. FormTyped' /\ PartsHeld'
    BY <1>1, <2>2, Zenon DEF FormTyped, PartsHeld
  <2>6. FormVerdict' /\ Starved(w, q)'
    BY <1>1, <2>2, <2>4 DEF FormVerdict, BadForm, Starved
  <2>7. Stretch(buf, w, p, q)'
    BY <1>2, <2>2 DEF Stretch
  <2>8. AtPlace(w, B, C, p)'
    BY <1>1, <1>2, <2>2, Zenon DEF AtPlace
  <2> QED
    BY <2>5, <2>6, <2>7, <2>8 DEF ParserKept
<1>9. CASE ~\A i \in DOMAIN line : Kind[line[i]] \in {"nameless", "malformed"}
  <2>1. /\ head' = head \o line /\ M!Erase(Len(line) + Len(M!CrLf))
        /\ UNCHANGED <<state, valid, form, accepted>>
    BY <1>9, Zenon DEF M!HeaderLine, line
  <2>2. Len(line) + Len(M!CrLf) = 3
    <3>1. Len(<<l[h + 1]>>) = 1 /\ Len(M!CrLf) = 2
      BY DEF M!CrLf
    <3>2. Len(line) = 1
      BY <1>6, <3>1
    <3> QED
      BY <3>1, <3>2
  <2>3. M!Erase(3) /\ 3 \in 0 .. Len(buf)
    BY <1>2, <1>5, <2>1, <2>2
  <2>4. /\ Stretch(buf, w, p + 3, q)' /\ buf' \in Seq(Byte) /\ parsing' \in BOOLEAN
        /\ (parsing' <=> p + 3 < q)
    BY <1>2, <2>3, EraseKeeps, Zenon
  <2>5. head' = SubSeq(l, 1, h + 1)
    <3>1. head' = SubSeq(l, 1, h) \o <<l[h + 1]>>
      BY <1>4, <1>6, <2>1
    <3>2. SubSeq(l, 1, h) \o <<l[h + 1]>> = SubSeq(l, 1, h + 1)
      <4> DEFINE u == <<l[h + 1]>>
      <4>1. l[h + 1] \in Byte
        BY <1>7, ElementOfSeq
      <4>5. u \in Seq(Byte) /\ Len(u) = 1 /\ Len(u) >= 1 /\ u[1] = l[h + 1]
        BY <4>1
      <4> HIDE DEF u
      <4>2. u \in Seq(Byte) /\ Len(u) = 1 /\ u[1] = l[h + 1] /\ SubSeq(u, 1, 1) = u
        <5>1. SubSeq(u, 1, 1) = <<u[1]>>
          BY <4>5, FirstAlone, Zenon
        <5>2. <<u[1]>> = u
          BY DEF u
        <5> QED
          BY <4>5, <5>1, <5>2
      <4>3. h \in Nat /\ 1 \in 0 .. Len(u) /\ h + 1 <= Len(l) /\ \A i \in 1 .. 1 : u[i] = l[h + i]
        BY <1>4, <1>7, <4>2
      <4>4. SubSeq(l, 1, h) \o SubSeq(u, 1, 1) = SubSeq(l, 1, h + 1)
        BY <1>7, <4>2, <4>3, PrefixGrows, SMTT(40)
      <4> QED
        BY <4>2, <4>4 DEF u
    <3> QED
      BY <3>1, <3>2
  <2>6. FormTyped' /\ FormVerdict' /\ PartsHeld'
    BY <1>1, <2>1, <2>4 DEF FormTyped, FormVerdict, BadForm, PartsHeld
  <2>7. Starved(w, q)'
    <3>1. (parsing' <=> p + 3 < q) /\ p + 3 <= q /\ p + 3 < Len(w)
      BY <1>4, <1>5, <2>4, Zenon
    <3>2. p + 3 \in Nat /\ q \in Nat /\ Len(w) \in Nat
      <4>1. p \in Nat /\ Len(w) \in Nat
        BY <1>2, Zenon
      <4> QED
        BY <1>20, <4>1
    <3>3. ~(p + 3 < q) => q < Len(w)
      BY <3>1, <3>2
    <3> QED
      BY <3>1, <3>3, Zenon DEF Starved
  <2>8. AtPlace(w, B, C, p + 3)'
    <3>1. p + 3 = B[k] + 5 + 3 * (h + 1) /\ h + 1 \in 0 .. Len(l)
      <4>1. B[k] \in Nat
        BY <1>2, FirstBoundary DEF FormAt
      <4> DEFINE b == B[k]
      <4> HIDE DEF b
      <4>2. b \in Nat /\ p = b + 5 + 3 * h /\ h \in Nat
        BY <1>4, <1>7, <4>1 DEF b
      <4>3. p + 3 = b + 5 + 3 * (h + 1) /\ h + 1 \in 0 .. Len(l)
        <5>1. \A x, y \in Nat : (x + 5 + 3 * y) + 3 = x + 5 + 3 * (y + 1)
          OBVIOUS
        <5>2. h + 1 \in 0 .. Len(l)
          BY <1>4, <1>7
        <5> QED
          BY <4>2, <5>1, <5>2
      <4> QED
        BY <4>3 DEF b
    <3>2. Len(form) < Len(items)
      <4>1. Len(items) \in Nat
        BY LenProperties DEF FormGiven
      <4> QED
        BY <1>2, <4>1 DEF k
    <3> QED
      BY <1>1, <1>2, <2>1, <2>5, <3>1, <3>2, Zenon DEF AtPlace, k, l
  <2> QED
    BY <2>4, <2>6, <2>7, <2>8 DEF ParserKept
<1> QED
  BY <1>8, <1>9

\* All the lines are read: a part begins.
LEMMA EmptyLineKeeps ==
    ASSUME FormGiven, FormTyped, FormVerdict, MaxParts \in Nat,
           NEW w, NEW B, NEW C, NEW p, NEW q, NEW s, FormAt(w, B, C, p, q, s),
           M!EmptyLine, UNCHANGED <<items, epilogue, sender, segs, buffer, stream, sending, form_wire>>
    PROVE  ParserKept(w, B, C, q)
<1> DEFINE k == Len(form) + 1
           l == items[k].lines
<1>1. /\ state = 2 /\ parsing /\ M!Found(M!CrLf) /\ M!Find(M!CrLf) = 0
      /\ UNCHANGED <<items, stream, sending, sender>>
      /\ PartsHeld /\ AtPlace(w, B, C, p)
  BY DEF FormAt, M!EmptyLine, M!InState
<1>2. /\ ~valid /\ k \in 1 .. Len(items) /\ C[k] < Len(w) /\ Len(w) \in Nat /\ C[k] \in Nat
      /\ p \in Nat /\ q \in Nat /\ Len(buf) = q - p /\ Len(form) \in Nat
      /\ w \in Seq(Byte) /\ Stretch(buf, w, p, q) /\ buf \in Seq(Byte)
      /\ \E h \in 0 .. Len(l) :
                  /\ head = SubSeq(l, 1, h) /\ p = B[k] + 5 + 3 * h
                  /\ \/ /\ h < Len(l) /\ w[p + 1] = l[h + 1] /\ w[p + 1] # "r"
                        /\ w[p + 2] = "r" /\ w[p + 3] = "n" /\ p + 3 < Len(w)
                     \/ /\ h = Len(l) /\ w[p + 1] = "r" /\ w[p + 2] = "n" /\ p + 2 = C[k]
  BY <1>1, HeaderAt
<1>3. p + 2 <= q /\ w[p + 1] = "r"
  BY <1>1, <1>2, FirstIs
<1>4. head = SubSeq(l, 1, Len(l)) /\ p + 2 = C[k]
  BY <1>2, <1>3, Zenon
<1>5. items[k] \in FormItem /\ l \in Seq(Byte)
  BY <1>2, ItemIs, Zenon
<1>6. head = l
  <2>1. SubSeq(l, 1, Len(l)) = l
    <3>1. Len(l) \in Nat
      BY <1>5, LenProperties
    <3> HIDE DEF l
    <3>2. /\ SubSeq(l, 1, Len(l)) \in Seq(Byte) /\ Len(SubSeq(l, 1, Len(l))) = Len(l)
          /\ \A i \in 1 .. Len(l) : SubSeq(l, 1, Len(l))[i] = l[i]
      BY <1>5, <3>1
    <3> QED
      BY <1>5, <3>2, SeqEqual
  <2> QED
    BY <1>4, <2>1
<1>7. CASE Len(form) = MaxParts
  <2>1. M!Fails
    BY <1>7 DEF M!EmptyLine
  <2>2. /\ parsing' = FALSE /\ valid' = FALSE /\ accepted' = "refused"
        /\ UNCHANGED <<state, buf, head, form>>
    BY <2>1 DEF M!Fails
  <2>3. BadForm
    <3>1. Len(items) \notin 1 .. MaxParts
      BY <1>2, <1>7
    <3> QED
      BY <3>1 DEF BadForm
  <2>4. FormTyped' /\ PartsHeld'
    BY <1>1, <2>2, Zenon DEF FormTyped, PartsHeld
  <2>5. FormVerdict' /\ Starved(w, q)'
    BY <1>1, <2>2, <2>3 DEF FormVerdict, BadForm, Starved
  <2>6. Stretch(buf, w, p, q)'
    BY <1>2, <2>2 DEF Stretch
  <2>7. AtPlace(w, B, C, p)'
    <3>1. ~valid
      BY <1>2
    <3> QED
      BY <1>1, <2>2, <3>1 DEF AtPlace
  <2> QED
    BY <2>4, <2>5, <2>6, <2>7 DEF ParserKept
<1>8. CASE Len(form) # MaxParts
  <2> DEFINE new == [lines |-> head, content |-> <<>>,
                     file |-> \E i \in DOMAIN head : Kind[head[i]] = "file"]
  <2>1. /\ form' = Append(form, new) /\ M!Erase(Len(M!CrLf)) /\ state' = 3
        /\ UNCHANGED <<valid, head, accepted>>
    BY <1>8 DEF M!EmptyLine, M!NewPart
  <2>2. M!Erase(2) /\ 2 \in 0 .. Len(buf)
    <3>1. Len(M!CrLf) = 2
      BY DEF M!CrLf
    <3> QED
      BY <1>2, <1>3, <2>1, <3>1
  <2>3. /\ Stretch(buf, w, p + 2, q)' /\ buf' \in Seq(Byte) /\ parsing' \in BOOLEAN
        /\ (parsing' <=> p + 2 < q)
    BY <1>2, <2>2, EraseKeeps, Zenon
  <2>4. new = [M!Part(items[k]) EXCEPT !.content = <<>>] /\ new \in FormPart
    <3>1. new = [lines |-> l, content |-> <<>>, file |-> \E i \in DOMAIN l : Kind[l[i]] = "file"]
      BY <1>6
    <3>2. M!Part(items[k]) = [lines |-> l, content |-> items[k].content,
                              file |-> \E i \in DOMAIN l : Kind[l[i]] = "file"]
      BY DEF M!Part
    <3>3. <<>> \in Seq(Byte)
      BY NoElement
    <3> DEFINE isFile == \E i \in DOMAIN l : Kind[l[i]] = "file"
    <3>4. isFile \in BOOLEAN
      OBVIOUS
    <3> HIDE DEF isFile, l, new
    <3>5. /\ new = [lines |-> l, content |-> <<>>, file |-> isFile]
          /\ M!Part(items[k]) = [lines |-> l, content |-> items[k].content, file |-> isFile]
      BY <3>1, <3>2 DEF isFile
    <3> QED
      BY <1>5, <3>3, <3>4, <3>5 DEF FormPart
  <2> HIDE DEF new
  <2>5. /\ form' \in Seq(FormPart) /\ Len(form') = k
        /\ form'[k] = new /\ \A i \in 1 .. Len(form) : form'[i] = form[i]
    <3>1. form \in Seq(FormPart)
      BY DEF FormTyped
    <3> QED
      BY <1>2, <2>1, <2>4, <3>1
  <2>6. FormTyped' /\ FormVerdict'
    BY <1>1, <2>1, <2>3, <2>5 DEF FormTyped, FormVerdict, BadForm
  <2>7. PartsHeld'
    <3>1. k <= Len(items) /\ Len(items)' = Len(items) /\ Len(form)' = k
      BY <1>1, <1>2, <2>5
    <3>2. ASSUME NEW i \in 1 .. k, i < k PROVE form'[i] = M!Part(items[i])'
      <4>1. i \in 1 .. Len(form)
        BY <1>2, <3>2
      <4>2. form[i] = M!Part(items[i])
        BY <1>1, <4>1 DEF PartsHeld
      <4>3. M!Part(items[i])' = M!Part(items[i])
        BY <1>1 DEF M!Part
      <4> QED
        BY <2>5, <4>1, <4>2, <4>3
    <3> HIDE DEF k
    <3> QED
      BY <2>1, <2>5, <3>1, <3>2, <1>1 DEF PartsHeld
  <2>8. Starved(w, q)'
    BY <1>2, <1>3, <1>4, <2>3 DEF Starved
  <2>9. AtPlace(w, B, C, p + 2)'
    <3>1. PICK j \in 1 .. Len(items) : j = k
      BY <1>2
    <3>2. j >= 1 /\ Len(form)' = j /\ state' = 3 /\ ~valid' /\ items' = items
      BY <1>1, <1>2, <2>1, <2>5, <3>1
    <3>3. Len(items[j].content) \in Nat
      BY ItemIs
    <3>4. 0 \in 0 .. Len(items[j].content) /\ p + 2 = C[j] + 0 /\ SubSeq(items[j].content, 1, 0) = <<>>
      BY <1>2, <1>4, <3>1, <3>3
    <3>5. form'[j] = [M!Part(items[j]) EXCEPT !.content = <<>>]
      BY <2>4, <2>5, <3>1
    <3>6. \E c \in 0 .. Len(items[j].content) :
              /\ form'[j] = [M!Part(items[j]) EXCEPT !.content = SubSeq(items[j].content, 1, c)]
              /\ p + 2 = C[j] + c
      BY <3>4, <3>5, Zenon
    <3> HIDE DEF k
    <3>7. (M!Part(items[j]))' = M!Part(items[j])
      BY <3>2 DEF M!Part
    <3>8. \E c \in 0 .. Len(items'[Len(form')].content) :
              /\ form'[Len(form')] = [(M!Part(items[Len(form)]))' EXCEPT
                                         !.content = SubSeq(items'[Len(form')].content, 1, c)]
              /\ p + 2 = C[Len(form')] + c
      <4>1. (M!Part(items[Len(form)]))' = (M!Part(items[j]))'
        BY <3>2 DEF M!Part
      <4> QED
        BY <3>2, <3>6, <3>7, <4>1, Zenon
    <3> QED
      BY <3>2, <3>8, Zenon DEF AtPlace
  <2> QED
    BY <2>3, <2>6, <2>7, <2>8, <2>9 DEF ParserKept
<1> QED
  BY <1>7, <1>8

\* In the content of a part, c bytes of it handed out: the delimiter is behind
\* the rest of it.
BodyPlace(w, B, C, k, c, p, q) ==
    LET t == items[k].content IN
    /\ form[k] = [M!Part(items[k]) EXCEPT !.content = SubSeq(t, 1, c)]
    /\ C[k] \in Nat /\ p = C[k] + c
    /\ B[k + 1] + 3 = p + (Len(t) - c) + 5 /\ B[k + 1] + 3 < Len(w)
    /\ \A i \in 1 .. q - p : i <= Len(t) - c => buf[i] = t[c + i]
    /\ M!Found(M!CrLfDashBoundary)
       => /\ p + (Len(t) - c) + 5 <= q
          /\ M!Find(M!CrLfDashBoundary) = Len(t) - c
    /\ p + (Len(t) - c) + 5 <= q => M!Found(M!CrLfDashBoundary)

LEMMA BodyAt ==
    ASSUME FormGiven, FormTyped, NEW w, NEW B, NEW C, NEW p, NEW q, NEW s, FormAt(w, B, C, p, q, s),
           state = 3
    PROVE  \E k \in 1 .. Len(items) :
               /\ k = Len(form) /\ ~valid /\ w \in Seq(Byte) /\ Stretch(buf, w, p, q) /\ buf \in Seq(Byte)
               /\ p \in Nat /\ q \in Nat /\ Len(buf) = q - p /\ Len(w) \in Nat
               /\ items[k].content \in Seq(Byte) /\ Len(items[k].content) \in Nat
               /\ \E c \in 0 .. Len(items[k].content) : BodyPlace(w, B, C, k, c, p, q)
<1>1. /\ w \in Seq(Byte) /\ Text(w, B, C) /\ Stretch(buf, w, p, q) /\ buf \in Seq(Byte) /\ PartsHeld
  BY Zenon DEF FormAt, Text, FormTyped
<1>2. /\ ~valid /\ Len(form) >= 1 /\ Len(form) <= Len(items)
      /\ \E c \in 0 .. Len(items[Len(form)].content) :
             /\ form[Len(form)] = [M!Part(items[Len(form)]) EXCEPT
                                      !.content = SubSeq(items[Len(form)].content, 1, c)]
             /\ p = C[Len(form)] + c
  <2>1. AtPlace(w, B, C, p) /\ Len(form) <= Len(items)
    BY <1>1 DEF FormAt, PartsHeld
  <2>2. ~valid
    BY <2>1 DEF AtPlace
  <2>3. state # 0 /\ state # 1 /\ state # 2 /\ state # 4
    OBVIOUS
  <2> QED
    BY <2>1, <2>2, <2>3, Zenon DEF AtPlace
<1>3. Len(form) \in Nat /\ Len(items) \in Nat
  BY LenProperties DEF FormTyped, FormGiven
<1>4. PICK k \in 1 .. Len(items) : k = Len(form)
  BY <1>2, <1>3
<1> DEFINE t == items[k].content
           o == Len(t)
           d == C[k]
           e == B[k + 1]
<1>5. p \in Nat /\ q \in Nat /\ Len(buf) = q - p
  BY <1>1 DEF Stretch
<1>6. t \in Seq(Byte) /\ o \in Nat
  BY ItemIs
<1>7. /\ d \in Nat /\ e \in Nat /\ Len(w) \in Nat /\ e = d + o + 2 /\ e + 3 < Len(w)
      /\ \A j \in 1 .. o : w[d + j] = t[j] /\ w[d + j] # "b"
      /\ w[d + o + 1] = "r" /\ w[d + o + 2] = "n"
      /\ w[d + o + 3] = "-" /\ w[d + o + 4] = "-" /\ w[d + o + 5] = "b"
  BY <1>1, TextContent
<1>8. PICK c \in 0 .. o : /\ form[k] = [M!Part(items[k]) EXCEPT !.content = SubSeq(t, 1, c)]
                          /\ p = d + c
  BY <1>2, <1>4, Zenon
<1> DEFINE i == o - c
<1> HIDE DEF t, o, d, e
<1>17. o \in Nat /\ d \in Nat /\ p = d + c
  BY <1>6, <1>7, <1>8
<1>14. i \in Nat /\ c \in Nat /\ c + i = o /\ o \in Nat /\ d \in Nat /\ p = d + c
  BY <1>17
<1> HIDE DEF i
<1>16. e \in Nat /\ e = d + o + 2
  BY <1>7
<1>9. /\ i \in Nat /\ p + i + 1 = d + o + 1 /\ p + i + 2 = d + o + 2 /\ p + i + 3 = d + o + 3
      /\ p + i + 4 = d + o + 4 /\ p + i + 5 = d + o + 5 /\ e + 3 = p + i + 5
  BY <1>14, <1>16
<1>10. \A j \in 0 .. i - 1 : w[p + j + 5] # "b"
  <2>1. ASSUME NEW j \in 0 .. i - 1 PROVE w[p + j + 5] # "b"
    <3>1. i \in Nat
      BY <1>9
    <3>2. c + j + 5 \in Nat /\ p + j + 5 = d + (c + j + 5) /\ c + j + 5 >= 1 /\ c + j + 5 < o + 5
      BY <1>14, <3>1
    <3>3. CASE c + j + 5 <= o
      <4>1. c + j + 5 \in 1 .. o
        BY <1>6, <3>2, <3>3
      <4> QED
        BY <1>7, <3>2, <4>1
    <3>4. CASE ~(c + j + 5 <= o)
      <4>1. \/ c + j + 5 = o + 1 \/ c + j + 5 = o + 2 \/ c + j + 5 = o + 3 \/ c + j + 5 = o + 4
        BY <1>6, <3>2, <3>4
      <4>2. \/ p + j + 5 = d + o + 1 \/ p + j + 5 = d + o + 2
            \/ p + j + 5 = d + o + 3 \/ p + j + 5 = d + o + 4
        BY <1>14, <3>2, <4>1
      <4> QED
        BY <1>7, <4>2, Zenon
    <3> QED
      BY <3>3, <3>4
  <2> QED
    BY <2>1
<1>11. /\ w[p + i + 1] = "r" /\ w[p + i + 2] = "n" /\ w[p + i + 3] = "-" /\ w[p + i + 4] = "-"
       /\ w[p + i + 5] = "b"
  BY <1>7, <1>9, Zenon
<1>12. /\ M!Found(M!CrLfDashBoundary) => p + i + 5 <= q /\ M!Find(M!CrLfDashBoundary) = i
       /\ p + i + 5 <= q => M!Found(M!CrLfDashBoundary)
  BY <1>1, <1>9, <1>10, <1>11, BoundaryFound, Zenon
<1>13. ASSUME NEW j \in 1 .. q - p, j <= i PROVE buf[j] = t[c + j]
  <2>1. buf[j] = w[p + j]
    BY <1>1 DEF Stretch
  <2>2. i \in Nat /\ p \in Nat /\ q \in Nat
    BY <1>5, <1>9
  <2>3. c + j \in 1 .. o /\ p + j = d + (c + j)
    BY <1>13, <1>14, <2>2
  <2> QED
    BY <1>7, <2>1, <2>3
<1>15. BodyPlace(w, B, C, k, c, p, q)
  BY <1>5, <1>7, <1>8, <1>9, <1>12, <1>13, Zenon DEF t, o, d, e, i, BodyPlace
<1> QED
  BY <1>1, <1>2, <1>4, <1>5, <1>6, <1>7, <1>15, Zenon DEF t, o

LEMMA BodyEndsKeeps ==
    ASSUME FormGiven, FormTyped, FormVerdict,
           NEW w, NEW B, NEW C, NEW p, NEW q, NEW s, FormAt(w, B, C, p, q, s),
           M!BodyEnds, UNCHANGED <<items, epilogue, sender, segs, buffer, stream, sending, form_wire>>
    PROVE  ParserKept(w, B, C, q)
<1>1. /\ state = 3 /\ parsing /\ M!Found(M!CrLfDashBoundary)
      /\ M!Receive(M!Find(M!CrLfDashBoundary))
      /\ M!Erase(M!Find(M!CrLfDashBoundary) + Len(M!CrLfDashBoundary))
      /\ state' = 4 /\ UNCHANGED <<valid, head, accepted, items, stream, sending, sender>>
      /\ PartsHeld
  BY DEF FormAt, M!BodyEnds, M!InState
<1>2. PICK k \in 1 .. Len(items) :
               /\ k = Len(form) /\ ~valid /\ w \in Seq(Byte) /\ Stretch(buf, w, p, q) /\ buf \in Seq(Byte)
               /\ p \in Nat /\ q \in Nat /\ Len(buf) = q - p /\ Len(w) \in Nat
               /\ items[k].content \in Seq(Byte) /\ Len(items[k].content) \in Nat
               /\ \E c \in 0 .. Len(items[k].content) : BodyPlace(w, B, C, k, c, p, q)
  BY <1>1, BodyAt
<1> DEFINE t == items[k].content
<1>3. /\ ~valid /\ w \in Seq(Byte) /\ Stretch(buf, w, p, q) /\ buf \in Seq(Byte)
      /\ p \in Nat /\ q \in Nat /\ Len(buf) = q - p /\ Len(w) \in Nat
      /\ t \in Seq(Byte) /\ Len(t) \in Nat
  BY <1>2
<1>4. PICK c \in 0 .. Len(t) :
          /\ form[k] = [M!Part(items[k]) EXCEPT !.content = SubSeq(t, 1, c)]
          /\ B[k + 1] + 3 = p + (Len(t) - c) + 5 /\ B[k + 1] + 3 < Len(w)
          /\ \A i \in 1 .. q - p : i <= Len(t) - c => buf[i] = t[c + i]
          /\ M!Find(M!CrLfDashBoundary) = Len(t) - c
          /\ p + (Len(t) - c) + 5 <= q
  <2>1. PICK c \in 0 .. Len(t) : BodyPlace(w, B, C, k, c, p, q)
    BY <1>2
  <2> QED
    BY <1>1, <2>1, Zenon DEF BodyPlace
<1>30. PICK n : n = Len(t) - c
  OBVIOUS
<1>20. p \in Nat /\ q \in Nat /\ Len(buf) = q - p /\ Len(t) \in Nat
  BY <1>3
<1>21. c \in Nat /\ n \in Nat /\ c + n = Len(t) /\ p + n + 5 <= q
  <2>1. p + (Len(t) - c) + 5 <= q
    BY <1>4
  <2> HIDE DEF t
  <2> QED
    BY <1>20, <1>30, <2>1
<1>5. n \in Nat /\ c \in Nat /\ c + n = Len(t) /\ n \in 0 .. Len(buf) /\ n + 5 \in 0 .. Len(buf)
  <2> HIDE DEF t
  <2> QED
    BY <1>20, <1>21
<1>6. SubSeq(t, 1, c) \o SubSeq(buf, 1, n) = t
  <2>1. \A i \in 1 .. n : buf[i] = t[c + i]
    <3>1. \A i \in 1 .. n : i \in 1 .. q - p /\ i <= n
      BY <1>3, <1>5
    <3> QED
      BY <1>4, <1>30, <3>1, Zenon
  <2>2. c + n <= Len(t)
    BY <1>3, <1>5
  <2> HIDE DEF t
  <2>3. SubSeq(t, 1, c) \o SubSeq(buf, 1, n) = SubSeq(t, 1, c + n)
    BY <1>3, <1>5, <2>1, <2>2, PrefixGrows
  <2>4. SubSeq(t, 1, Len(t)) = t
    <3>1. /\ SubSeq(t, 1, Len(t)) \in Seq(Byte) /\ Len(SubSeq(t, 1, Len(t))) = Len(t)
          /\ \A i \in 1 .. Len(t) : SubSeq(t, 1, Len(t))[i] = t[i]
      BY <1>3
    <3> QED
      BY <1>3, <3>1, SeqEqual
  <2> QED
    BY <1>5, <2>3, <2>4, Zenon
<1>7. M!Receive(n) /\ M!Erase(n + 5)
  <2>1. Len(M!CrLfDashBoundary) = 5
    BY BoundaryIs
  <2> QED
    BY <1>1, <1>4, <1>30, <2>1
<1>8. form \in Seq(FormPart) /\ k \in DOMAIN form /\ Len(form) \in Nat
  BY <1>2, LenProperties DEF FormTyped
<1>9. form' = [form EXCEPT ![k].content = @ \o SubSeq(buf, 1, n)]
  BY <1>2, <1>7 DEF M!Receive
<1>10. form'[k] = M!Part(items[k]) /\ \A i \in 1 .. Len(form) : i # k => form'[i] = form[i]
  <2>1. \A i \in 1 .. Len(form) : i # k => form'[i] = form[i]
    BY <1>8, <1>9
  <2>2. form'[k] = [form[k] EXCEPT !.content = form[k].content \o SubSeq(buf, 1, n)]
    BY <1>8, <1>9
  <2> DEFINE isFile == \E i \in DOMAIN items[k].lines : Kind[items[k].lines[i]] = "file"
  <2>3. M!Part(items[k]) = [lines |-> items[k].lines, content |-> t, file |-> isFile]
    BY DEF M!Part
  <2>6. PICK file \in BOOLEAN : file = isFile
    BY Zenon
  <2>7. M!Part(items[k]) = [lines |-> items[k].lines, content |-> t, file |-> file]
    BY <2>3, <2>6
  <2> HIDE DEF isFile, t
  <2>4. form[k] = [lines |-> items[k].lines, content |-> SubSeq(t, 1, c), file |-> file]
    BY <1>4, <2>7
  <2>5. form'[k] = [lines |-> items[k].lines, content |-> SubSeq(t, 1, c) \o SubSeq(buf, 1, n), file |-> file]
    <3>1. form[k].content = SubSeq(t, 1, c)
      BY <2>4
    <3> DEFINE all == SubSeq(t, 1, c) \o SubSeq(buf, 1, n)
    <3>2. form'[k] = [form[k] EXCEPT !.content = all]
      BY <2>2, <3>1
    <3> HIDE DEF all
    <3>3. form'[k] = [lines |-> items[k].lines, content |-> all, file |-> file]
      BY <2>4, <3>2
    <3> QED
      BY <3>3 DEF all
  <2> QED
    BY <1>6, <2>1, <2>5, <2>7, Zenon
<1>11. M!Part(items[k]) \in FormPart
  <2>1. items[k] \in FormItem
    BY ItemIs
  <2> DEFINE isFile == \E i \in DOMAIN items[k].lines : Kind[items[k].lines[i]] = "file"
  <2>2. M!Part(items[k]) = [lines |-> items[k].lines, content |-> items[k].content, file |-> isFile]
    BY DEF M!Part
  <2>3. isFile \in BOOLEAN
    OBVIOUS
  <2> HIDE DEF isFile
  <2> QED
    BY <2>1, <2>2, <2>3 DEF FormItem, FormPart
<1>12. form' \in Seq(FormPart) /\ Len(form') = Len(form)
  <2> DEFINE new == [form[k] EXCEPT !.content = form[k].content \o SubSeq(buf, 1, n)]
  <2>1. form' = [form EXCEPT ![k] = new] /\ new = form'[k]
    BY <1>8, <1>9
  <2> HIDE DEF new
  <2>2. new \in FormPart
    BY <1>10, <1>11, <2>1
  <2> QED
    BY <1>8, <2>1, <2>2
<1>13. /\ Stretch(buf, w, p + (n + 5), q)' /\ buf' \in Seq(Byte) /\ parsing' \in BOOLEAN
       /\ (parsing' <=> p + (n + 5) < q)
  <2> DEFINE v == n + 5
  <2>1. v \in 0 .. Len(buf) /\ M!Erase(v)
    BY <1>5, <1>7
  <2> HIDE DEF v
  <2>3. w \in Seq(Byte) /\ buf \in Seq(Byte) /\ Stretch(buf, w, p, q)
    BY <1>3
  <2>2. /\ Stretch(buf, w, p + v, q)' /\ buf' \in Seq(Byte) /\ parsing' \in BOOLEAN
        /\ (parsing' <=> p + v < q)
    BY <2>1, <2>3, EraseKeeps
  <2> QED
    BY <2>2 DEF v
<1>14. p + (n + 5) = B[k + 1] + 3
  <2>1. B[k + 1] + 3 = p + n + 5
    BY <1>4, <1>30
  <2> QED
    BY <1>20, <1>21, <2>1
<1>15. FormTyped' /\ FormVerdict'
  BY <1>1, <1>12, <1>13 DEF FormTyped, FormVerdict, BadForm
<1>16. PartsHeld'
  <2>1. \A i \in 1 .. Len(form) : form'[i] = M!Part(items[i])
    <3>1. ASSUME NEW i \in 1 .. Len(form), i # k PROVE form'[i] = M!Part(items[i])
      <4>1. i < Len(form)
        BY <1>2, <1>8, <3>1
      <4> QED
        BY <1>1, <1>10, <3>1, <4>1 DEF PartsHeld
    <3> QED
      BY <1>10, <3>1
  <2>2. \A i : (M!Part(items[i]))' = M!Part(items[i])
    BY <1>1 DEF M!Part
  <2> QED
    BY <1>1, <1>12, <2>1, <2>2 DEF PartsHeld
<1>17. Starved(w, q)'
  <2>1. B[k + 1] + 3 < Len(w) /\ Len(w) \in Nat
    BY <1>3, <1>4
  <2>2. ~parsing' => q <= p + (n + 5)
    BY <1>13, <1>20, <1>21
  <2>3. ~parsing' => q < Len(w)
    BY <1>14, <1>20, <1>21, <2>1, <2>2
  <2> QED
    BY <2>3 DEF Starved
<1>18. AtPlace(w, B, C, p + (n + 5))'
  <2>1. Len(form)' = k /\ k >= 1 /\ state' = 4 /\ ~valid'
    BY <1>1, <1>2, <1>3, <1>12
  <2>2. p + (n + 5) = B[Len(form') + 1] + 3 /\ Len(form') >= 1
    BY <1>14, <2>1
  <2> QED
    BY <2>1, <2>2 DEF AtPlace
<1> QED
  BY <1>13, <1>15, <1>16, <1>17, <1>18 DEF ParserKept

LEMMA PartContent ==
    ASSUME NEW l, NEW x, NEW y, NEW f, NEW u, NEW r, u = [lines |-> l, content |-> x, file |-> f],
           r = [u EXCEPT !.content = y]
    PROVE  r = [lines |-> l, content |-> y, file |-> f] /\ r.content = y
<1>1. r = [lines |-> l, content |-> y, file |-> f]
  OBVIOUS
<1> QED
  BY <1>1

LEMMA StreamMoves ==
    ASSUME NEW x \in [plain : Nat, item : Nat, start : Nat, offset : Nat],
           NEW o \in Nat, NEW b \in Nat, NEW i \in Nat, NEW y, NEW z,
           y = [x EXCEPT !.offset = o, !.start = b, !.item = i],
           z = [x EXCEPT !.offset = o, !.start = b]
    PROVE  /\ y.plain = x.plain /\ y.item = i /\ y.start = b /\ y.offset = o
           /\ y \in [plain : Nat, item : Nat, start : Nat, offset : Nat]
           /\ z.plain = x.plain /\ z.item = x.item /\ z.start = b /\ z.offset = o
           /\ z \in [plain : Nat, item : Nat, start : Nat, offset : Nat]
<1>1. y.plain = x.plain /\ y.item = i /\ y.start = b /\ y.offset = o
  OBVIOUS
<1>2. y \in [plain : Nat, item : Nat, start : Nat, offset : Nat]
  BY Zenon
<1>3. z.plain = x.plain /\ z.item = x.item /\ z.start = b /\ z.offset = o
  OBVIOUS
<1>4. z \in [plain : Nat, item : Nat, start : Nat, offset : Nat]
  BY Zenon
<1> QED
  BY <1>1, <1>2, <1>3, <1>4

\* No delimiter in the buffer: it ends before the delimiter does.
LEMMA BodyGoesOnKeeps ==
    ASSUME FormGiven, FormTyped, FormVerdict,
           NEW w, NEW B, NEW C, NEW p, NEW q, NEW s, FormAt(w, B, C, p, q, s),
           M!BodyGoesOn, UNCHANGED <<items, epilogue, sender, segs, buffer, stream, sending, form_wire>>
    PROVE  ParserKept(w, B, C, q)
<1>1. /\ state = 3 /\ parsing /\ ~M!Found(M!CrLfDashBoundary)
      /\ UNCHANGED <<items, stream, sending, sender>>
      /\ PartsHeld /\ AtPlace(w, B, C, p)
  BY DEF FormAt, M!BodyGoesOn, M!InState
<1>2. PICK k \in 1 .. Len(items) :
               /\ k = Len(form) /\ ~valid /\ w \in Seq(Byte) /\ Stretch(buf, w, p, q) /\ buf \in Seq(Byte)
               /\ p \in Nat /\ q \in Nat /\ Len(buf) = q - p /\ Len(w) \in Nat
               /\ items[k].content \in Seq(Byte) /\ Len(items[k].content) \in Nat
               /\ \E c \in 0 .. Len(items[k].content) : BodyPlace(w, B, C, k, c, p, q)
  BY <1>1, BodyAt
<1> DEFINE t == items[k].content
<1>3. /\ ~valid /\ w \in Seq(Byte) /\ Stretch(buf, w, p, q) /\ buf \in Seq(Byte)
      /\ p \in Nat /\ q \in Nat /\ Len(buf) = q - p /\ Len(w) \in Nat
      /\ t \in Seq(Byte) /\ Len(t) \in Nat
  BY <1>2
<1>4. PICK c \in 0 .. Len(t) :
          /\ form[k] = [M!Part(items[k]) EXCEPT !.content = SubSeq(t, 1, c)]
          /\ C[k] \in Nat /\ p = C[k] + c
          /\ B[k + 1] + 3 = p + (Len(t) - c) + 5 /\ B[k + 1] + 3 < Len(w)
          /\ \A i \in 1 .. q - p : i <= Len(t) - c => buf[i] = t[c + i]
          /\ ~(p + (Len(t) - c) + 5 <= q)
  <2>1. PICK c \in 0 .. Len(t) : BodyPlace(w, B, C, k, c, p, q)
    BY <1>2
  <2> QED
    BY <1>1, <2>1, Zenon DEF BodyPlace
<1>5. q < Len(w) /\ c \in Nat
  <2>1. /\ ~(p + (Len(t) - c) + 5 <= q) /\ B[k + 1] + 3 = p + (Len(t) - c) + 5 /\ B[k + 1] + 3 < Len(w)
        /\ c \in 0 .. Len(t)
    BY <1>4
  <2>2. p \in Nat /\ q \in Nat /\ Len(w) \in Nat /\ Len(t) \in Nat
    BY <1>3
  <2> HIDE DEF t
  <2>3. PICK e : e = B[k + 1] + 3
    OBVIOUS
  <2> QED
    BY <2>1, <2>2, <2>3
<1>6. CASE ~(Len(buf) > 5)
  <2>1. Len(M!CrLfDashBoundary) = 5
    BY BoundaryIs
  <2>2. M!Waits
    BY <1>6, <2>1 DEF M!BodyGoesOn
  <2>3. parsing' = FALSE /\ UNCHANGED <<state, valid, buf, head, form, accepted>>
    BY <2>2 DEF M!Waits
  <2>4. FormTyped' /\ FormVerdict' /\ PartsHeld'
    BY <1>1, <2>3, Zenon DEF FormTyped, FormVerdict, BadForm, PartsHeld, M!Part
  <2>5. Starved(w, q)' /\ Stretch(buf, w, p, q)'
    BY <1>3, <1>5, <2>3 DEF Starved, Stretch
  <2>6. AtPlace(w, B, C, p)'
    <3>1. (M!Part(items[Len(form)]))' = M!Part(items[Len(form)])
      BY <1>1, <2>3 DEF M!Part
    <3> QED
      BY <1>1, <1>3, <2>3, <3>1, Zenon DEF AtPlace
  <2> QED
    BY <2>4, <2>5, <2>6 DEF ParserKept
<1>7. CASE Len(buf) > 5
  <2>1. PICK n : n = Len(buf) - 5
    OBVIOUS
  <2>2. n \in Nat /\ n \in 0 .. Len(buf) /\ c + n <= Len(t) /\ n <= q - p
    <3>1. ~(p + (Len(t) - c) + 5 <= q) /\ c \in 0 .. Len(t)
      BY <1>4
    <3>2. p \in Nat /\ q \in Nat /\ Len(buf) = q - p /\ Len(t) \in Nat
      BY <1>3
    <3> HIDE DEF t
    <3> QED
      BY <1>7, <2>1, <3>1, <3>2
  <2>3. /\ M!Receive(n) /\ buf' = SubSeq(buf, n + 1, Len(buf)) /\ parsing' = FALSE
        /\ UNCHANGED <<state, valid, head, accepted>>
    <3>1. Len(M!CrLfDashBoundary) = 5
      BY BoundaryIs
    <3> QED
      BY <1>1, <1>7, <2>1, <3>1 DEF M!BodyGoesOn
  <2>4. SubSeq(t, 1, c) \o SubSeq(buf, 1, n) = SubSeq(t, 1, c + n)
    <3>1. \A i \in 1 .. n : i \in 1 .. q - p /\ i <= Len(t) - c
      <4>1. c \in Nat /\ p \in Nat /\ q \in Nat /\ Len(t) \in Nat
        BY <1>3, <1>5
      <4> HIDE DEF t
      <4> QED
        BY <2>2, <4>1
    <3>2. \A i \in 1 .. n : buf[i] = t[c + i]
      BY <1>4, <3>1, Zenon
    <3> HIDE DEF t
    <3> QED
      BY <1>3, <1>5, <2>2, <3>2, PrefixGrows
  <2>5. form \in Seq(FormPart) /\ k \in DOMAIN form /\ Len(form) \in Nat
    BY <1>2, LenProperties DEF FormTyped
  <2>6. form' = [form EXCEPT ![k].content = @ \o SubSeq(buf, 1, n)]
    BY <1>2, <2>3 DEF M!Receive
  <2>7. PICK file \in BOOLEAN : M!Part(items[k]) = [lines |-> items[k].lines, content |-> t, file |-> file]
    <3> DEFINE isFile == \E i \in DOMAIN items[k].lines : Kind[items[k].lines[i]] = "file"
    <3>1. M!Part(items[k]) = [lines |-> items[k].lines, content |-> t, file |-> isFile]
      BY DEF M!Part
    <3>2. isFile \in BOOLEAN
      OBVIOUS
    <3> HIDE DEF isFile
    <3> QED
      BY <3>1, <3>2
  <2> DEFINE all == SubSeq(t, 1, c + n)
  <2>8. all \in Seq(Byte)
    BY <1>3, <1>5, <2>2
  <2>9. items[k].lines \in Seq(Byte)
    BY ItemIs
  <2>10. /\ form' = [form EXCEPT ![k] = [form[k] EXCEPT !.content = all]]
         /\ form[k] = [lines |-> items[k].lines, content |-> SubSeq(t, 1, c), file |-> file]
    <3>1. form[k] = [M!Part(items[k]) EXCEPT !.content = SubSeq(t, 1, c)]
      BY <1>4
    <3>2. /\ form[k] = [lines |-> items[k].lines, content |-> SubSeq(t, 1, c), file |-> file]
          /\ form[k].content = SubSeq(t, 1, c)
      <4>1. PICK u, l, y : u = M!Part(items[k]) /\ l = items[k].lines /\ y = SubSeq(t, 1, c)
        BY Zenon
      <4>2. u = [lines |-> l, content |-> t, file |-> file]
        BY <2>7, <4>1
      <4>3. form[k] = [u EXCEPT !.content = y]
        BY <3>1, <4>1
      <4>4. form[k] = [lines |-> l, content |-> y, file |-> file] /\ form[k].content = y
        BY <4>2, <4>3, PartContent
      <4> QED
        BY <4>1, <4>4, Zenon
    <3>3. form[k].content \o SubSeq(buf, 1, n) = all
      BY <2>4, <3>2, Zenon
    <3>4. form' = [form EXCEPT ![k] = [form[k] EXCEPT !.content = form[k].content \o SubSeq(buf, 1, n)]]
      BY <2>5, <2>6
    <3> HIDE DEF all
    <3> QED
      BY <3>2, <3>3, <3>4, Zenon
  <2> HIDE DEF t, all
  <2>11. [form[k] EXCEPT !.content = all] = [lines |-> items[k].lines, content |-> all, file |-> file]
    BY <2>10
  <2>12. [form[k] EXCEPT !.content = all] \in FormPart
    BY <2>8, <2>9, <2>11 DEF FormPart
  <2>13. /\ form' \in Seq(FormPart) /\ Len(form') = Len(form)
         /\ form'[k] = [lines |-> items[k].lines, content |-> all, file |-> file]
         /\ \A i \in 1 .. Len(form) : i # k => form'[i] = form[i]
    <3> DEFINE new == [form[k] EXCEPT !.content = all]
    <3>1. form' = [form EXCEPT ![k] = new] /\ new \in FormPart
      BY <2>10, <2>12
    <3> HIDE DEF new
    <3>2. /\ form' \in Seq(FormPart) /\ Len(form') = Len(form) /\ form'[k] = new
          /\ \A i \in 1 .. Len(form) : i # k => form'[i] = form[i]
      BY <2>5, <3>1
    <3> QED
      BY <2>11, <3>2 DEF new
  <2>14. /\ Stretch(buf, w, p + n, q)' /\ buf' \in Seq(Byte)
    <3>1. Stretch(SubSeq(buf, n + 1, Len(buf)), w, p + n, q) /\ SubSeq(buf, n + 1, Len(buf)) \in Seq(Byte)
      <4>1. w \in Seq(Byte) /\ buf \in Seq(Byte) /\ Stretch(buf, w, p, q)
        BY <1>3
      <4> QED
        BY <2>2, <4>1, StretchCut
    <3> QED
      BY <2>3, <3>1, Zenon DEF Stretch
  <2>15. FormTyped' /\ FormVerdict'
    BY <1>1, <2>3, <2>13, <2>14, Zenon DEF FormTyped, FormVerdict, BadForm
  <2>16. PartsHeld'
    <3>1. \A i : (M!Part(items[i]))' = M!Part(items[i])
      BY <1>1 DEF M!Part
    <3>2. ASSUME NEW i \in 1 .. Len(form), i < Len(form) PROVE form'[i] = M!Part(items[i])
      <4>1. i # k
        BY <1>2, <2>5, <3>2
      <4> QED
        BY <1>1, <2>13, <3>2, <4>1 DEF PartsHeld
    <3> QED
      BY <1>1, <2>3, <2>13, <3>1, <3>2 DEF PartsHeld
  <2>17. Starved(w, q)'
    BY <1>5 DEF Starved
  <2>18. AtPlace(w, B, C, p + n)'
    <3>1. Len(form') = k /\ k >= 1 /\ state' = 3 /\ ~valid' /\ items' = items
      BY <1>1, <1>2, <1>3, <2>3, <2>13
    <3>2. c + n \in 0 .. Len(t) /\ p + n = C[k] + (c + n)
      <4>1. p = C[k] + c /\ C[k] \in Nat
        BY <1>4
      <4>2. c \in Nat /\ n \in Nat /\ c + n <= Len(t) /\ Len(t) \in Nat
        BY <1>3, <1>5, <2>2
      <4> QED
        BY <4>1, <4>2
    <3>3. form'[k] = [M!Part(items[k]) EXCEPT !.content = all]
      BY <2>7, <2>13
    <3>4. \E x \in 0 .. Len(items[k].content) :
              /\ form'[k] = [M!Part(items[k]) EXCEPT !.content = SubSeq(items[k].content, 1, x)]
              /\ p + n = C[k] + x
      BY <3>2, <3>3, Zenon DEF t, all
    <3>5. (M!Part(items[Len(form)]))' = M!Part(items[k])
      BY <3>1 DEF M!Part
    <3>6. \E x \in 0 .. Len(items'[Len(form')].content) :
              /\ form'[Len(form')] = [(M!Part(items[Len(form)]))' EXCEPT
                                         !.content = SubSeq(items'[Len(form')].content, 1, x)]
              /\ p + n = C[Len(form')] + x
      BY <3>1, <3>4, <3>5, Zenon
    <3> QED
      BY <3>1, <3>6, Zenon DEF AtPlace
  <2> QED
    BY <2>14, <2>15, <2>16, <2>17, <2>18 DEF ParserKept
<1> QED
  BY <1>6, <1>7

\* Behind the boundary of a part: a line end, and the next part; behind the last
\* one: dashes, and the end.
LEMMA AfterBoundaryKeeps ==
    ASSUME FormGiven, FormTyped, FormVerdict,
           NEW w, NEW B, NEW C, NEW p, NEW q, NEW s, FormAt(w, B, C, p, q, s),
           M!AfterBoundary, UNCHANGED <<items, epilogue, sender, segs, buffer, stream, sending, form_wire>>
    PROVE  ParserKept(w, B, C, q)
<1>1. /\ state = 4 /\ parsing /\ UNCHANGED <<items, stream, sending, sender, segs, buffer, form_wire>>
      /\ Text(w, B, C) /\ w \in Seq(Byte) /\ Stretch(buf, w, p, q) /\ buf \in Seq(Byte)
      /\ PartsHeld /\ AtPlace(w, B, C, p)
  BY Zenon DEF FormAt, M!AfterBoundary, M!InState, Text, FormTyped
<1>2. /\ p \in Nat /\ q \in Nat /\ p <= q /\ q <= Len(w) /\ Len(buf) = q - p
  BY <1>1 DEF Stretch
<1> DEFINE crlf == M!Find(M!CrLf) = 0 /\ M!Found(M!CrLf)
           dashes == M!Find(M!Dashes) = 0 /\ M!Found(M!Dashes)
<1>3. /\ crlf <=> p + 2 <= q /\ w[p + 1] = "r" /\ w[p + 2] = "n"
      /\ dashes <=> p + 2 <= q /\ w[p + 1] = "-" /\ w[p + 2] = "-"
  BY <1>1, FirstIs
<1>4. /\ UNCHANGED <<head, form, accepted>>
      /\ \/ crlf /\ M!Erase(2) /\ state' = 1 /\ valid' = valid
         \/ ~crlf /\ dashes /\ valid' = TRUE /\ M!Erase(Len(buf)) /\ state' = state
         \/ ~crlf /\ ~dashes /\ parsing' = FALSE /\ UNCHANGED <<state, valid, buf>>
  <2>1. Len(M!CrLf) = 2
    BY DEF M!CrLf
  <2> QED
    BY <2>1 DEF M!AfterBoundary, M!Waits
<1> HIDE DEF crlf, dashes
<1>5. accepted = "reading" /\ valid \in BOOLEAN
  BY <1>1 DEF FormVerdict, FormTyped
<1>6. ASSUME buf' \in Seq(Byte), parsing' \in BOOLEAN, valid' \in BOOLEAN PROVE FormTyped' /\ FormVerdict'
  BY <1>1, <1>4, <1>5, <1>6 DEF FormTyped, FormVerdict, BadForm
<1>7. PartsHeld'
  <2>1. state # 3 /\ state' # 3
    BY <1>1, <1>4
  <2>2. \A i : (M!Part(items[i]))' = M!Part(items[i])
    BY <1>1 DEF M!Part
  <2> QED
    BY <1>1, <1>4, <2>1, <2>2 DEF PartsHeld
<1>8. crlf => /\ Stretch(buf, w, p + 2, q)' /\ buf' \in Seq(Byte) /\ parsing' \in BOOLEAN
              /\ (parsing' <=> p + 2 < q)
  <2>1. ASSUME crlf
        PROVE  /\ Stretch(buf, w, p + 2, q)' /\ buf' \in Seq(Byte) /\ parsing' \in BOOLEAN
               /\ (parsing' <=> p + 2 < q)
    <3>1. 2 \in 0 .. Len(buf) /\ M!Erase(2)
      BY <1>2, <1>3, <1>4, <2>1
    <3> QED
      BY <1>1, <3>1, EraseKeeps
  <2> QED
    BY <2>1
<1>9. ~crlf /\ dashes => /\ Stretch(buf, w, q, q)' /\ buf' \in Seq(Byte) /\ parsing' \in BOOLEAN
  <2>1. ASSUME ~crlf, dashes
        PROVE  /\ Stretch(buf, w, q, q)' /\ buf' \in Seq(Byte) /\ parsing' \in BOOLEAN
    <3>1. PICK n : n = Len(buf)
      BY Zenon
    <3>2. n \in 0 .. Len(buf) /\ M!Erase(n)
      BY <1>2, <1>4, <2>1, <3>1
    <3>3. Stretch(buf, w, p + n, q)' /\ buf' \in Seq(Byte) /\ parsing' \in BOOLEAN
      BY <1>1, <3>2, EraseKeeps
    <3>4. p + n = q
      BY <1>2, <3>1
    <3> QED
      BY <3>3, <3>4
  <2> QED
    BY <2>1
<1>10. ~crlf /\ ~dashes => /\ Stretch(buf, w, p, q)' /\ buf' \in Seq(Byte) /\ parsing' \in BOOLEAN
  BY <1>1, <1>4, Zenon DEF Stretch
<1>11. Len(form) \in Nat /\ Len(items) \in Nat /\ Len(w) \in Nat
  BY <1>1, LenProperties DEF FormTyped, FormGiven
<1> DEFINE e == B[Len(items) + 1]
<1>12. /\ e \in Nat /\ Len(w) = e + 7
       /\ w[e + 4] = "-" /\ w[e + 5] = "-" /\ w[e + 6] = "r" /\ w[e + 7] = "n"
  BY <1>1, TextEnd
<1> HIDE DEF e
<1>13. CASE valid
  <2>1. Len(form) = Len(items) /\ p >= e + 5
    BY <1>1, <1>13 DEF AtPlace, e
  <2>2. ~dashes
    <3>1. ASSUME dashes PROVE FALSE
      <4>1. p + 2 <= q /\ w[p + 1] = "-"
        BY <1>3, <3>1
      <4>2. p + 1 = e + 6
        BY <1>2, <1>12, <2>1, <4>1
      <4> QED
        BY <1>12, <4>1, <4>2
    <3> QED
      BY <3>1
  <2>3. valid' = TRUE /\ items' = items /\ form' = form
    BY <1>1, <1>4, <1>13, <1>5, <2>2, Zenon
  <2>4. Starved(w, q)'
    BY <2>3 DEF Starved
  <2>5. CASE crlf
    <3>1. p + 2 = Len(w) /\ q = Len(w)
      BY <1>2, <1>3, <1>12, <2>1, <2>5
    <3>2. ~parsing'
      BY <1>8, <1>11, <2>5, <3>1
    <3>3. AtPlace(w, B, C, p + 2)'
      BY <1>4, <2>1, <2>3, <2>5, <3>1, <3>2 DEF AtPlace
    <3> QED
      BY <1>6, <1>7, <1>8, <2>3, <2>4, <2>5, <3>3 DEF ParserKept
  <2>6. CASE ~crlf
    <3>1. state' = 4
      BY <1>1, <1>4, <2>2, <2>6
    <3>2. p >= B[Len(form') + 1] + 5
      BY <2>1, <2>3 DEF e
    <3>3. AtPlace(w, B, C, p)'
      BY <2>1, <2>3, <3>1, <3>2 DEF AtPlace
    <3> QED
      BY <1>6, <1>7, <1>10, <2>2, <2>3, <2>4, <2>6, <3>3 DEF ParserKept
  <2> QED
    BY <2>5, <2>6
<1>14. CASE ~valid
  <2>1. Len(form) >= 1 /\ Len(form) <= Len(items) /\ p = B[Len(form) + 1] + 3
    <3>1. state # 0 /\ state # 1 /\ state # 2 /\ state # 3
      BY <1>1
    <3>2. Len(form) <= Len(items)
      BY <1>1 DEF PartsHeld
    <3> QED
      BY <1>1, <1>14, <3>1, <3>2, Zenon DEF AtPlace
  <2>2. CASE Len(form) < Len(items)
    <3>1. PICK k \in 1 .. Len(items) : k = Len(form) + 1
      BY <1>11, <2>2
    <3>2. /\ w[B[k] + 4] = "r" /\ w[B[k] + 5] = "n" /\ B[k] + 5 < Len(w) /\ B[k] \in Nat
      BY <1>1, FirstBoundary
    <3>3. p = B[k] + 3
      BY <2>1, <3>1
    <3>4. p + 1 = B[k] + 4 /\ p + 2 = B[k] + 5
      BY <3>2, <3>3
    <3>5. w[p + 1] = "r" /\ w[p + 2] = "n" /\ p + 2 < Len(w)
      BY <3>2, <3>4, Zenon
    <3>6. ~dashes /\ (crlf <=> p + 2 <= q)
      BY <1>3, <3>5
    <3>7. ~valid' /\ valid' \in BOOLEAN /\ items' = items /\ form' = form
      BY <1>1, <1>4, <1>5, <1>14, <3>6
    <3>8. CASE crlf
      <4>1. Starved(w, q)'
        <5>1. ~parsing' => q < Len(w)
          BY <1>2, <1>8, <1>11, <3>5, <3>8
        <5> QED
          BY <5>1 DEF Starved
      <4>2. AtPlace(w, B, C, p + 2)'
        <5>1. state' = 1 /\ Len(form') < Len(items') /\ p + 2 = B[Len(form') + 1] + 5
          BY <1>4, <2>2, <3>1, <3>4, <3>7, <3>8
        <5> QED
          BY <3>7, <5>1 DEF AtPlace
      <4> QED
        BY <1>6, <1>7, <1>8, <3>7, <3>8, <4>1, <4>2 DEF ParserKept
    <3>9. CASE ~crlf
      <4>1. Starved(w, q)'
        <5>1. q < Len(w)
          BY <1>2, <1>11, <3>5, <3>6, <3>9
        <5> QED
          BY <5>1 DEF Starved
      <4>2. AtPlace(w, B, C, p)'
        <5>1. state' = 4 /\ Len(form') >= 1 /\ p = B[Len(form') + 1] + 3
          BY <1>1, <1>4, <2>1, <3>6, <3>7, <3>9
        <5> QED
          BY <3>7, <5>1 DEF AtPlace
      <4> QED
        BY <1>6, <1>7, <1>10, <3>6, <3>7, <3>9, <4>1, <4>2 DEF ParserKept
    <3> QED
      BY <3>8, <3>9
  <2>3. CASE Len(form) = Len(items)
    <3>1. p = e + 3
      BY <2>1, <2>3 DEF e
    <3>2. p + 1 = e + 4 /\ p + 2 = e + 5 /\ p + 2 < Len(w)
      BY <1>12, <3>1
    <3>3. w[p + 1] = "-" /\ w[p + 2] = "-"
      BY <1>12, <3>2
    <3>4. ~crlf /\ (dashes <=> p + 2 <= q)
      BY <1>3, <3>3
    <3>5. CASE dashes
      <4>1. valid' = TRUE /\ state' = 4 /\ items' = items /\ form' = form
        BY <1>1, <1>4, <3>4, <3>5
      <4>2. Starved(w, q)'
        BY <4>1 DEF Starved
      <4>3. q >= B[Len(form') + 1] + 5
        <5>1. q >= e + 5
          BY <1>2, <1>12, <3>2, <3>4, <3>5
        <5> QED
          BY <2>3, <4>1, <5>1 DEF e
      <4>4. AtPlace(w, B, C, q)'
        BY <2>3, <4>1, <4>3 DEF AtPlace
      <4> QED
        BY <1>6, <1>7, <1>9, <3>4, <3>5, <4>1, <4>2, <4>4 DEF ParserKept
    <3>6. CASE ~dashes
      <4>1. ~valid' /\ valid' \in BOOLEAN /\ state' = 4 /\ items' = items /\ form' = form
        BY <1>1, <1>4, <1>5, <1>14, <3>4, <3>6
      <4>2. Starved(w, q)'
        <5>1. q < Len(w)
          BY <1>2, <1>11, <3>2, <3>4, <3>6
        <5> QED
          BY <5>1 DEF Starved
      <4>3. AtPlace(w, B, C, p)'
        <5>1. Len(form') >= 1 /\ p = B[Len(form') + 1] + 3
          BY <2>1, <4>1
        <5> QED
          BY <4>1, <5>1 DEF AtPlace
      <4> QED
        BY <1>6, <1>7, <1>10, <3>4, <3>6, <4>1, <4>2, <4>3 DEF ParserKept
    <3> QED
      BY <3>5, <3>6
  <2> QED
    BY <1>11, <2>1, <2>2, <2>3
<1> QED
  BY <1>13, <1>14

-----------------------------------------------------------------------------
(* A step of the parser, and of the reader                                   *)

\* The form that is sent does not change.
LEMMA TextStays ==
    ASSUME FormGiven, NEW w, NEW B, NEW C, Text(w, B, C), UNCHANGED <<items, epilogue>>
    PROVE  FormGiven' /\ Text(w, B, C)'
<1>1. items' = items /\ epilogue' = epilogue
  OBVIOUS
<1> QED
  BY <1>1 DEF FormGiven, Text

LEMMA SentStays ==
    ASSUME NEW w, NEW B, NEW C, NEW s, SentUpTo(w, B, C, s),
           UNCHANGED <<items, segs, buffer, stream, sending, sender>>
    PROVE  SentUpTo(w, B, C, s)'
<1>1. /\ items' = items /\ segs' = segs /\ buffer' = buffer /\ stream' = stream
      /\ sending' = sending /\ sender' = sender
  OBVIOUS
<1>2. \A o : Strung(segs, w, o)' <=> Strung(segs, w, o)
  BY <1>1 DEF Strung, Stretch
<1>3. \A r : Stretch(buffer, w, s, r)' <=> Stretch(buffer, w, s, r)
  BY <1>1 DEF Stretch
<1>4. sending' = "yes" /\ sender' = "segments" =>
           \E o : /\ Strung(segs, w, o)' /\ o[Len(segs') + 1] = Len(w)
                  /\ Stretch(buffer, w, s, o[1])' /\ Len(buffer') < SendBuffer
  BY <1>1, <1>2, <1>3 DEF SentUpTo
<1>5. sending' = "yes" /\ sender' = "segments" =>
           (\E o : /\ Strung(segs, w, o) /\ o[Len(segs) + 1] = Len(w)
                   /\ Stretch(buffer, w, s, o[1]) /\ Len(buffer) < SendBuffer)'
  BY <1>4
<1>6. sending' = "done" => s = Len(w)
  BY <1>1 DEF SentUpTo
<1>7. sending' = "yes" /\ sender' = "stream" =>
           (\/ /\ stream.offset = 0 /\ stream.start = 0 /\ stream.plain \in 1 .. Len(items)
               /\ stream.item = stream.plain + 1 /\ s = B[1]
            \/ /\ stream.offset > 0 \/ stream.plain = 0
               /\ stream.start = 0 /\ stream.item \in 1 .. Len(items) + 1 /\ s = B[stream.item]
            \/ /\ stream.start > 0 /\ stream.offset >= stream.start /\ stream.item \in 1 .. Len(items)
               /\ stream.offset - stream.start <= Len(items[stream.item].content)
               /\ s = C[stream.item] + (stream.offset - stream.start))'
  BY <1>1 DEF SentUpTo
<1> QED
  BY <1>5, <1>6, <1>7 DEF SentUpTo

LEMMA FormParseKeeps ==
    ASSUME FormInv, MaxParts \in Nat, M!Parse
    PROVE  FormInv'
<1>1. /\ FormGiven /\ FormTyped /\ FormVerdict
      /\ UNCHANGED <<items, epilogue, sender, segs, buffer, stream, sending, form_wire>>
  BY DEF FormInv, M!Parse, M!provider
<1>2. PICK w, B, C, p, q, s : FormAt(w, B, C, p, q, s)
  BY DEF FormInv
<1>3. ParserKept(w, B, C, q)
  <2>1. CASE M!InitialBoundary
    BY <1>1, <1>2, <2>1, InitialBoundaryKeeps
  <2>2. CASE M!NewEntry
    BY <1>1, <1>2, <2>2, NewEntryKeeps
  <2>3. CASE M!HeaderLine
    BY <1>1, <1>2, <2>3, HeaderLineKeeps
  <2>4. CASE M!EmptyLine
    BY <1>1, <1>2, <2>4, EmptyLineKeeps
  <2>5. CASE M!HeaderWaits
    BY <1>1, <1>2, <2>5, HeaderWaitsKeeps
  <2>6. CASE M!BodyEnds
    BY <1>1, <1>2, <2>6, BodyEndsKeeps
  <2>7. CASE M!BodyGoesOn
    BY <1>1, <1>2, <2>7, BodyGoesOnKeeps
  <2>8. CASE M!AfterBoundary
    BY <1>1, <1>2, <2>8, AfterBoundaryKeeps
  <2> QED
    BY <2>1, <2>2, <2>3, <2>4, <2>5, <2>6, <2>7, <2>8 DEF M!Parse
<1>4. FormGiven' /\ Text(w, B, C)'
  BY <1>1, <1>2, TextStays DEF FormAt
<1>5. SentUpTo(w, B, C, s)'
  BY <1>1, <1>2, SentStays DEF FormAt
<1>6. Stretch(form_wire, w, q, s)'
  <2>1. form_wire' = form_wire /\ Stretch(form_wire, w, q, s)
    BY <1>1, <1>2 DEF FormAt
  <2> QED
    BY <2>1 DEF Stretch
<1>7. PICK r : Stretch(buf, w, r, q)' /\ AtPlace(w, B, C, r)'
  BY <1>3 DEF ParserKept
<1>8. FormAt(w, B, C, r, q, s)'
  BY <1>3, <1>4, <1>5, <1>6, <1>7 DEF FormAt, ParserKept
<1>9. (\E w_, B_, C_, p_, q_, s_ : FormAt(w_, B_, C_, p_, q_, s_))'
  BY <1>8
<1> QED
  BY <1>3, <1>4, <1>9 DEF FormInv, ParserKept

\* What arrives goes behind what the parser has.
LEMMA FormArriveKeeps ==
    ASSUME FormInv, M!Arrive
    PROVE  FormInv'
<1>1. /\ FormGiven /\ FormTyped /\ FormVerdict /\ accepted = "reading" /\ ~parsing
      /\ UNCHANGED <<items, epilogue, sender, segs, buffer, stream, sending, state, valid, head, form, accepted>>
      /\ parsing' = TRUE
  BY DEF FormInv, M!Arrive, M!provider
<1>2. PICK w, B, C, p, q, s : FormAt(w, B, C, p, q, s)
  BY DEF FormInv
<1>3. /\ w \in Seq(Byte) /\ buf \in Seq(Byte) /\ form_wire \in Seq(Byte)
      /\ Stretch(buf, w, p, q) /\ Stretch(form_wire, w, q, s) /\ Len(form_wire) \in Nat
  BY <1>1, <1>2, LenProperties DEF FormAt, Text, FormTyped
<1>4. PICK n \in 1 .. Len(form_wire) : /\ buf' = buf \o SubSeq(form_wire, 1, n)
                                       /\ form_wire' = SubSeq(form_wire, n + 1, Len(form_wire))
  BY Zenon DEF M!Arrive
<1>5. n \in 0 .. Len(form_wire)
  BY <1>3
<1>6. /\ Stretch(SubSeq(form_wire, 1, n), w, q, q + n)
      /\ Stretch(SubSeq(form_wire, n + 1, Len(form_wire)), w, q + n, s)
      /\ SubSeq(form_wire, 1, n) \in Seq(Byte) /\ SubSeq(form_wire, n + 1, Len(form_wire)) \in Seq(Byte)
  BY <1>3, <1>5, StretchCut
<1>7. /\ Stretch(buf \o SubSeq(form_wire, 1, n), w, p, q + n)
      /\ buf \o SubSeq(form_wire, 1, n) \in Seq(Byte)
  BY <1>3, <1>6, StretchJoin, ConcatProperties, Zenon
<1>8. /\ Stretch(buf, w, p, q + n)' /\ Stretch(form_wire, w, q + n, s)'
  BY <1>4, <1>6, <1>7, Zenon DEF Stretch
<1>9. FormTyped' /\ FormVerdict'
  BY <1>1, <1>4, <1>6, <1>7, Zenon DEF FormTyped, FormVerdict, BadForm
<1>10. FormGiven' /\ Text(w, B, C)' /\ SentUpTo(w, B, C, s)'
  BY <1>1, <1>2, TextStays, SentStays DEF FormAt
<1>11. PartsHeld'
  <2>1. \A i : (M!Part(items[i]))' = M!Part(items[i])
    BY <1>1 DEF M!Part
  <2> QED
    BY <1>1, <1>2, <2>1 DEF FormAt, PartsHeld
<1>12. AtPlace(w, B, C, p)'
  <2>1. (M!Part(items[Len(form)]))' = M!Part(items[Len(form)])
    BY <1>1 DEF M!Part
  <2>2. AtPlace(w, B, C, p)
    BY <1>2 DEF FormAt
  <2>3. ~(valid /\ state = 1)
    <3>1. ASSUME valid, state = 1 PROVE FALSE
      <4>1. p = Len(w)
        BY <2>2, <3>1 DEF AtPlace
      <4>2. p <= q /\ q <= s /\ s <= Len(w) /\ Len(form_wire) = s - q /\ q \in Nat /\ s \in Nat /\ Len(w) \in Nat
        BY <1>3, LenProperties DEF Stretch
      <4> QED
        BY <1>4, <1>3, <4>1, <4>2
    <3> QED
      BY <3>1
  <2> QED
    BY <1>1, <2>1, <2>2, <2>3, Zenon DEF AtPlace
<1>13. Starved(w, q + n)'
  BY <1>1 DEF Starved
<1>14. FormAt(w, B, C, p, q + n, s)'
  BY <1>8, <1>10, <1>11, <1>12, <1>13 DEF FormAt
<1>15. (\E w_, B_, C_, p_, q_, s_ : FormAt(w_, B_, C_, p_, q_, s_))'
  BY <1>14
<1> QED
  BY <1>9, <1>10, <1>15 DEF FormInv

\* A body of which all was read, and that is refused, was cut short or is one
\* the server need not accept.
LEMMA BodyReadKeeps ==
    ASSUME FormInv, MaxParts \in Nat, M!BodyRead
    PROVE  FormInv'
<1>1. /\ FormGiven /\ FormTyped /\ FormVerdict /\ accepted = "reading" /\ ~parsing
      /\ form_wire = <<>> /\ sending # "yes"
      /\ accepted' = IF sending = "done" /\ valid THEN "ok" ELSE "refused"
      /\ UNCHANGED <<items, epilogue, sender, segs, buffer, stream, sending, form_wire,
                     state, valid, buf, parsing, head, form>>
  BY DEF FormInv, M!BodyRead, M!provider, M!parser
<1>2. PICK w, B, C, p, q, s : FormAt(w, B, C, p, q, s)
  BY DEF FormInv
<1>3. Len(items) \in Nat
  BY <1>1, LenProperties DEF FormGiven
<1>4. ASSUME sending = "done", ~valid PROVE BadForm
  <2>1. s = Len(w)
    BY <1>2, <1>4 DEF FormAt, SentUpTo
  <2>2. q \in Nat /\ s \in Nat /\ Len(form_wire) = s - q
    BY <1>2 DEF FormAt, Stretch
  <2>3. Len(form_wire) = 0
    BY <1>1
  <2>4. ~(q < Len(w))
    BY <2>1, <2>2, <2>3
  <2>5. ~(Len(items) > 0)
    BY <1>1, <1>2, <1>4, <2>4 DEF FormAt, Starved
  <2> QED
    BY <1>3, <2>5 DEF BadForm
<1>5. FormTyped'
  BY <1>1 DEF FormTyped
<1>6. FormVerdict'
  <2>1. accepted' = "refused" => sending' = "broken" \/ BadForm
    BY <1>1, <1>4 DEF FormTyped
  <2>2. BadForm' = BadForm
    BY <1>1 DEF BadForm
  <2>3. accepted' \in {"ok", "refused"} /\ (accepted' = "ok" => sending = "done" /\ valid)
    BY <1>1
  <2> QED
    BY <1>1, <2>1, <2>2, <2>3 DEF FormVerdict
<1>7. FormGiven' /\ Text(w, B, C)' /\ SentUpTo(w, B, C, s)'
  BY <1>1, <1>2, TextStays, SentStays DEF FormAt
<1>8. Stretch(buf, w, p, q)' /\ Stretch(form_wire, w, q, s)'
  <2>1. Stretch(buf, w, p, q) /\ Stretch(form_wire, w, q, s) /\ buf' = buf /\ form_wire' = form_wire
    BY <1>1, <1>2 DEF FormAt
  <2> QED
    BY <2>1, Zenon DEF Stretch
<1>9. PartsHeld' /\ AtPlace(w, B, C, p)'
  <2>1. \A i : (M!Part(items[i]))' = M!Part(items[i])
    BY <1>1 DEF M!Part
  <2>2. (M!Part(items[Len(form)]))' = M!Part(items[Len(form)])
    BY <1>1 DEF M!Part
  <2>3. PartsHeld'
    BY <1>1, <1>2, <2>1 DEF FormAt, PartsHeld
  <2>4. AtPlace(w, B, C, p)
    BY <1>2 DEF FormAt
  <2>5. AtPlace(w, B, C, p)'
    BY <1>1, <2>2, <2>4, Zenon DEF AtPlace
  <2> QED
    BY <2>3, <2>5
<1>10. Starved(w, q)'
  BY <1>1 DEF Starved
<1>11. FormAt(w, B, C, p, q, s)'
  BY <1>7, <1>8, <1>9, <1>10 DEF FormAt
<1>12. (\E w_, B_, C_, p_, q_, s_ : FormAt(w_, B_, C_, p_, q_, s_))'
  BY <1>11
<1> QED
  BY <1>5, <1>6, <1>7, <1>12 DEF FormInv

-----------------------------------------------------------------------------
(* The sender's steps                                                        *)

\* What the sender writes goes behind what is on the wire.
LEMMA WireGrows ==
    ASSUME FormGiven, FormTyped, FormVerdict,
           NEW w, NEW B, NEW C, NEW p, NEW q, NEW s, FormAt(w, B, C, p, q, s),
           NEW piece \in Seq(Byte), NEW r, Stretch(piece, w, s, r),
           sending = "yes", form_wire' = form_wire \o piece,
           UNCHANGED <<items, epilogue, sender, state, valid, buf, parsing, head, form, accepted>>,
           buffer' \in Seq(Byte), segs' \in Seq(Seq(Byte)), sending' \in {"yes", "done", "broken"},
           stream' \in [plain : Nat, item : Nat, start : Nat, offset : Nat],
           SentUpTo(w, B, C, r)'
    PROVE  FormInv'
<1>1. w \in Seq(Byte) /\ form_wire \in Seq(Byte) /\ Stretch(form_wire, w, q, s)
  BY DEF FormAt, Text, FormTyped
<1>2. Stretch(form_wire \o piece, w, q, r) /\ form_wire \o piece \in Seq(Byte)
  BY <1>1, StretchJoin, ConcatProperties
<1>3. Stretch(form_wire, w, q, r)' /\ form_wire' \in Seq(Byte)
  BY <1>2, Zenon DEF Stretch
<1>4. Stretch(buf, w, p, q)'
  <2>1. buf' = buf /\ Stretch(buf, w, p, q)
    BY DEF FormAt
  <2> QED
    BY <2>1 DEF Stretch
<1>5. FormGiven' /\ Text(w, B, C)'
  BY TextStays DEF FormAt
<1>6. FormTyped'
  BY <1>3 DEF FormTyped
<1>7. FormVerdict'
  <2>1. accepted # "ok" /\ (accepted = "refused" => BadForm)
    BY DEF FormVerdict
  <2>2. BadForm' = BadForm
    BY DEF BadForm
  <2> QED
    BY <2>1, <2>2 DEF FormVerdict
<1>8. PartsHeld' /\ AtPlace(w, B, C, p)' /\ Starved(w, q)'
  <2>1. \A i : (M!Part(items[i]))' = M!Part(items[i])
    BY DEF M!Part
  <2>2. (M!Part(items[Len(form)]))' = M!Part(items[Len(form)])
    BY DEF M!Part
  <2>3. PartsHeld'
    BY <2>1 DEF FormAt, PartsHeld
  <2>4. AtPlace(w, B, C, p) /\ Starved(w, q)
    BY DEF FormAt
  <2>5. AtPlace(w, B, C, p)'
    BY <2>2, <2>4, Zenon DEF AtPlace
  <2>6. Starved(w, q)'
    BY <2>4 DEF Starved
  <2> QED
    BY <2>3, <2>5, <2>6
<1>9. FormAt(w, B, C, p, q, r)'
  BY <1>3, <1>4, <1>5, <1>8 DEF FormAt
<1>10. (\E w_, B_, C_, p_, q_, s_ : FormAt(w_, B_, C_, p_, q_, s_))'
  BY <1>9
<1> QED
  BY <1>5, <1>6, <1>7, <1>10 DEF FormInv

LEMMA CopySegmentKeeps ==
    ASSUME FormInv, SendBuffer \in Nat \ {0}, M!CopySegment
    PROVE  FormInv'
<1>1. /\ FormGiven /\ FormTyped /\ FormVerdict
      /\ sending = "yes" /\ sender = "segments" /\ segs # <<>>
      /\ UNCHANGED <<items, epilogue, sender, stream, sending, state, valid, buf, parsing, head, form, accepted>>
  BY DEF FormInv, M!CopySegment, M!parser
<1>2. PICK w, B, C, p, q, s : FormAt(w, B, C, p, q, s)
  BY DEF FormInv
<1>3. /\ w \in Seq(Byte) /\ segs \in Seq(Seq(Byte)) /\ buffer \in Seq(Byte) /\ form_wire \in Seq(Byte)
      /\ Text(w, B, C)
  BY <1>1, <1>2, Zenon DEF FormAt, Text, FormTyped
<1>4. PICK o : /\ Strung(segs, w, o) /\ o[Len(segs) + 1] = Len(w)
               /\ Stretch(buffer, w, s, o[1]) /\ Len(buffer) < SendBuffer
  BY <1>1, <1>2 DEF FormAt, SentUpTo
<1>5. PICK seg, chunk, full :
          /\ seg = segs[1] /\ chunk = M!Least(Len(seg), SendBuffer - Len(buffer))
          /\ full = buffer \o SubSeq(seg, 1, chunk)
          /\ segs' = IF chunk = Len(seg) THEN Tail(segs)
                     ELSE <<SubSeq(seg, chunk + 1, Len(seg))>> \o Tail(segs)
          /\ IF Len(full) = SendBuffer
             THEN form_wire' = form_wire \o full /\ buffer' = <<>>
             ELSE buffer' = full /\ form_wire' = form_wire
  <2>1. Head(segs) = segs[1]
    BY DEF Head
  <2> QED
    BY <2>1, Zenon DEF M!CopySegment
<1>6. seg \in Seq(Byte) /\ Len(seg) \in Nat /\ Len(buffer) \in Nat
  <2>1. Len(segs) \in Nat /\ Len(segs) # 0
    BY <1>1, <1>3, LenProperties, EmptySeq
  <2>2. 1 \in 1 .. Len(segs)
    BY <2>1
  <2> QED
    BY <1>3, <1>5, <2>2, ElementOfSeq, LenProperties
<1>7. chunk \in 0 .. Len(seg) /\ Len(buffer) + chunk <= SendBuffer
  BY <1>4, <1>5, <1>6 DEF M!Least
<1>8. /\ segs' \in Seq(Seq(Byte)) /\ Stretch(SubSeq(seg, 1, chunk), w, o[1], o[1] + chunk)
      /\ SubSeq(seg, 1, chunk) \in Seq(Byte)
      /\ \E x : Strung(segs', w, x) /\ x[1] = o[1] + chunk /\ x[Len(segs') + 1] = o[Len(segs) + 1]
  <2>1. PICK g, h : g = segs /\ h = segs'
    OBVIOUS
  <2>2. /\ g \in Seq(Seq(Byte)) /\ Len(g) # 0 /\ Strung(g, w, o) /\ chunk \in 0 .. Len(g[1]) /\ seg = g[1]
        /\ h = Shortened(g, chunk)
    BY <1>1, <1>3, <1>4, <1>5, <1>7, <2>1, EmptySeq DEF Shortened
  <2>3. ShortenedLies(Byte, g, chunk, w, o)
    BY <1>3, <2>2, SegmentCut
  <2> QED
    BY <2>1, <2>2, <2>3 DEF ShortenedLies
<1>9. PICK x : Strung(segs', w, x) /\ x[1] = o[1] + chunk /\ x[Len(segs') + 1] = Len(w)
  BY <1>4, <1>8
<1>10. Stretch(full, w, s, x[1]) /\ full \in Seq(Byte)
  BY <1>3, <1>4, <1>5, <1>8, <1>9, StretchJoin, ConcatProperties, Zenon
<1>11. Len(full) = Len(buffer) + chunk
  <2>1. Len(SubSeq(seg, 1, chunk)) = chunk
    BY <1>6, <1>7
  <2> QED
    BY <1>3, <1>5, <1>8, <2>1, ConcatProperties
<1>12. x[1] \in 0 .. Len(w) /\ s \in 0 .. Len(w)
  BY <1>3, <1>10, LenProperties DEF Stretch
<1>13. Strung(segs, w, x)'
  BY <1>9 DEF Strung, Stretch
<1>14. stream' \in [plain : Nat, item : Nat, start : Nat, offset : Nat]
  BY <1>1 DEF FormTyped
<1>15. ASSUME NEW r, Stretch(buffer', w, r, x[1]), Len(buffer') < SendBuffer
       PROVE  SentUpTo(w, B, C, r)'
  <2>1. Stretch(buffer, w, r, x[1])'
    BY <1>15 DEF Stretch
  <2>2. (\E y : /\ Strung(segs, w, y) /\ y[Len(segs) + 1] = Len(w)
                /\ Stretch(buffer, w, r, y[1]) /\ Len(buffer) < SendBuffer)'
    BY <1>9, <1>13, <1>15, <2>1
  <2>3. sending' = "yes" /\ sender' = "segments"
    BY <1>1
  <2> QED
    BY <2>2, <2>3 DEF SentUpTo
<1>16. CASE Len(full) = SendBuffer
  <2>1. form_wire' = form_wire \o full /\ buffer' = <<>>
    BY <1>5, <1>16, Zenon
  <2>2. Stretch(<<>>, w, x[1], x[1]) /\ <<>> \in Seq(Byte) /\ Len(<<>>) = 0
    BY <1>3, <1>12, StretchNone
  <2>3. SentUpTo(w, B, C, x[1])'
    BY <1>15, <2>1, <2>2
  <2> QED
    BY <1>1, <1>2, <1>8, <1>10, <1>14, <2>1, <2>2, <2>3, WireGrows, Zenon
<1>17. CASE Len(full) # SendBuffer
  <2>1. form_wire' = form_wire /\ buffer' = full
    BY <1>5, <1>17, Zenon
  <2>2. Stretch(<<>>, w, s, s) /\ <<>> \in Seq(Byte) /\ form_wire \o <<>> = form_wire
    BY <1>3, <1>12, StretchNone, ConcatEmptySeq
  <2>3. Len(full) < SendBuffer
    BY <1>6, <1>7, <1>11, <1>17
  <2>4. SentUpTo(w, B, C, s)'
    BY <1>10, <1>15, <2>1, <2>3
  <2>5. form_wire' = form_wire \o <<>> /\ buffer' \in Seq(Byte)
    BY <1>10, <2>1, <2>2
  <2>6. sending' \in {"yes", "done", "broken"}
    BY <1>1
  <2> QED
    BY <1>1, <1>2, <1>8, <1>14, <2>2, <2>4, <2>5, <2>6, WireGrows, Zenon
<1> QED
  BY <1>16, <1>17

LEMMA FlushRestKeeps ==
    ASSUME FormInv, M!FlushRest
    PROVE  FormInv'
<1>1. /\ FormGiven /\ FormTyped /\ FormVerdict
      /\ sending = "yes" /\ sender = "segments" /\ segs = <<>>
      /\ sending' = "done" /\ buffer' = <<>> /\ form_wire' = form_wire \o buffer
      /\ UNCHANGED <<items, epilogue, sender, segs, stream, state, valid, buf, parsing, head, form, accepted>>
  BY DEF FormInv, M!FlushRest, M!parser
<1>2. PICK w, B, C, p, q, s : FormAt(w, B, C, p, q, s)
  BY DEF FormInv
<1>3. PICK o : o[Len(segs) + 1] = Len(w) /\ Stretch(buffer, w, s, o[1])
  BY <1>1, <1>2 DEF FormAt, SentUpTo
<1>4. Stretch(buffer, w, s, Len(w))
  <2>1. Len(segs) + 1 = 1
    BY <1>1
  <2> QED
    BY <1>3, <2>1
<1>5. SentUpTo(w, B, C, Len(w))'
  BY <1>1 DEF SentUpTo
<1>6. /\ buffer \in Seq(Byte) /\ buffer' \in Seq(Byte) /\ segs' \in Seq(Seq(Byte))
      /\ stream' \in [plain : Nat, item : Nat, start : Nat, offset : Nat]
  BY <1>1, NoElement DEF FormTyped
<1> QED
  BY <1>1, <1>2, <1>4, <1>5, <1>6, WireGrows, Zenon

LEMMA SendFailsKeeps ==
    ASSUME FormInv, M!SendFails
    PROVE  FormInv'
<1>1. /\ FormGiven /\ FormTyped /\ FormVerdict /\ sending = "yes" /\ sending' = "broken"
      /\ UNCHANGED <<items, epilogue, sender, segs, buffer, stream, form_wire,
                     state, valid, buf, parsing, head, form, accepted>>
  BY DEF FormInv, M!SendFails, M!parser
<1>2. PICK w, B, C, p, q, s : FormAt(w, B, C, p, q, s)
  BY DEF FormInv
<1>3. w \in Seq(Byte) /\ s \in 0 .. Len(w) /\ form_wire \in Seq(Byte)
  BY <1>1, <1>2, LenProperties DEF FormAt, Text, Stretch, FormTyped
<1>4. Stretch(<<>>, w, s, s) /\ <<>> \in Seq(Byte) /\ form_wire \o <<>> = form_wire
  BY <1>3, StretchNone, ConcatEmptySeq
<1>5. SentUpTo(w, B, C, s)'
  BY <1>1 DEF SentUpTo
<1>6. /\ buffer' \in Seq(Byte) /\ segs' \in Seq(Seq(Byte)) /\ form_wire' = form_wire \o <<>>
      /\ stream' \in [plain : Nat, item : Nat, start : Nat, offset : Nat]
  BY <1>1, <1>4 DEF FormTyped
<1> QED
  BY <1>1, <1>2, <1>4, <1>5, <1>6, WireGrows, Zenon

\* What the content provider of streamed items has said so far.
StreamAt(B, C, s) ==
    \/ /\ stream.offset = 0 /\ stream.start = 0 /\ stream.plain \in 1 .. Len(items)
       /\ stream.item = stream.plain + 1 /\ s = B[1]
    \/ /\ stream.offset > 0 \/ stream.plain = 0
       /\ stream.start = 0 /\ stream.item \in 1 .. Len(items) + 1 /\ s = B[stream.item]
    \/ /\ stream.start > 0 /\ stream.offset >= stream.start /\ stream.item \in 1 .. Len(items)
       /\ stream.offset - stream.start <= Len(items[stream.item].content)
       /\ s = C[stream.item] + (stream.offset - stream.start)

LEMMA StreamIs ==
    ASSUME FormGiven, FormTyped
    PROVE  /\ stream = [plain |-> stream.plain, item |-> stream.item, start |-> stream.start,
                        offset |-> stream.offset]
           /\ stream.plain \in Nat /\ stream.item \in Nat /\ stream.start \in Nat /\ stream.offset \in Nat
           /\ Len(items) \in Nat
  BY LenProperties DEF FormTyped, FormGiven

LEMMA StreamPlainKeeps ==
    ASSUME FormInv, M!StreamPlain
    PROVE  FormInv'
<1>1. /\ FormGiven /\ FormTyped /\ FormVerdict
      /\ sending = "yes" /\ sender = "stream" /\ stream.offset = 0 /\ stream.plain > 0
      /\ UNCHANGED <<items, epilogue, sender, segs, buffer, sending,
                     state, valid, buf, parsing, head, form, accepted>>
  BY DEF FormInv, M!StreamPlain, M!parser
<1>2. PICK w, B, C, p, q, s : FormAt(w, B, C, p, q, s)
  BY DEF FormInv
<1>3. Text(w, B, C) /\ w \in Seq(Byte)
  BY <1>2 DEF FormAt, Text
<1>4. /\ stream.plain \in Nat /\ stream.item \in Nat /\ stream.start \in Nat /\ stream.offset \in Nat
      /\ Len(items) \in Nat
  BY <1>1, StreamIs
<1>5. /\ stream.start = 0 /\ stream.plain \in 1 .. Len(items)
      /\ stream.item = stream.plain + 1 /\ s = B[1]
  <2>1. StreamAt(B, C, s)
    BY <1>1, <1>2 DEF FormAt, SentUpTo, StreamAt
  <2> QED
    BY <1>1, <1>4, <2>1 DEF StreamAt
<1>6. PICK k \in 1 .. Len(items) : k = stream.plain
  BY <1>5
<1>7. PICK plain : plain = Flat(M!Segments(items, epilogue), 3 * k)
  OBVIOUS
<1>8. form_wire' = form_wire \o plain /\ stream' = [stream EXCEPT !.offset = Len(plain)]
  BY <1>6, <1>7, SameFlat, Zenon DEF M!StreamPlain, Flat
<1>9. k \in 0 .. Len(items) /\ k - 1 \in 0 .. Len(items) /\ (k - 1) + 1 = k
  BY <1>4
<1>10. Stretch(plain, w, B[1], B[k + 1])
  BY <1>3, <1>7, <1>9 DEF Text
<1>11. B[1] <= B[k] /\ B[1] \in Nat /\ B[k] \in Nat
  <2>1. Stretch(Flat(M!Segments(items, epilogue), 3 * (k - 1)), w, B[1], B[(k - 1) + 1])
    BY <1>3, <1>9, Zenon DEF Text
  <2> QED
    BY <1>9, <2>1 DEF Stretch
<1>12. Len(plain) \in Nat /\ Len(plain) > 0
  <2>1. /\ C[k] = B[k] + 7 + 3 * Len(items[k].lines) /\ B[k + 1] = C[k] + Len(items[k].content) + 2
        /\ Len(items[k].lines) \in Nat /\ Len(items[k].content) \in Nat
    BY <1>1, <1>3, ItemIs, Zenon DEF Text
  <2>2. \A b, l, c \in Nat : b + 7 + 3 * l + c + 2 > b
    OBVIOUS
  <2>3. B[k + 1] > B[k]
    BY <1>11, <2>1, <2>2, Zenon
  <2>4. Len(plain) = B[k + 1] - B[1] /\ B[k + 1] \in Nat
    BY <1>10 DEF Stretch
  <2> QED
    BY <1>11, <2>3, <2>4
<1>13. plain \in Seq(Byte)
  <2>1. M!Segments(items, epilogue) \in Seq(Seq(Byte)) /\ Len(M!Segments(items, epilogue)) = 3 * Len(items) + 1
    BY <1>1, SegmentsAre, Zenon DEF FormGiven
  <2>2. 3 * k \in 0 .. Len(M!Segments(items, epilogue))
    BY <1>4, <2>1
  <2> QED
    BY <1>7, <2>1, <2>2, FlatSteps, Zenon
<1>14. /\ stream'.plain = stream.plain /\ stream'.item = stream.item /\ stream'.start = stream.start
       /\ stream'.offset = Len(plain) /\ stream' \in [plain : Nat, item : Nat, start : Nat, offset : Nat]
  <2>1. stream \in [plain : Nat, item : Nat, start : Nat, offset : Nat]
    BY <1>1 DEF FormTyped
  <2> QED
    BY <1>8, <1>12, <2>1, Zenon
<1>15. SentUpTo(w, B, C, B[k + 1])'
  <2>1. /\ stream'.offset > 0 /\ stream'.start = 0 /\ stream'.item \in 1 .. Len(items') + 1
        /\ B[k + 1] = B[stream'.item]
    BY <1>1, <1>4, <1>5, <1>6, <1>12, <1>14
  <2>2. StreamAt(B, C, B[k + 1])'
    BY <2>1 DEF StreamAt
  <2> QED
    BY <1>1, <2>2 DEF SentUpTo, StreamAt
<1>16. buffer' \in Seq(Byte) /\ segs' \in Seq(Seq(Byte)) /\ sending' \in {"yes", "done", "broken"}
  BY <1>1 DEF FormTyped
<1>17. Stretch(plain, w, s, B[k + 1])
  BY <1>5, <1>10
<1> QED
  BY <1>1, <1>2, <1>8, <1>13, <1>14, <1>15, <1>16, <1>17, WireGrows, Zenon

LEMMA StreamItemKeeps ==
    ASSUME FormInv, M!StreamItem
    PROVE  FormInv'
<1>1. /\ FormGiven /\ FormTyped /\ FormVerdict
      /\ sending = "yes" /\ sender = "stream" /\ (stream.offset > 0 \/ stream.plain = 0)
      /\ stream.item <= Len(items)
      /\ UNCHANGED <<items, epilogue, sender, segs, buffer, sending,
                     state, valid, buf, parsing, head, form, accepted>>
  BY Zenon DEF FormInv, M!StreamItem, M!parser
<1>2. PICK w, B, C, p, q, s : FormAt(w, B, C, p, q, s)
  BY DEF FormInv
<1>3. Text(w, B, C) /\ w \in Seq(Byte)
  BY <1>2 DEF FormAt, Text
<1>4. /\ stream.plain \in Nat /\ stream.item \in Nat /\ stream.start \in Nat /\ stream.offset \in Nat
      /\ Len(items) \in Nat
  BY <1>1, StreamIs
<1>5. \/ stream.start = 0 /\ stream.item \in 1 .. Len(items) /\ s = B[stream.item]
      \/ /\ stream.start > 0 /\ stream.offset >= stream.start /\ stream.item \in 1 .. Len(items)
         /\ stream.offset - stream.start <= Len(items[stream.item].content)
         /\ s = C[stream.item] + (stream.offset - stream.start)
  <2>1. StreamAt(B, C, s)
    BY <1>1, <1>2 DEF FormAt, SentUpTo, StreamAt
  <2> QED
    BY <1>1, <1>4, <2>1 DEF StreamAt
<1>6. PICK k \in 1 .. Len(items) : k = stream.item
  BY <1>5
<1> DEFINE t == items[k].content
           z == M!ItemBegin(items[k])
<1>7. /\ t \in Seq(Byte) /\ Len(t) \in Nat /\ items[k] \in FormItem
      /\ z \in Seq(Byte) /\ Len(z) \in Nat
  BY <1>1, ItemIs, ItemBeginIs, LenProperties
<1>8. /\ Stretch(z, w, B[k], C[k]) /\ Stretch(t, w, C[k], C[k] + Len(t))
      /\ Stretch(<<"r", "n">>, w, C[k] + Len(t), B[k + 1]) /\ C[k] \in Nat
  BY <1>3, Zenon DEF Text, Stretch
<1>9. PICK begin, offset, start, at :
          /\ begin = IF stream.start = 0 THEN z ELSE <<>>
          /\ offset = stream.offset + Len(begin)
          /\ start = IF stream.start = 0 THEN offset ELSE stream.start
          /\ at = offset - start
  OBVIOUS
<1>20. \E n \in 0 .. (Len(t) - at) :
           /\ n > 0 \/ at + n = Len(t)
           /\ form_wire' = form_wire
                 \o (begin \o SubSeq(t, at + 1, at + n)
                     \o (IF at + n = Len(t) THEN M!CrLf ELSE <<>>))
           /\ stream' = [stream EXCEPT
                  !.offset = @ + Len(begin \o SubSeq(t, at + 1, at + n)
                                     \o (IF at + n = Len(t) THEN M!CrLf ELSE <<>>)),
                  !.start = IF at + n = Len(t) THEN 0 ELSE start,
                  !.item = IF at + n = Len(t) THEN @ + 1 ELSE @]
  <2>1. /\ begin = (IF stream.start = 0 THEN M!ItemBegin(items[stream.item]) ELSE <<>>)
        /\ offset = stream.offset + Len(begin)
        /\ start = (IF stream.start = 0 THEN offset ELSE stream.start)
        /\ at = offset - start /\ t = items[stream.item].content
    BY <1>6, <1>9
  <2> HIDE DEF t, z
  <2> QED
    BY <2>1, Zenon DEF M!StreamItem
<1> HIDE DEF t, z
<1>10. /\ begin \in Seq(Byte) /\ Len(begin) \in Nat /\ Stretch(begin, w, s, C[k] + at)
       /\ at \in 0 .. Len(t) /\ offset = start + at /\ start \in Nat
       /\ offset = stream.offset + Len(begin)
       /\ (at = 0 \/ stream.start > 0)
  <2>1. CASE stream.start = 0
    <3>1. begin = z /\ at = 0 /\ offset = stream.offset + Len(z) /\ start = offset /\ s = B[k]
      BY <1>4, <1>5, <1>6, <1>7, <1>9, <2>1
    <3>2. C[k] + at = C[k] /\ offset = start + at /\ offset \in Nat
      BY <1>4, <1>7, <1>8, <3>1
    <3> QED
      BY <1>7, <1>8, <3>1, <3>2
  <2>2. CASE stream.start # 0
    <3>1. begin = <<>> /\ Len(begin) = 0 /\ start = stream.start
      BY <1>9, <2>2
    <3>2. offset = stream.offset /\ at = stream.offset - stream.start
      BY <1>4, <1>9, <3>1
    <3>3. /\ stream.start > 0 /\ stream.offset >= stream.start
          /\ stream.offset - stream.start <= Len(t) /\ s = C[k] + at
      BY <1>5, <1>6, <2>2, <3>2 DEF t
    <3>4. at \in 0 .. Len(t) /\ offset = start + at
      BY <1>4, <1>7, <3>1, <3>2, <3>3
    <3>5. s \in 0 .. Len(w)
      BY <1>2, <1>3, LenProperties DEF FormAt, Stretch
    <3>6. Stretch(<<>>, w, s, s) /\ <<>> \in Seq(Byte)
      BY <1>3, <3>5, StretchNone
    <3> QED
      BY <1>4, <1>9, <3>1, <3>3, <3>4, <3>6
  <2> QED
    BY <2>1, <2>2
<1>11. PICK n \in 0 .. (Len(t) - at) :
           /\ n > 0 \/ at + n = Len(t)
           /\ form_wire' = form_wire
                 \o (begin \o SubSeq(t, at + 1, at + n)
                     \o (IF at + n = Len(t) THEN M!CrLf ELSE <<>>))
           /\ stream' = [stream EXCEPT
                  !.offset = @ + Len(begin \o SubSeq(t, at + 1, at + n)
                                     \o (IF at + n = Len(t) THEN M!CrLf ELSE <<>>)),
                  !.start = IF at + n = Len(t) THEN 0 ELSE start,
                  !.item = IF at + n = Len(t) THEN @ + 1 ELSE @]
  BY <1>20, Zenon
<1>12. n \in Nat /\ at \in Nat /\ at + n <= Len(t) /\ C[k] + at \in Nat
  BY <1>7, <1>8, <1>10
<1>13. PICK u : u = SubSeq(t, at + 1, at + n)
  BY Zenon
<1>14. u \in Seq(Byte) /\ Stretch(u, w, C[k] + at, C[k] + at + n)
  <2>1. PICK c : c = C[k]
    OBVIOUS
  <2>2. Stretch(t, w, c, c + Len(t)) /\ c \in Nat
    BY <1>8, <2>1
  <2>3. Stretch(SubSeq(t, at + 1, at + n), w, c + at, c + at + n) /\ SubSeq(t, at + 1, at + n) \in Seq(Byte)
    BY <1>3, <1>7, <1>12, <2>2, StretchPart, Zenon
  <2> QED
    BY <1>13, <2>1, <2>3
<1>15. Stretch(begin \o u, w, s, C[k] + at + n) /\ begin \o u \in Seq(Byte)
  BY <1>3, <1>10, <1>14, StretchJoin, ConcatProperties, Zenon
<1>16. buffer' \in Seq(Byte) /\ segs' \in Seq(Seq(Byte)) /\ sending' \in {"yes", "done", "broken"}
  BY <1>1 DEF FormTyped
<1>17. stream \in [plain : Nat, item : Nat, start : Nat, offset : Nat]
  BY <1>1 DEF FormTyped
<1>18. CASE at + n = Len(t)
  <2>1. PICK piece : piece = (begin \o u) \o <<"r", "n">>
    BY Zenon
  <2>2. /\ form_wire' = form_wire \o piece
        /\ stream' = [stream EXCEPT !.offset = @ + Len(piece), !.start = 0, !.item = @ + 1]
    BY <1>11, <1>13, <1>18, <2>1, Zenon DEF M!CrLf
  <2>3. Stretch(<<"r", "n">>, w, C[k] + at + n, B[k + 1]) /\ <<"r", "n">> \in Seq(Byte)
    <3>1. C[k] + at + n = C[k] + Len(t)
      <4>1. C[k] \in Nat
        BY <1>8
      <4>2. ASSUME NEW a \in Nat, NEW b \in Nat, NEW c \in Nat, NEW d \in Nat, b + c = d
            PROVE  a + b + c = a + d
        BY <4>2
      <4>3. at + n = Len(t) /\ Len(t) \in Nat
        BY <1>7, <1>18, LenProperties
      <4> QED
        BY <1>12, <4>1, <4>2, <4>3
    <3>2. <<"r", "n">> \in Seq(Byte)
      BY LineEndIs, TheBytes
    <3> QED
      BY <1>8, <3>1, <3>2
  <2>4. Stretch(piece, w, s, B[k + 1]) /\ piece \in Seq(Byte)
    BY <1>3, <1>15, <2>1, <2>3, StretchJoin, ConcatProperties, Zenon
  <2>5. Len(piece) \in Nat /\ Len(piece) > 0
    <3>1. Len(piece) = Len(begin \o u) + Len(<<"r", "n">>) /\ Len(begin \o u) \in Nat
      BY <1>15, <2>1, <2>3, ConcatProperties, LenProperties
    <3>2. Len(<<"r", "n">>) = 2
      OBVIOUS
    <3> QED
      BY <3>1, <3>2
  <2>6. /\ stream'.plain = stream.plain /\ stream'.item = stream.item + 1 /\ stream'.start = 0
        /\ stream'.offset = stream.offset + Len(piece)
        /\ stream' \in [plain : Nat, item : Nat, start : Nat, offset : Nat]
    <3>1. PICK l : l = Len(piece)
      BY Zenon
    <3>2. stream' = [stream EXCEPT !.offset = @ + l, !.start = 0, !.item = @ + 1] /\ l \in Nat
      BY <2>2, <2>5, <3>1
    <3>3. /\ stream'.plain = stream.plain /\ stream'.item = stream.item + 1 /\ stream'.start = 0
          /\ stream'.offset = stream.offset + l
          /\ stream' \in [plain : Nat, item : Nat, start : Nat, offset : Nat]
      <4>1. PICK x, y, o, i : x = stream /\ y = stream' /\ o = stream.offset + l /\ i = stream.item + 1
        OBVIOUS
      <4>2. /\ x \in [plain : Nat, item : Nat, start : Nat, offset : Nat] /\ o \in Nat /\ i \in Nat
            /\ y = [x EXCEPT !.offset = o, !.start = 0, !.item = i]
        BY <1>4, <1>17, <3>2, <4>1
      <4>3. /\ y.plain = x.plain /\ y.item = i /\ y.start = 0 /\ y.offset = o
            /\ y \in [plain : Nat, item : Nat, start : Nat, offset : Nat]
        BY <4>2, StreamMoves, Zenon
      <4> QED
        BY <4>1, <4>3
    <3> QED
      BY <3>1, <3>3
  <2>7. SentUpTo(w, B, C, B[k + 1])'
    <3>1. /\ stream'.offset > 0 /\ stream'.start = 0 /\ stream'.item \in 1 .. Len(items') + 1
          /\ B[k + 1] = B[stream'.item]
      BY <1>1, <1>4, <1>6, <2>5, <2>6
    <3>2. StreamAt(B, C, B[k + 1])'
      BY <3>1 DEF StreamAt
    <3> QED
      BY <1>1, <3>2 DEF SentUpTo, StreamAt
  <2> QED
    BY <1>1, <1>2, <1>16, <2>2, <2>4, <2>6, <2>7, WireGrows, Zenon
<1>19. CASE at + n # Len(t)
  <2>1. PICK piece : piece = begin \o u
    BY Zenon
  <2>2. /\ form_wire' = form_wire \o piece
        /\ stream' = [stream EXCEPT !.offset = @ + Len(piece), !.start = start]
    <3>1. (begin \o u) \o <<>> = begin \o u
      BY <1>15, ConcatEmptySeq
    <3>2. stream' = [stream EXCEPT !.offset = @ + Len(piece), !.start = start, !.item = @]
      BY <1>11, <1>13, <1>19, <2>1, <3>1, Zenon
    <3> QED
      BY <1>11, <1>13, <1>17, <1>19, <2>1, <3>1, <3>2, Zenon
  <2>3. Stretch(piece, w, s, C[k] + at + n) /\ piece \in Seq(Byte)
    BY <1>15, <2>1
  <2>4. Len(piece) = Len(begin) + n
    <3>1. Len(u) = n
      <4>1. Len(u) = (C[k] + at + n) - (C[k] + at)
        BY <1>14 DEF Stretch
      <4> QED
        BY <1>12, <4>1
    <3> QED
      BY <1>10, <1>14, <2>1, <3>1, ConcatProperties, Zenon
  <2>5. /\ stream'.plain = stream.plain /\ stream'.item = stream.item /\ stream'.start = start
        /\ stream'.offset = stream.offset + Len(piece)
        /\ stream' \in [plain : Nat, item : Nat, start : Nat, offset : Nat]
    <3>1. PICK l : l = Len(piece)
      BY Zenon
    <3>2. stream' = [stream EXCEPT !.offset = @ + l, !.start = start] /\ l \in Nat /\ start \in Nat
      BY <1>10, <2>2, <2>3, <3>1, LenProperties
    <3>3. /\ stream'.plain = stream.plain /\ stream'.item = stream.item /\ stream'.start = start
          /\ stream'.offset = stream.offset + l
          /\ stream' \in [plain : Nat, item : Nat, start : Nat, offset : Nat]
      <4>1. PICK x, y, o : x = stream /\ y = stream' /\ o = stream.offset + l
        OBVIOUS
      <4>2. /\ x \in [plain : Nat, item : Nat, start : Nat, offset : Nat] /\ o \in Nat
            /\ y = [x EXCEPT !.offset = o, !.start = start]
        BY <1>4, <1>17, <3>2, <4>1
      <4>3. /\ y.plain = x.plain /\ y.item = x.item /\ y.start = start /\ y.offset = o
            /\ y \in [plain : Nat, item : Nat, start : Nat, offset : Nat]
        <5>1. start \in Nat /\ 0 \in Nat
          BY <3>2
        <5> QED
          BY <4>2, <5>1, StreamMoves, Zenon
      <4> QED
        BY <4>1, <4>3
    <3> QED
      BY <3>1, <3>3
  <2>6. stream'.offset - stream'.start = at + n /\ stream'.offset >= stream'.start
    <3>1. PICK l : l = Len(begin)
      BY Zenon
    <3>2. /\ l \in Nat /\ n \in Nat /\ at \in Nat /\ start \in Nat /\ stream.offset \in Nat
          /\ stream.offset + l = start + at
      BY <1>4, <1>10, <1>12, <3>1
    <3>3. stream'.offset = stream.offset + (l + n) /\ stream'.start = start
      BY <2>4, <2>5, <3>1
    <3> QED
      BY <3>2, <3>3
  <2>7. start > 0
    <3>1. CASE stream.start = 0
      <4>1. start = stream.offset + Len(begin) /\ begin = z
        BY <1>9, <3>1
      <4>2. Len(z) > 0
        BY <1>7, ItemBeginIs, ItemIs, <1>1 DEF z
      <4> QED
        BY <1>4, <4>1, <4>2, <1>7
    <3>2. CASE stream.start # 0
      BY <1>4, <1>9, <3>2
    <3> QED
      BY <3>1, <3>2
  <2>8. SentUpTo(w, B, C, C[k] + at + n)'
    <3>1. PICK r : r = C[k] + at + n
      OBVIOUS
    <3>2. /\ stream'.start > 0 /\ stream'.offset >= stream'.start /\ stream'.item \in 1 .. Len(items')
          /\ stream'.offset - stream'.start <= Len(items'[stream'.item].content)
          /\ r = C[stream'.item] + (stream'.offset - stream'.start)
      <4>1. stream'.item = k /\ items' = items /\ stream'.start = start
        BY <1>1, <1>6, <2>5
      <4>2. r = C[k] + (at + n)
        BY <1>8, <1>12, <3>1
      <4>3. at + n <= Len(items[k].content)
        BY <1>12 DEF t
      <4> QED
        BY <2>6, <2>7, <4>1, <4>2, <4>3
    <3>3. StreamAt(B, C, r)'
      BY <3>2 DEF StreamAt
    <3>4. SentUpTo(w, B, C, r)'
      BY <1>1, <3>3 DEF SentUpTo, StreamAt
    <3> QED
      BY <3>1, <3>4
  <2> QED
    BY <1>1, <1>2, <1>16, <2>2, <2>3, <2>5, <2>8, WireGrows, Zenon
<1> QED
  BY <1>18, <1>19

LEMMA StreamFinishKeeps ==
    ASSUME FormInv, M!StreamFinish
    PROVE  FormInv'
<1>1. /\ FormGiven /\ FormTyped /\ FormVerdict
      /\ sending = "yes" /\ sender = "stream" /\ (stream.offset > 0 \/ stream.plain = 0)
      /\ stream.item > Len(items) /\ sending' = "done"
      /\ form_wire' = form_wire \o M!Last(M!Segments(items, epilogue))
      /\ UNCHANGED <<items, epilogue, sender, segs, buffer, stream,
                     state, valid, buf, parsing, head, form, accepted>>
  BY DEF FormInv, M!StreamFinish, M!parser
<1>2. PICK w, B, C, p, q, s : FormAt(w, B, C, p, q, s)
  BY DEF FormInv
<1>3. Text(w, B, C) /\ w \in Seq(Byte)
  BY <1>2 DEF FormAt, Text
<1>4. /\ stream.plain \in Nat /\ stream.item \in Nat /\ stream.start \in Nat /\ stream.offset \in Nat
      /\ Len(items) \in Nat
  BY <1>1, StreamIs
<1>5. s = B[Len(items) + 1]
  <2>1. StreamAt(B, C, s)
    BY <1>1, <1>2 DEF FormAt, SentUpTo, StreamAt
  <2>2. stream.item \in 1 .. Len(items) + 1 /\ s = B[stream.item]
    BY <1>1, <1>4, <2>1 DEF StreamAt
  <2>3. stream.item = Len(items) + 1
    BY <1>1, <1>4, <2>2
  <2> QED
    BY <2>2, <2>3
<1> DEFINE z == <<"-", "-", "b", "-", "-", "r", "n">>
           g == M!Segments(items, epilogue)
<1>6. M!Last(g) = z /\ z \in Seq(Byte)
  <2>1. g \in Seq(Seq(Byte)) /\ Len(g) = 3 * Len(items) + 1 /\ g[3 * Len(items) + 1] = z
    BY <1>1, SegmentsAre, Zenon DEF FormGiven
  <2>2. 3 * Len(items) + 1 \in 1 .. 3 * Len(items) + 1
    BY <1>4
  <2> HIDE DEF g, z
  <2> QED
    BY <2>1, <2>2, ElementOfSeq DEF M!Last
<1>7. Stretch(z, w, s, Len(w))
  BY <1>3, <1>5 DEF Text
<1>8. form_wire' = form_wire \o z
  BY <1>1, <1>6
<1> HIDE DEF z, g
<1>9. SentUpTo(w, B, C, Len(w))'
  BY <1>1 DEF SentUpTo
<1>10. /\ buffer' \in Seq(Byte) /\ segs' \in Seq(Seq(Byte)) /\ sending' \in {"yes", "done", "broken"}
       /\ stream' \in [plain : Nat, item : Nat, start : Nat, offset : Nat]
  BY <1>1 DEF FormTyped
<1>11. z \in Seq(Byte)
  BY <1>6
<1> QED
  BY <1>1, <1>2, <1>7, <1>8, <1>9, <1>10, <1>11, WireGrows, Zenon

-----------------------------------------------------------------------------
(* Forms: the theorems                                                       *)

LEMMA InitForms ==
    ASSUME M!MultipartAssumption, M!Init
    PROVE  FormInv
<1>1. /\ items \in Forms /\ epilogue \in Epilogues /\ sender \in Senders
      /\ segs = (IF sender = "segments" THEN M!Segments(items, epilogue) ELSE <<>>)
      /\ buffer = <<>> /\ sending = "yes" /\ form_wire \in Preambles
      /\ state = 0 /\ valid = FALSE /\ buf = <<>> /\ parsing = FALSE /\ form = <<>>
      /\ accepted = "reading"
  BY DEF M!Init
<1>2. PICK n \in (IF sender = "stream" THEN 0 .. Len(items) ELSE {0}) :
          stream = [plain |-> n, item |-> n + 1, start |-> 0, offset |-> 0]
  BY Zenon DEF M!Init
<1>3. STRING \subseteq Byte
  BY DEF Byte
<1>4. /\ items \in Seq([lines : Seq(STRING), content : Seq(STRING)])
      /\ \A k \in DOMAIN items :
             /\ \A j \in DOMAIN items[k].lines : items[k].lines[j] # "r"
             /\ \A j \in DOMAIN items[k].content : items[k].content[j] # "b"
      /\ form_wire \in Seq(STRING) /\ \A j \in DOMAIN form_wire : form_wire[j] # "b"
      /\ epilogue = M!CrLf /\ sender \in {"segments", "stream"} /\ SendBuffer \in Nat \ {0}
  BY <1>1 DEF M!MultipartAssumption
<1>5. [lines : Seq(STRING), content : Seq(STRING)] \subseteq FormItem
  <2>1. Seq(STRING) \subseteq Seq(Byte)
    BY <1>3, SeqWider, Zenon
  <2> QED
    BY <2>1 DEF FormItem
<1>6. items \in Seq(FormItem) /\ form_wire \in Seq(Byte)
  <2>1. items \in Seq(FormItem)
    BY <1>4, <1>5, SeqWider, Zenon
  <2>2. form_wire \in Seq(Byte)
    BY <1>3, <1>4, SeqWider, Zenon
  <2> QED
    BY <2>1, <2>2
<1>7. FormGiven
  <2>1. DOMAIN items = 1 .. Len(items)
    BY <1>6, LenProperties
  <2>2. ASSUME NEW k \in 1 .. Len(items)
        PROVE  /\ \A j \in 1 .. Len(items[k].lines) : items[k].lines[j] # "r"
               /\ \A j \in 1 .. Len(items[k].content) : items[k].content[j] # "b"
    <3>1. items[k] \in FormItem
      BY <1>6, ElementOfSeq
    <3>2. items[k].lines \in Seq(Byte) /\ items[k].content \in Seq(Byte)
      BY <3>1 DEF FormItem
    <3>3. /\ DOMAIN items[k].lines = 1 .. Len(items[k].lines)
          /\ DOMAIN items[k].content = 1 .. Len(items[k].content)
      BY <3>2, LenProperties
    <3> QED
      BY <1>4, <2>1, <3>3, Zenon
  <2> QED
    BY <1>4, <1>6, <2>2 DEF FormGiven
<1>8. PICK pre : pre = form_wire
  OBVIOUS
<1>9. pre \in Seq(Byte) /\ Len(pre) \in Nat /\ \A i \in 1 .. Len(pre) : pre[i] # "b"
  <2>1. DOMAIN form_wire = 1 .. Len(form_wire) /\ Len(form_wire) \in Nat
    BY <1>6, LenProperties
  <2> QED
    BY <1>4, <1>6, <1>8, <2>1, Zenon
<1>10. PICK w, B, C, o :
           /\ Text(w, B, C) /\ Strung(M!Segments(items, epilogue), w, o)
           /\ o[1] = Len(pre) /\ o[3 * Len(items) + 2] = Len(w)
           /\ B[1] = Len(pre) /\ Stretch(pre, w, 0, Len(pre))
  BY <1>7, <1>9, TextExists
<1>11. /\ w \in Seq(Byte) /\ Len(items) \in Nat /\ Len(w) \in Nat /\ Len(w) > 0 /\ Len(pre) <= Len(w)
  <2>1. B[Len(items) + 1] \in Nat /\ Len(w) = B[Len(items) + 1] + 7 /\ Len(items) \in Nat
    BY <1>7, <1>10, TextEnd
  <2>2. w \in Seq(Byte) /\ Len(pre) <= Len(w)
    BY <1>10 DEF Text, Stretch
  <2>3. Len(w) \in Nat
    BY <2>2, LenProperties
  <2>4. PICK e : e = B[Len(items) + 1]
    OBVIOUS
  <2> QED
    BY <2>1, <2>2, <2>3, <2>4
<1>12. /\ M!Segments(items, epilogue) \in Seq(Seq(Byte))
       /\ Len(M!Segments(items, epilogue)) = 3 * Len(items) + 1
  BY <1>7, SegmentsAre DEF FormGiven
<1>13. n \in 0 .. Len(items)
  BY <1>2, <1>11
<1>14. FormTyped
  <2>1. /\ <<>> \in Seq(Byte) /\ <<>> \in Seq(Seq(Byte)) /\ <<>> \in Seq(FormPart)
    BY NoElement
  <2>2. stream \in [plain : Nat, item : Nat, start : Nat, offset : Nat]
    BY <1>2, <1>11, <1>13
  <2>3. segs \in Seq(Seq(Byte))
    BY <1>1, <1>12, <2>1
  <2> QED
    BY <1>1, <1>4, <1>6, <2>1, <2>2, <2>3, Zenon DEF FormTyped
<1>15. FormVerdict
  BY <1>1 DEF FormVerdict
<1>16. 0 \in 0 .. Len(w) /\ Len(pre) \in 0 .. Len(w)
  BY <1>9, <1>11
<1>17. Stretch(buf, w, 0, 0) /\ Stretch(form_wire, w, 0, Len(pre))
  <2>1. Stretch(<<>>, w, 0, 0)
    BY <1>11, <1>16, StretchNone
  <2> QED
    BY <1>1, <1>8, <1>10, <2>1
<1>18. PartsHeld /\ AtPlace(w, B, C, 0) /\ Starved(w, 0)
  <2>1. Len(form) = 0
    BY <1>1
  <2>2. PartsHeld
    BY <1>11, <2>1 DEF PartsHeld
  <2>3. AtPlace(w, B, C, 0)
    BY <1>1, <2>1 DEF AtPlace
  <2>4. Starved(w, 0)
    BY <1>11 DEF Starved
  <2> QED
    BY <2>2, <2>3, <2>4
<1>19. SentUpTo(w, B, C, Len(pre))
  <2>1. sender = "segments" =>
           \E x : /\ Strung(segs, w, x) /\ x[Len(segs) + 1] = Len(w)
                  /\ Stretch(buffer, w, Len(pre), x[1]) /\ Len(buffer) < SendBuffer
    <3> SUFFICES ASSUME sender = "segments"
                 PROVE  /\ Strung(segs, w, o) /\ o[Len(segs) + 1] = Len(w)
                        /\ Stretch(buffer, w, Len(pre), o[1]) /\ Len(buffer) < SendBuffer
      OBVIOUS
    <3>1. segs = M!Segments(items, epilogue)
      BY <1>1
    <3>2. Len(segs) + 1 = 3 * Len(items) + 2
      <4>1. Len(segs) = 3 * Len(items) + 1
        BY <1>12, <3>1, Zenon
      <4> QED
        BY <1>11, <4>1
    <3>3. Stretch(<<>>, w, Len(pre), Len(pre))
      BY <1>11, <1>16, StretchNone
    <3>4. Len(buffer) < SendBuffer
      BY <1>1, <1>4
    <3>5. Stretch(buffer, w, Len(pre), o[1])
      BY <1>1, <1>10, <3>3
    <3>6. o[Len(segs) + 1] = Len(w)
      BY <1>10, <3>2
    <3>7. Strung(segs, w, o)
      BY <1>10, <3>1
    <3> QED
      BY <3>4, <3>5, <3>6, <3>7
  <2>2. StreamAt(B, C, Len(pre))
    <3>1. stream.offset = 0 /\ stream.start = 0 /\ stream.plain = n /\ stream.item = n + 1
      BY <1>2
    <3>2. n = 0 \/ n \in 1 .. Len(items)
      BY <1>11, <1>13
    <3>3. 1 \in 1 .. Len(items) + 1 /\ (n = 0 => n + 1 = 1)
      BY <1>11
    <3> QED
      BY <1>10, <3>1, <3>2, <3>3 DEF StreamAt
  <2> QED
    BY <1>1, <2>1, <2>2 DEF SentUpTo, StreamAt
<1>20. FormAt(w, B, C, 0, 0, Len(pre))
  BY <1>10, <1>17, <1>18, <1>19 DEF FormAt
<1> QED
  BY <1>7, <1>14, <1>15, <1>20 DEF FormInv

\* A step of the form, or none.
LEMMA NextForms ==
    ASSUME M!MultipartAssumption, FormInv, M!Next \/ UNCHANGED formVars
    PROVE  FormInv'
<1>1. MaxParts \in Nat /\ SendBuffer \in Nat \ {0}
  BY DEF M!MultipartAssumption
<1>2. CASE M!Next
  BY <1>1, <1>2, CopySegmentKeeps, FlushRestKeeps, StreamPlainKeeps, StreamItemKeeps,
     StreamFinishKeeps, SendFailsKeeps, FormArriveKeeps, FormParseKeeps, BodyReadKeeps DEF M!Next
<1>3. CASE UNCHANGED formVars
  <2>1. UNCHANGED <<items, epilogue, sender, segs, buffer, stream, form_wire, sending, state, valid,
                    buf, parsing, head, form, accepted>>
    BY <1>3 DEF formVars
  <2>2. FormTyped' /\ FormVerdict'
    BY <2>1 DEF FormInv, FormTyped, FormVerdict, BadForm
  <2>3. PICK w, B, C, p, q, s : FormAt(w, B, C, p, q, s)
    BY DEF FormInv
  <2>4. FormGiven' /\ Text(w, B, C)' /\ SentUpTo(w, B, C, s)'
    BY <2>1, <2>3, TextStays, SentStays DEF FormAt, FormInv
  <2>5. Stretch(buf, w, p, q)' /\ Stretch(form_wire, w, q, s)'
    <3>1. Stretch(buf, w, p, q) /\ Stretch(form_wire, w, q, s) /\ buf' = buf /\ form_wire' = form_wire
      BY <2>1, <2>3 DEF FormAt
    <3> QED
      BY <3>1 DEF Stretch
  <2>6. PartsHeld' /\ AtPlace(w, B, C, p)' /\ Starved(w, q)'
    <3>1. \A i : (M!Part(items[i]))' = M!Part(items[i])
      BY <2>1 DEF M!Part
    <3>2. (M!Part(items[Len(form)]))' = M!Part(items[Len(form)])
      BY <2>1 DEF M!Part
    <3>3. PartsHeld'
      BY <2>1, <2>3, <3>1 DEF FormAt, PartsHeld
    <3>4. AtPlace(w, B, C, p) /\ Starved(w, q)
      BY <2>3 DEF FormAt
    <3>5. AtPlace(w, B, C, p)'
      BY <2>1, <3>2, <3>4, Zenon DEF AtPlace
    <3>6. Starved(w, q)'
      BY <2>1, <3>4 DEF Starved
    <3> QED
      BY <3>3, <3>5, <3>6
  <2>7. FormAt(w, B, C, p, q, s)'
    BY <2>4, <2>5, <2>6 DEF FormAt
  <2>8. (\E w_, B_, C_, p_, q_, s_ : FormAt(w_, B_, C_, p_, q_, s_))'
    BY <2>7
  <2> QED
    BY <2>2, <2>4, <2>8 DEF FormInv
<1> QED
  BY <1>2, <1>3

\* FormInv holds of every form, for all items, preambles and senders, and
\* wherever its bytes are cut.
\* (get_multipart_content_provider, FormDataParser::parse, read_content_core.)
THEOREM FormsInvariant == ContentSpec => [](part = "form" => FormInv)
<1>1. ContentInit => (part = "form" => FormInv)
  BY InitForms, ContentAssumption DEF ContentInit, ContentAssumption
<1>2. (part = "form" => FormInv) /\ [ContentNext]_contentVars
      => (part = "form" => FormInv)'
  <2> SUFFICES ASSUME part = "form" => FormInv, [ContentNext]_contentVars, part' = "form"
               PROVE  FormInv'
    OBVIOUS
  <2>1. part = "form"
    BY DEF ContentNext, contentVars
  <2>2. M!Next \/ UNCHANGED formVars
    BY <2>1 DEF ContentNext, contentVars
  <2>3. M!MultipartAssumption
    BY ContentAssumption DEF ContentAssumption
  <2> QED
    BY <2>1, <2>2, <2>3, NextForms
<1> QED
  BY <1>1, <1>2, PTL DEF ContentSpec

\* What a handler has of the parts.
LEMMA FormsArePrefixes ==
    ASSUME FormInv
    PROVE  M!FormIsAPrefix
<1>1. FormGiven /\ FormTyped /\ form \in Seq(FormPart)
  BY DEF FormInv, FormTyped
<1>2. PICK w, B, C, p : PartsHeld /\ AtPlace(w, B, C, p)
  BY DEF FormInv, FormAt
<1>3. Len(form) \in Nat /\ Len(items) \in Nat /\ DOMAIN form = 1 .. Len(form) /\ Len(form) <= Len(items)
  BY <1>1, <1>2, LenProperties DEF FormGiven, PartsHeld
<1>4. ASSUME NEW i \in DOMAIN form
      PROVE  LET part_ == M!Part(items[i]) IN
             /\ form[i].lines = part_.lines /\ form[i].file = part_.file
             /\ M!IsPrefix(form[i].content, part_.content)
             /\ (i < Len(form) \/ state \notin {0, 3}) => form[i] = part_
  <2>1. i \in 1 .. Len(items) /\ i \in 1 .. Len(form)
    BY <1>3
  <2>2. items[i].content \in Seq(Byte) /\ Len(items[i].content) \in Nat
    BY <1>1, <2>1, ItemIs
  <2>3. PICK u, l, t, f : u = M!Part(items[i]) /\ u = [lines |-> l, content |-> t, file |-> f]
                          /\ t = items[i].content
    BY Zenon DEF M!Part
  <2>4. t \in Seq(Byte) /\ Len(t) \in Nat
    BY <2>2, <2>3
  <2>5. CASE i < Len(form) \/ state # 3
    <3>1. form[i] = u
      BY <1>2, <2>1, <2>3, <2>5, Zenon DEF PartsHeld
    <3>2. M!IsPrefix(t, t)
      BY <2>4 DEF M!IsPrefix
    <3>3. u.content = t
      BY <2>3
    <3> QED
      BY <2>3, <3>1, <3>2, <3>3
  <2>6. CASE ~(i < Len(form) \/ state # 3)
    <3>1. i = Len(form) /\ state = 3
      BY <1>3, <2>1, <2>6
    <3>2. PICK c \in 0 .. Len(t) : form[i] = [u EXCEPT !.content = SubSeq(t, 1, c)]
      <4>1. state # 0 /\ state # 1 /\ state # 2 /\ state # 4
        BY <3>1
      <4>2. \E c \in 0 .. Len(items[Len(form)].content) :
                form[Len(form)] = [M!Part(items[Len(form)]) EXCEPT
                                      !.content = SubSeq(items[Len(form)].content, 1, c)]
        BY <1>2, <4>1, Zenon DEF AtPlace
      <4> QED
        BY <2>3, <3>1, <4>2, Zenon
    <3>3. PICK y : y = SubSeq(t, 1, c)
      BY Zenon
    <3>4. form[i] = [lines |-> l, content |-> y, file |-> f] /\ form[i].content = y
      <4>1. form[i] = [u EXCEPT !.content = y]
        BY <3>2, <3>3
      <4>2. PICK x : x = form[i]
        OBVIOUS
      <4>3. u = [lines |-> l, content |-> t, file |-> f] /\ x = [u EXCEPT !.content = y]
        BY <2>3, <4>1, <4>2
      <4>4. x = [lines |-> l, content |-> y, file |-> f] /\ x.content = y
        BY <4>3, PartContent
      <4> QED
        BY <4>2, <4>4
    <3>5. Len(y) = c /\ c <= Len(t) /\ SubSeq(y, 1, Len(y)) = y
      <4>1. y \in Seq(Byte) /\ Len(y) = c /\ c \in Nat /\ c <= Len(t)
        BY <2>4, <3>3
      <4>2. /\ SubSeq(y, 1, Len(y)) \in Seq(Byte) /\ Len(SubSeq(y, 1, Len(y))) = Len(y)
            /\ \A j \in 1 .. Len(y) : SubSeq(y, 1, Len(y))[j] = y[j]
        BY <4>1
      <4> QED
        BY <4>1, <4>2, SeqEqual
    <3>6. M!IsPrefix(y, t)
      BY <3>3, <3>5 DEF M!IsPrefix
    <3>7. u.lines = l /\ u.file = f /\ u.content = t /\ form[i].lines = l /\ form[i].file = f
      BY <2>3, <3>4
    <3> QED
      BY <2>3, <2>6, <3>1, <3>4, <3>6, <3>7
  <2> QED
    BY <2>5, <2>6
<1> QED
  BY <1>3, <1>4 DEF M!FormIsAPrefix

\* However a form is made and wherever it is cut, the handler gets a beginning
\* of what was sent; what is accepted is all of it, and a form sent whole is
\* refused only for its number of parts or a bad line.
\* (get_multipart_content_provider, FormDataParser::parse, read_content_core.)
THEOREM FormsArriveAlways == ContentSpec => []FormsArrive
<1>1. (part = "form" => FormInv) => FormsArrive
  <2> SUFFICES ASSUME FormInv
               PROVE  M!FormIsAPrefix /\ M!AcceptedIsWhole /\ M!WholeIsAccepted
    BY DEF FormsArrive
  <2>1. FormGiven /\ FormTyped /\ FormVerdict /\ form \in Seq(FormPart)
    BY DEF FormInv, FormTyped
  <2>2. PICK w, B, C, p : PartsHeld /\ AtPlace(w, B, C, p)
    BY DEF FormInv, FormAt
  <2>3. M!AcceptedIsWhole
    <3> SUFFICES ASSUME accepted = "ok" PROVE form = [i \in DOMAIN items |-> M!Part(items[i])]
      BY DEF M!AcceptedIsWhole
    <3>1. valid
      BY <2>1 DEF FormVerdict
    <3>2. Len(form) = Len(items) /\ state # 3
      BY <2>2, <3>1 DEF AtPlace
    <3>3. \A i \in 1 .. Len(form) : form[i] = M!Part(items[i])
      BY <2>2, <3>2 DEF PartsHeld
    <3>4. DOMAIN items = 1 .. Len(form)
      BY <2>1, <3>2, LenProperties DEF FormGiven
    <3>5. form = [i \in 1 .. Len(form) |-> form[i]]
      BY <2>1, LenProperties
    <3> QED
      BY <3>3, <3>4, <3>5
  <2>4. M!WholeIsAccepted
    BY <2>1 DEF FormVerdict, BadForm, M!WholeIsAccepted
  <2> QED
    BY <2>3, <2>4, FormsArePrefixes
<1> QED
  BY FormsInvariant, <1>1, PTL
=============================================================================
