---------------------------- MODULE MCThreadPool ----------------------------
(***************************************************************************)
(* An instance of ThreadPool for TLC: two callers, two jobs, one base      *)
(* thread and a dynamic one, enough for two enqueues to race with a        *)
(* timeout, for the dynamic thread to be joined and made again, and for a  *)
(* queue at its limit.                                                     *)
(***************************************************************************)
EXTENDS ThreadPool, TLC

CONSTANTS j1, j2, c1, c2, w1, w2, w3

-----------------------------------------------------------------------------
(* Jobs are interchangeable, and so are workers: one of each stands for all *)

\* An accepted job is run (enqueue, ThreadPool::worker).
AcceptedJobRuns == JobRuns(j1)

\* Threads end: shutdown returns, and a dynamic thread that waits gets a job or
\* leaves (shutdown, worker's wait_for).
ThreadsEnd == ShutdownTerminates /\ Retires(w1)
=============================================================================
