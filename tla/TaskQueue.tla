------------------------------ MODULE TaskQueue ------------------------------
(***************************************************************************)
(* What a TaskQueue promises its user (class TaskQueue in httplib.h and    *)
(* the only way the server uses it): a job that enqueue accepts is started *)
(* once, in the order of acceptance; shutdown turns away later jobs and    *)
(* returns only when every accepted job has been run to its end.           *)
(***************************************************************************)
EXTENDS Naturals, Sequences, FiniteSets

CONSTANT Jobs

VARIABLES
    queue,    \* accepted and not started, oldest first
    active,   \* started and not finished
    done,     \* run to the end
    phase     \* "open", "closing" (shutdown called), "closed" (it returned)

vars == <<queue, active, done, phase>>

Known == {queue[i] : i \in DOMAIN queue} \cup active \cup done

TypeOK ==
    /\ queue \in Seq(Jobs)
    /\ active \subseteq Jobs
    /\ done \subseteq Jobs
    /\ phase \in {"open", "closing", "closed"}

Init ==
    /\ queue = <<>>
    /\ active = {}
    /\ done = {}
    /\ phase = "open"

\* enqueue returns true
Accept(j) ==
    /\ phase = "open"
    /\ j \notin Known
    /\ queue' = Append(queue, j)
    /\ UNCHANGED <<active, done, phase>>

\* some thread takes the oldest job
Start ==
    /\ queue # <<>>
    /\ active' = active \cup {Head(queue)}
    /\ queue' = Tail(queue)
    /\ UNCHANGED <<done, phase>>

Finish(j) ==
    /\ j \in active
    /\ active' = active \ {j}
    /\ done' = done \cup {j}
    /\ UNCHANGED <<queue, phase>>

\* shutdown is called: from here on every job is turned away
Close ==
    /\ phase = "open"
    /\ phase' = "closing"
    /\ UNCHANGED <<queue, active, done>>

\* shutdown returns
Closed ==
    /\ phase = "closing"
    /\ queue = <<>>
    /\ active = {}
    /\ phase' = "closed"
    /\ UNCHANGED <<queue, active, done>>

Next ==
    \/ \E j \in Jobs : Accept(j) \/ Finish(j)
    \/ Start
    \/ Close
    \/ Closed

Spec == Init /\ [][Next]_vars
=============================================================================
