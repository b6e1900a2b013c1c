---------------------------- MODULE TaskExecutor ----------------------------
(***************************************************************************)
(* What the clients of a thread pool see of it, in numbers: tasks queued,  *)
(* tasks running, threads.  ThreadPoolExecutor implements this module, and *)
(* the executor inside MachinePool takes only steps of it.                 *)
(***************************************************************************)
EXTENDS Integers

CONSTANTS
    MinSize,        \* threads that are never given up
    MaxSize         \* threads at most

VARIABLES queued, busy, size

countVars == <<queued, busy, size>>

CountInit == queued = 0 /\ busy = 0 /\ size = MinSize

\* With one more task the queue is longer than the number of free threads.
Short == queued + 1 > size - busy /\ size < MaxSize

Submit ==
    /\ queued' = queued + 1
    /\ size' = IF Short THEN size + 1 ELSE size
    /\ UNCHANGED busy

\* The thread that should serve the new task cannot be created.
SubmitFails ==
    /\ Short
    /\ queued' = queued + 1
    /\ UNCHANGED <<busy, size>>

Start ==
    /\ queued > 0
    /\ busy < size
    /\ queued' = queued - 1
    /\ busy' = busy + 1
    /\ UNCHANGED size

\* A thread is given up only when there is nothing queued, and never one of
\* the MinSize; if all are on demand the one that finds nothing queued must go.
Finish ==
    /\ busy > 0
    /\ busy' = busy - 1
    /\ \/ queued = 0 /\ size > MinSize /\ size' = size - 1
       \/ (queued > 0 \/ MinSize > 0) /\ size' = size
    /\ UNCHANGED queued

CountNext == Submit \/ SubmitFails \/ Start \/ Finish

CountSpec == CountInit /\ [][CountNext]_countVars
=============================================================================
