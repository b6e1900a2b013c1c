------------------------- MODULE ThreadPoolExecutor -------------------------
(***************************************************************************)
(* utility/src/concurrency/thread_pool_executor.cpp: a queue of tasks, a   *)
(* set of fixed and on-demand worker threads, workers that reap the        *)
(* threads of dead ones, and stop, which joins what is left.               *)
(*                                                                         *)
(* One action is one critical section of m_mutex or one blocking call made *)
(* without it.  m_cv is an untimed condition variable, so who waits and    *)
(* who has been notified is part of the state.                             *)
(***************************************************************************)
EXTENDS Integers, Sequences, FiniteSets, SequencesExt

CONSTANTS
    Task,           \* the tasks clients put
    Worker,         \* identities of workers, never used twice
    Fixed,          \* the workers the constructor starts
    NoTask,         \* no task
    NoWorker,       \* no worker
    MaxThreads,     \* m_max_thread_count
    MaxStops,       \* bound on the calls of stop, the destructor's included
    MaxFaults,      \* bound on the threads the system refuses to create
    Cancels         \* whether clients call cancel

ASSUME ExecutorAssumption ==
    /\ IsFiniteSet(Worker)
    /\ Fixed \subseteq Worker
    /\ NoTask \notin Task /\ NoWorker \notin Worker
    /\ MaxThreads \in Nat /\ Cardinality(Fixed) <= MaxThreads
    /\ MaxStops \in Nat /\ MaxFaults \in Nat
    /\ Cancels \in BOOLEAN

VARIABLES
    m_queue,
    m_busy_count,
    m_workers,
    m_dead_workers,
    m_stop,
    m_cancel,
    joinable,       \* workers whose Worker struct holds a joinable thread
    wpc,            \* wpc[w]: where the thread of w is
    work,           \* work[w]: the task w runs
    reaping,        \* reaping[w]: the dead worker w has taken out to join
    notifies,       \* puts that have unlocked and not yet called notify_one
    spc,            \* where the thread that calls stop is
    threads,        \* stop's local vector, as the workers they came from
    hollow,         \* those of threads that are not joinable
    stops,          \* calls of stop that have returned
    submitted,      \* tasks for which put was called
    finished,       \* tasks that ran to their end
    faults,         \* threads the system refused to create
    terminated      \* a join threw and nobody caught it: std::terminate

queueVars == <<m_queue, submitted, finished>>
flagVars == <<m_stop, m_cancel>>
workerVars == <<m_workers, joinable, wpc, work>>
reapVars == <<m_dead_workers, reaping>>
stopVars == <<spc, threads, hollow, stops>>
vars == <<queueVars, m_busy_count, flagVars, workerVars, reapVars, notifies,
          stopVars, faults, terminated>>

TypeOK ==
    /\ m_queue \in Seq(Task)
    /\ m_busy_count \in Nat
    /\ m_workers \subseteq Worker
    /\ m_dead_workers \in Seq(Worker)
    /\ m_stop \in BOOLEAN /\ m_cancel \in BOOLEAN
    /\ joinable \subseteq Worker
    /\ wpc \in [Worker -> {"absent", "top", "reap", "wait", "woken", "run", "exited"}]
    /\ work \in [Worker -> Task \cup {NoTask}]
    /\ reaping \in [Worker -> Worker \cup {NoWorker}]
    /\ notifies \in Nat
    /\ spc \in {"idle", "notify", "join"}
    /\ threads \subseteq Worker /\ hollow \subseteq Worker
    /\ stops \in 0 .. MaxStops
    /\ submitted \subseteq Task /\ finished \subseteq Task
    /\ faults \in 0 .. MaxFaults
    /\ terminated \in BOOLEAN

\* The constructor starts the fixed workers.
Init ==
    /\ m_queue = <<>> /\ m_busy_count = 0
    /\ m_workers = Fixed /\ joinable = Fixed
    /\ m_dead_workers = <<>>
    /\ m_stop = FALSE /\ m_cancel = FALSE
    /\ wpc = [w \in Worker |-> IF w \in Fixed THEN "top" ELSE "absent"]
    /\ work = [w \in Worker |-> NoTask]
    /\ reaping = [w \in Worker |-> NoWorker]
    /\ notifies = 0
    /\ spc = "idle" /\ threads = {} /\ hollow = {} /\ stops = 0
    /\ submitted = {} /\ finished = {}
    /\ faults = 0 /\ terminated = FALSE

-----------------------------------------------------------------------------
(* Clients.                                                                *)

free_workers == Cardinality(m_workers) - m_busy_count

\* Mutant: the queue is measured before the task is pushed.
NeedsWorker_early ==
    /\ Len(m_queue) > free_workers
    /\ Cardinality(m_workers) < MaxThreads

\* put, once the task is in the queue, wants one more on-demand worker.
NeedsWorker ==
    /\ Len(m_queue) + 1 > free_workers
    /\ Cardinality(m_workers) < MaxThreads

add_worker(w) ==
    /\ wpc[w] = "absent"
    /\ m_workers' = m_workers \cup {w}
    /\ joinable' = joinable \cup {w}
    /\ wpc' = [wpc EXCEPT ![w] = "top"]
    /\ UNCHANGED work

\* Mutant: put does not notify.
put_silent(t) ==
    /\ ~terminated
    /\ t \notin submitted
    /\ ~m_stop
    /\ submitted' = submitted \cup {t}
    /\ m_queue' = Append(m_queue, t)
    /\ IF NeedsWorker THEN \E w \in Worker : add_worker(w) ELSE UNCHANGED workerVars
    /\ UNCHANGED <<finished, m_busy_count, flagVars, reapVars, notifies,
                   stopVars, faults, terminated>>

put(t) ==
    /\ ~terminated
    /\ t \notin submitted
    /\ submitted' = submitted \cup {t}
    /\ IF m_stop
       THEN UNCHANGED <<m_queue, workerVars, notifies>>
       ELSE /\ m_queue' = Append(m_queue, t)
            /\ notifies' = notifies + 1
            /\ IF NeedsWorker
               THEN \E w \in Worker : add_worker(w)
               ELSE UNCHANGED workerVars
    /\ UNCHANGED <<finished, m_busy_count, flagVars, reapVars, stopVars,
                   faults, terminated>>

\* The thread of the new worker cannot be created: the exception leaves put
\* after the push and before the notification.
put_throws(t) ==
    /\ ~terminated
    /\ t \notin submitted
    /\ ~m_stop
    /\ NeedsWorker
    /\ faults < MaxFaults
    /\ faults' = faults + 1
    /\ submitted' = submitted \cup {t}
    /\ m_queue' = Append(m_queue, t)
    /\ UNCHANGED <<finished, m_busy_count, flagVars, workerVars, reapVars,
                   notifies, stopVars, terminated>>

Waiting == {w \in Worker : wpc[w] = "wait"}

\* The end of put: m_cv.notify_one() wakes one waiting worker, if any.
put_notify ==
    /\ ~terminated
    /\ notifies > 0
    /\ notifies' = notifies - 1
    /\ IF Waiting = {} THEN UNCHANGED wpc
       ELSE \E w \in Waiting : wpc' = [wpc EXCEPT ![w] = "woken"]
    /\ UNCHANGED <<queueVars, m_busy_count, flagVars, m_workers, joinable, work,
                   reapVars, stopVars, faults, terminated>>

wake_all == wpc' = [w \in Worker |-> IF wpc[w] = "wait" THEN "woken" ELSE wpc[w]]

\* The critical section of cancel and its notify_all: a worker that evaluates
\* its wait condition in between sees m_cancel itself.
cancel ==
    /\ ~terminated
    /\ Cancels
    /\ ~m_cancel
    /\ m_cancel' = TRUE
    /\ wake_all
    /\ UNCHANGED <<queueVars, m_busy_count, m_stop, m_workers, joinable, work,
                   reapVars, notifies, stopVars, faults, terminated>>

-----------------------------------------------------------------------------
(* worker_fn.                                                              *)

\* The dead workers that are not the thread itself.
Reapable(w) == {i \in 1 .. Len(m_dead_workers) : m_dead_workers[i] # w}

\* Take the last other dead worker out of the vector, to join it unlocked.
worker_reap(w) ==
    /\ ~terminated
    /\ wpc[w] = "top"
    /\ \E i \in Reapable(w) :
        /\ \A j \in Reapable(w) : j <= i
        /\ reaping' = [reaping EXCEPT ![w] = m_dead_workers[i]]
        /\ m_dead_workers' = RemoveAt(m_dead_workers, i)
    /\ wpc' = [wpc EXCEPT ![w] = "reap"]
    /\ UNCHANGED <<queueVars, m_busy_count, flagVars, m_workers, joinable, work,
                   notifies, stopVars, faults, terminated>>

\* join blocks until the dead worker's thread has ended.  On a thread that
\* stop has moved away it throws, and the exception ends the process.
worker_join_dead(w) ==
    /\ ~terminated
    /\ wpc[w] = "reap"
    /\ IF reaping[w] \in joinable
       THEN /\ wpc[reaping[w]] = "exited"
            /\ joinable' = joinable \ {reaping[w]}
            /\ wpc' = [wpc EXCEPT ![w] = "top"]
            /\ reaping' = [reaping EXCEPT ![w] = NoWorker]
            /\ UNCHANGED terminated
       ELSE terminated' = TRUE /\ UNCHANGED <<joinable, wpc, reaping>>
    /\ UNCHANGED <<queueVars, m_busy_count, flagVars, m_workers, work,
                   m_dead_workers, notifies, stopVars, faults>>

\* The wait predicate of m_cv.
ready == m_cancel \/ m_stop \/ m_queue # <<>>

\* Nothing left to reap, or woken: w holds m_mutex at the wait.
AtWait(w) == wpc[w] = "woken" \/ (wpc[w] = "top" /\ Reapable(w) = {})

worker_wait(w) ==
    /\ ~terminated
    /\ AtWait(w)
    /\ ~ready
    /\ wpc' = [wpc EXCEPT ![w] = "wait"]
    /\ UNCHANGED <<queueVars, m_busy_count, flagVars, m_workers, joinable, work,
                   reapVars, notifies, stopVars, faults, terminated>>

\* Mutant: m_stop alone ends a worker, whatever is queued.
worker_return_early(w) ==
    /\ ~terminated
    /\ AtWait(w)
    /\ m_cancel \/ m_stop
    /\ wpc' = [wpc EXCEPT ![w] = "exited"]
    /\ UNCHANGED <<queueVars, m_busy_count, flagVars, m_workers, joinable, work,
                   reapVars, notifies, stopVars, faults, terminated>>

\* return without leaving m_workers.
worker_return(w) ==
    /\ ~terminated
    /\ AtWait(w)
    /\ m_cancel \/ (m_stop /\ m_queue = <<>>)
    /\ wpc' = [wpc EXCEPT ![w] = "exited"]
    /\ UNCHANGED <<queueVars, m_busy_count, flagVars, m_workers, joinable, work,
                   reapVars, notifies, stopVars, faults, terminated>>

worker_take(w) ==
    /\ ~terminated
    /\ AtWait(w)
    /\ ~m_cancel
    /\ m_queue # <<>>
    /\ work' = [work EXCEPT ![w] = Head(m_queue)]
    /\ m_queue' = Tail(m_queue)
    /\ m_busy_count' = m_busy_count + 1
    /\ wpc' = [wpc EXCEPT ![w] = "run"]
    /\ UNCHANGED <<submitted, finished, flagVars, m_workers, joinable, reapVars,
                   notifies, stopVars, faults, terminated>>

\* Mutant: m_busy_count is not lowered.
worker_finish_busy(w) ==
    /\ ~terminated
    /\ wpc[w] = "run"
    /\ work' = [work EXCEPT ![w] = NoTask]
    /\ finished' = finished \cup {work[w]}
    /\ wpc' = [wpc EXCEPT ![w] = "top"]
    /\ UNCHANGED <<m_queue, submitted, m_busy_count, flagVars, m_workers,
                   joinable, reapVars, notifies, stopVars, faults, terminated>>

\* A worker that leaves after its task, with or without a reason to, and goes
\* to the given place.
leave(w, to) ==
    /\ ~terminated
    /\ wpc[w] = "run"
    /\ work' = [work EXCEPT ![w] = NoTask]
    /\ finished' = finished \cup {work[w]}
    /\ m_busy_count' = m_busy_count - 1
    /\ m_workers' = m_workers \ {w}
    /\ m_dead_workers' = Append(m_dead_workers, w)
    /\ wpc' = [wpc EXCEPT ![w] = to]
    /\ UNCHANGED <<m_queue, submitted, flagVars, joinable, reaping, notifies,
                   stopVars, faults, terminated>>

\* Mutant: the dying thread does not return.
worker_finish_returns(w) == leave(w, "top")

\* Mutant: a worker dies while tasks are queued.
worker_finish_eager(w) == leave(w, "exited")

\* The task returned or threw.  An on-demand worker that finds the queue
\* empty moves itself to the dead and ends; any other starts over.
worker_finish(w) ==
    /\ ~terminated
    /\ wpc[w] = "run"
    /\ work' = [work EXCEPT ![w] = NoTask]
    /\ finished' = finished \cup {work[w]}
    /\ m_busy_count' = m_busy_count - 1
    /\ IF w \notin Fixed /\ m_busy_count' < Cardinality(m_workers) /\ m_queue = <<>>
       THEN /\ m_workers' = m_workers \ {w}
            /\ m_dead_workers' = Append(m_dead_workers, w)
            /\ wpc' = [wpc EXCEPT ![w] = "exited"]
       ELSE /\ UNCHANGED <<m_workers, m_dead_workers>>
            /\ wpc' = [wpc EXCEPT ![w] = "top"]
    /\ UNCHANGED <<m_queue, submitted, flagVars, joinable, reaping, notifies,
                   stopVars, faults, terminated>>

-----------------------------------------------------------------------------
(* stop.                                                                   *)

\* Move every thread out of m_workers; the entries stay, with empty threads.
stop_enter ==
    /\ ~terminated
    /\ spc = "idle"
    /\ stops < MaxStops
    /\ m_stop' = TRUE
    /\ threads' = m_workers
    /\ hollow' = m_workers \ joinable
    /\ joinable' = joinable \ m_workers
    /\ spc' = "notify"
    /\ UNCHANGED <<queueVars, m_busy_count, m_cancel, m_workers, wpc, work,
                   reapVars, notifies, stops, faults, terminated>>

\* Mutant: stop does not notify.
stop_notify_nobody ==
    /\ ~terminated
    /\ spc = "notify"
    /\ spc' = "join"
    /\ UNCHANGED <<queueVars, m_busy_count, flagVars, workerVars, reapVars,
                   notifies, threads, hollow, stops, faults, terminated>>

stop_notify ==
    /\ ~terminated
    /\ spc = "notify"
    /\ wake_all
    /\ spc' = "join"
    /\ UNCHANGED <<queueVars, m_busy_count, flagVars, m_workers, joinable, work,
                   reapVars, notifies, threads, hollow, stops, faults, terminated>>

\* Join one of threads; m_workers is unordered, so any order is possible.
stop_join(w) ==
    /\ ~terminated
    /\ spc = "join"
    /\ w \in threads
    /\ IF w \in hollow THEN terminated' = TRUE /\ UNCHANGED threads
       ELSE /\ wpc[w] = "exited"
            /\ threads' = threads \ {w}
            /\ UNCHANGED terminated
    /\ UNCHANGED <<queueVars, m_busy_count, flagVars, workerVars, reapVars,
                   notifies, spc, hollow, stops, faults>>

stop_return ==
    /\ ~terminated
    /\ spc = "join"
    /\ threads = {}
    /\ spc' = "idle"
    /\ hollow' = {}
    /\ stops' = stops + 1
    /\ UNCHANGED <<queueVars, m_busy_count, flagVars, workerVars, reapVars,
                   notifies, threads, faults, terminated>>

-----------------------------------------------------------------------------
worker_fn(w) ==
    \/ worker_reap(w) \/ worker_join_dead(w) \/ worker_wait(w)
    \/ worker_return(w) \/ worker_take(w) \/ worker_finish(w)

stop ==
    \/ stop_enter \/ stop_notify \/ stop_return
    \/ \E w \in Worker : stop_join(w)

\* Nothing is left to do, or the process is gone.
ended ==
    /\ \/ terminated
       \/ stops = MaxStops /\ spc = "idle" /\ submitted = Task /\ notifies = 0
    /\ UNCHANGED vars

Next ==
    \/ \E t \in Task : put(t) \/ put_throws(t)
    \/ put_notify
    \/ cancel
    \/ \E w \in Worker : worker_fn(w)
    \/ stop
    \/ ended

Spec == Init /\ [][Next]_vars

\* Threads that can run do; tasks end; a client that called put or stop
\* executes it to its end, but nobody has to call put, cancel or stop.
Fairness ==
    /\ \A w \in Worker : WF_vars(worker_fn(w))
    /\ WF_vars(put_notify)
    /\ WF_vars(stop /\ spc # "idle")

FairSpec == Spec /\ Fairness
-----------------------------------------------------------------------------
(* Properties.                                                             *)

In(states) == {w \in Worker : wpc[w] \in states}

\* The types, and the books of the workers.  The assertion in put holds since
\* m_busy_count counts the workers that run a task, and those are still entries
\* of m_workers.  Workers reap before they take a task, so all that are dead at
\* once were alive at once: however many bursts there are, the vector of dead
\* workers does not outgrow the number of on-demand workers.
BusyWithinWorkers ==
    /\ TypeOK
    /\ m_busy_count = Cardinality(In({"run"}))
    /\ m_busy_count <= Cardinality(m_workers)
    /\ Len(m_dead_workers) <= MaxThreads - Cardinality(Fixed)

\* "Dying worker threads exit without coming back here": a thread that can
\* reach the reaping loop is never among the dead, nor being reaped, so the
\* loop cannot join its own thread, and no two threads join the same one.  A
\* join can throw only once stop has moved threads away: while the executor is
\* in use the process is never terminated.
NoSelfJoin ==
    /\ \A w \in Range(m_dead_workers) : wpc[w] = "exited"
    /\ \A w \in In({"reap"}) :
        /\ wpc[reaping[w]] = "exited"
        /\ reaping[w] \notin Range(m_dead_workers)
        /\ \A v \in In({"reap"}) : reaping[v] = reaping[w] => v = w
    /\ terminated => m_stop

\* As long as threads can be created, every queued task has a live worker that
\* is about to look at the queue, or all workers the executor may have exist.
QueueCovered ==
    faults = 0 /\ ~m_cancel =>
        \/ Len(m_queue) <= Cardinality(m_workers \cap In({"top", "reap", "wait", "woken"}))
        \/ Cardinality(m_workers) = MaxThreads

\* A task that was put is in one place: queued once, run by one worker, or
\* finished; no task is run a second time.  When stop has returned every thread
\* has ended and every task has run, unless cancel was called or a thread could
\* not be created, or none is allowed.
TaskOnce ==
    /\ \A i, j \in 1 .. Len(m_queue) : m_queue[i] = m_queue[j] => i = j
    /\ \A w \in In({"run"}) :
        /\ work[w] \in submitted \ (finished \cup Range(m_queue))
        /\ \A v \in In({"run"}) : work[v] = work[w] => v = w
    /\ Range(m_queue) \subseteq submitted \ finished
    /\ stops > 0 =>
        /\ In({"absent", "exited"}) = Worker
        /\ faults = 0 /\ ~m_cancel /\ MaxThreads > 0 => m_queue = <<>>

\* No wake-up is lost: a queued task is started, unless the executor is
\* cancelled or the process ends.
TaskStarts ==
    \A t \in Task :
        t \in Range(m_queue) ~> t \notin Range(m_queue) \/ m_cancel \/ terminated

\* A call of stop comes to an end: no worker waits for a notification or for
\* another thread for ever.
StopReturns == spc # "idle" ~> spc = "idle" \/ terminated

-----------------------------------------------------------------------------
\* Seen from outside, the executor takes exactly the steps of TaskExecutor:
\* this is what MachinePool relies on.
Counts == INSTANCE TaskExecutor WITH
    MinSize <- Cardinality(Fixed), MaxSize <- MaxThreads,
    queued <- Len(m_queue), busy <- m_busy_count, size <- Cardinality(m_workers)

CountsRefined == Counts!CountSpec
=============================================================================
