---------------------- MODULE ThreadPoolExecutorProofs ----------------------
(***************************************************************************)
(* The invariants of ThreadPoolExecutor for every set of tasks, number of  *)
(* fixed and on-demand workers and calls of stop, and that it implements   *)
(* TaskExecutor.                                                           *)
(***************************************************************************)
EXTENDS ThreadPoolExecutor, FiniteSetTheorems, SequenceTheorems, TLAPS

-----------------------------------------------------------------------------
(* The inductive invariant.                                                *)

\* A thread that has been started and has not returned.
Live == {"top", "reap", "wait", "woken", "run"}

\* On-demand workers that are past the reaping loop, and may die without having
\* seen those that died meanwhile.
Past == {w \in Worker \ Fixed : wpc[w] \in {"wait", "woken", "run"}}

\* Entries of m_workers that are about to look at the queue.
Free == m_workers \cap In({"top", "reap", "wait", "woken"})

\* The entries of m_workers are the live workers, and those that returned from
\* the wait; the counter counts the busy ones.  A worker passes the reaping loop
\* only when nobody is dead, so the dead and those past it fit into the limit.
WorkerInv ==
    /\ Fixed \subseteq m_workers
    /\ In(Live) \subseteq m_workers
    /\ \A w \in m_workers : wpc[w] # "absent"
    /\ Cardinality(m_workers) <= MaxThreads
    /\ m_busy_count = Cardinality(In({"run"}))
    /\ Len(m_dead_workers) + Cardinality(Past) <= MaxThreads - Cardinality(Fixed)

\* Dead workers are listed once, reaped once, and no entries of m_workers.
DeadInv ==
    /\ \A i \in 1 .. Len(m_dead_workers) :
        /\ wpc[m_dead_workers[i]] = "exited"
        /\ m_dead_workers[i] \notin m_workers
        /\ \A j \in 1 .. Len(m_dead_workers) : m_dead_workers[i] = m_dead_workers[j] => i = j
    /\ \A w \in Worker : wpc[w] = "reap" =>
        /\ reaping[w] \in Worker
        /\ wpc[reaping[w]] = "exited"
        /\ reaping[w] \notin m_workers
        /\ \A i \in 1 .. Len(m_dead_workers) : m_dead_workers[i] # reaping[w]
        /\ \A v \in Worker : wpc[v] = "reap" /\ reaping[v] = reaping[w] => v = w

\* Until stop moves the threads away every one that may be joined is there.
JoinInv ==
    /\ ~m_stop =>
        /\ m_workers \subseteq joinable
        /\ \A i \in 1 .. Len(m_dead_workers) : m_dead_workers[i] \in joinable
        /\ \A w \in Worker : wpc[w] = "reap" => reaping[w] \in joinable
    /\ terminated \/ spc # "idle" \/ stops > 0 => m_stop

\* A task is queued once, or run by one worker, or finished.
TaskInv ==
    /\ finished \subseteq submitted
    /\ \A i \in 1 .. Len(m_queue) :
        /\ m_queue[i] \in submitted \ finished
        /\ \A j \in 1 .. Len(m_queue) : m_queue[i] = m_queue[j] => i = j
    /\ \A w \in Worker : wpc[w] = "run" =>
        /\ work[w] \in submitted \ finished
        /\ \A i \in 1 .. Len(m_queue) : m_queue[i] # work[w]
        /\ \A v \in Worker : wpc[v] = "run" /\ work[v] = work[w] => v = w

\* stop has a thread for every live worker, and returns when there is none; a
\* worker that returns while it is an entry of m_workers leaves no task behind.
StopInv ==
    /\ spc # "idle" => In(Live) \subseteq threads
    /\ spc # "idle" => stops < MaxStops
    /\ stops > 0 => In(Live) = {}
    /\ ~m_cancel => \A w \in m_workers : wpc[w] = "exited" => m_stop /\ m_queue = <<>>

ExecInv == TypeOK /\ WorkerInv /\ DeadInv /\ JoinInv /\ TaskInv /\ StopInv /\ QueueCovered

-----------------------------------------------------------------------------
(* Lemmas about the operators.                                             *)

\* What RemoveAt leaves of a vector: the rest moves up by one.
LEMMA RemoveAtProps ==
  ASSUME NEW S, NEW s \in Seq(S), NEW i \in 1 .. Len(s)
  PROVE  /\ RemoveAt(s, i) \in Seq(S)
         /\ Len(RemoveAt(s, i)) = Len(s) - 1
         /\ \A j \in 1 .. Len(s) - 1 : RemoveAt(s, i)[j] = IF j < i THEN s[j] ELSE s[j + 1]
<1> DEFINE a == SubSeq(s, 1, i - 1)
           b == SubSeq(s, i + 1, Len(s))
<1>1. a \in Seq(S) /\ Len(a) = i - 1 /\ \A j \in 1 .. i - 1 : a[j] = s[j]
  OBVIOUS
<1>2. b \in Seq(S) /\ Len(b) = Len(s) - i /\ \A j \in 1 .. Len(s) - i : b[j] = s[j + i]
  OBVIOUS
<1>3. RemoveAt(s, i) = a \o b
  BY DEF RemoveAt
<1>4. /\ a \o b \in Seq(S)
      /\ Len(a \o b) = Len(a) + Len(b)
      /\ \A j \in 1 .. Len(a) + Len(b) : (a \o b)[j] = IF j <= Len(a) THEN a[j] ELSE b[j - Len(a)]
  BY <1>1, <1>2, ConcatProperties
<1> HIDE DEF a, b
<1> QED
  BY <1>1, <1>2, <1>3, <1>4

\* Two sets that agree but for x differ in size by whether x is in them.
LEMMA OneApart ==
  ASSUME NEW S, NEW T, NEW x, IsFiniteSet(S), IsFiniteSet(T), S \ {x} = T \ {x}
  PROVE  Cardinality(T) = Cardinality(S) + (IF x \in T THEN 1 ELSE 0) - (IF x \in S THEN 1 ELSE 0)
<1>1. Cardinality(S) \in Nat /\ Cardinality(T) \in Nat
  BY FS_CardinalityType
<1>2. CASE x \in S /\ x \notin T
  <2>1. S = T \cup {x}
    BY <1>2
  <2> QED
    BY <1>1, <1>2, <2>1, FS_AddElement
<1>3. CASE x \notin S /\ x \in T
  <2>1. T = S \cup {x}
    BY <1>3
  <2> QED
    BY <1>1, <1>3, <2>1, FS_AddElement
<1>4. CASE x \in S <=> x \in T
  <2>1. S = T
    BY <1>4
  <2> QED
    BY <1>1, <1>4, <2>1
<1> QED
  BY <1>2, <1>3, <1>4

\* Every set of workers is finite.
LEMMA WorkersFinite ==
  ASSUME NEW S \in SUBSET Worker
  PROVE  IsFiniteSet(S) /\ Cardinality(S) \in Nat
BY FS_Subset, FS_CardinalityType, ExecutorAssumption

-----------------------------------------------------------------------------
(* Types.                                                                  *)

\* The variables keep their types; in particular m_busy_count never wraps.
LEMMA ExecTypeStep == TypeOK /\ WorkerInv /\ TaskInv /\ StopInv /\ [Next]_vars => TypeOK'
<1> SUFFICES ASSUME TypeOK, WorkerInv, TaskInv, StopInv, [Next]_vars PROVE TypeOK'
  OBVIOUS
<1> USE ExecutorAssumption
    DEF TypeOK, queueVars, flagVars, workerVars, reapVars, stopVars
<1>1. ASSUME NEW t \in Task, put(t) \/ put_throws(t) PROVE TypeOK'
  <2>1. Append(m_queue, t) \in Seq(Task)
    OBVIOUS
  <2>2. m_queue' \in Seq(Task) /\ UNCHANGED <<flagVars, stopVars, reapVars, m_busy_count, finished, terminated>>
    BY <1>1, <2>1 DEF put, put_throws
  <2>3. /\ submitted' \subseteq Task /\ notifies' \in Nat /\ faults' \in 0 .. MaxFaults
    BY <1>1 DEF put, put_throws
  <2>4. m_workers' \subseteq Worker /\ joinable' \subseteq Worker
    BY <1>1 DEF put, put_throws, add_worker
  <2>5. /\ wpc' \in [Worker -> {"absent", "top", "reap", "wait", "woken", "run", "exited"}]
        /\ work' = work
    BY <1>1 DEF put, put_throws, add_worker
  <2> QED
    BY <2>2, <2>3, <2>4, <2>5
<1>2. CASE put_notify
  BY <1>2 DEF put_notify, Waiting
<1>3. CASE cancel
  BY <1>3 DEF cancel, wake_all
<1>4. ASSUME NEW w \in Worker, worker_fn(w) PROVE TypeOK'
  <2>1. CASE worker_reap(w)
    <3>1. PICK i \in 1 .. Len(m_dead_workers) :
            /\ m_dead_workers' = RemoveAt(m_dead_workers, i)
            /\ reaping' = [reaping EXCEPT ![w] = m_dead_workers[i]]
      BY <2>1 DEF worker_reap, Reapable
    <3>2. m_dead_workers' \in Seq(Worker)
      BY <3>1, RemoveAtProps
    <3> QED
      BY <2>1, <3>1, <3>2 DEF worker_reap
  <2>2. CASE worker_join_dead(w)
    BY <2>2 DEF worker_join_dead
  <2>3. CASE worker_wait(w) \/ worker_return(w)
    BY <2>3 DEF worker_wait, worker_return
  <2>4. CASE worker_take(w)
    <3>1. Head(m_queue) \in Task /\ Tail(m_queue) \in Seq(Task)
      BY <2>4 DEF worker_take
    <3> QED
      BY <2>4, <3>1 DEF worker_take
  <2>5. CASE worker_finish(w)
    <3>1. m_busy_count - 1 \in Nat
      <4>1. w \in In({"run"}) /\ In({"run"}) \in SUBSET Worker
        BY <2>5 DEF worker_finish, In
      <4>2. Cardinality(In({"run"})) # 0
        BY <4>1, WorkersFinite, FS_EmptySet
      <4> QED
        BY <4>2 DEF WorkerInv
    <3>2. work[w] \in Task
      BY <2>5 DEF worker_finish, TaskInv
    <3>3. Append(m_dead_workers, w) \in Seq(Worker)
      OBVIOUS
    <3>4. m_dead_workers' \in Seq(Worker) /\ m_busy_count' \in Nat
      BY <2>5, <3>1, <3>3 DEF worker_finish
    <3>5. wpc' \in [Worker -> {"absent", "top", "reap", "wait", "woken", "run", "exited"}]
      BY <2>5 DEF worker_finish
    <3>6. work' \in [Worker -> Task \cup {NoTask}] /\ finished' \subseteq Task /\ m_workers' \subseteq Worker
      BY <2>5, <3>2 DEF worker_finish
    <3>7. UNCHANGED <<m_queue, submitted, flagVars, joinable, reaping, notifies, stopVars, faults, terminated>>
      BY <2>5 DEF worker_finish
    <3> QED
      BY <3>4, <3>5, <3>6, <3>7
  <2> HIDE DEF TypeOK
  <2> QED
    BY <1>4, <2>1, <2>2, <2>3, <2>4, <2>5 DEF worker_fn
<1>5. CASE stop_enter
  BY <1>5 DEF stop_enter
<1>6. CASE stop_notify
  BY <1>6 DEF stop_notify, wake_all
<1>7. CASE stop_return
  BY <1>7 DEF stop_return, StopInv
<1>8. ASSUME NEW w \in Worker, stop_join(w) PROVE TypeOK'
  BY <1>8 DEF stop_join
<1>9. CASE UNCHANGED vars
  BY <1>9 DEF vars
<1> HIDE DEF TypeOK
<1> QED
  BY <1>1, <1>2, <1>3, <1>4, <1>5, <1>6, <1>7, <1>8, <1>9 DEF Next, stop, ended

\* notify_all moves the waiting workers, and nobody else.
LEMMA WakeAll ==
  ASSUME TypeOK, wake_all
  PROVE  \A v \in Worker : wpc'[v] = IF wpc[v] = "wait" THEN "woken" ELSE wpc[v]
BY DEF wake_all

\* Reaping takes one entry out of the vector of the dead.
LEMMA ReapTakes ==
  ASSUME TypeOK, NEW w \in Worker, worker_reap(w)
  PROVE  \E i \in 1 .. Len(m_dead_workers) :
            /\ reaping' = [reaping EXCEPT ![w] = m_dead_workers[i]]
            /\ Len(m_dead_workers') = Len(m_dead_workers) - 1
            /\ \A j \in 1 .. Len(m_dead_workers') :
                 \E k \in 1 .. Len(m_dead_workers) :
                    /\ k # i /\ k = IF j < i THEN j ELSE j + 1
                    /\ m_dead_workers'[j] = m_dead_workers[k]
<1>1. PICK i \in 1 .. Len(m_dead_workers) :
        /\ m_dead_workers' = RemoveAt(m_dead_workers, i)
        /\ reaping' = [reaping EXCEPT ![w] = m_dead_workers[i]]
  BY DEF worker_reap, Reapable
<1>2. m_dead_workers \in Seq(Worker)
  BY DEF TypeOK
<1>3. /\ Len(m_dead_workers') = Len(m_dead_workers) - 1
      /\ \A j \in 1 .. Len(m_dead_workers) - 1 :
            m_dead_workers'[j] = IF j < i THEN m_dead_workers[j] ELSE m_dead_workers[j + 1]
  BY <1>1, <1>2, RemoveAtProps
<1>4. Len(m_dead_workers) \in Nat
  BY <1>2
<1>5. ASSUME NEW j \in 1 .. Len(m_dead_workers')
      PROVE  \E k \in 1 .. Len(m_dead_workers) :
                    /\ k # i /\ k = IF j < i THEN j ELSE j + 1
                    /\ m_dead_workers'[j] = m_dead_workers[k]
  BY <1>3, <1>4
<1> QED
  BY <1>1, <1>3, <1>5

-----------------------------------------------------------------------------
(* The parts of the invariant, one lemma each.                             *)

\* A dead worker is reaped by one other worker, once.
LEMMA DeadInvStep == TypeOK /\ WorkerInv /\ DeadInv /\ [Next]_vars => DeadInv'
<1> SUFFICES ASSUME TypeOK, WorkerInv, DeadInv, [Next]_vars PROVE DeadInv'
  OBVIOUS
<1> USE ExecutorAssumption
    DEF TypeOK, DeadInv, queueVars, flagVars, workerVars, reapVars, stopVars
<1>1. ASSUME NEW t \in Task, put(t) \/ put_throws(t) PROVE DeadInv'
  BY <1>1 DEF put, put_throws, add_worker
<1>2. CASE put_notify
  BY <1>2 DEF put_notify, Waiting
<1>3. CASE cancel \/ stop_notify
  <2>1. UNCHANGED <<m_workers, m_dead_workers, reaping>>
    BY <1>3 DEF cancel, stop_notify
  <2>2. \A v \in Worker : wpc'[v] = IF wpc[v] = "wait" THEN "woken" ELSE wpc[v]
    BY <1>3, WakeAll DEF cancel, stop_notify
  <2>3. \A i \in 1 .. Len(m_dead_workers) : m_dead_workers[i] \in Worker
    OBVIOUS
  <2> QED
    BY <2>1, <2>2, <2>3
<1>4. ASSUME NEW w \in Worker, worker_fn(w) PROVE DeadInv'
  <2>1. CASE worker_reap(w)
    <3>1. PICK i \in 1 .. Len(m_dead_workers) :
            /\ reaping' = [reaping EXCEPT ![w] = m_dead_workers[i]]
            /\ Len(m_dead_workers') = Len(m_dead_workers) - 1
            /\ \A j \in 1 .. Len(m_dead_workers') :
                 \E k \in 1 .. Len(m_dead_workers) :
                    /\ k # i /\ k = IF j < i THEN j ELSE j + 1
                    /\ m_dead_workers'[j] = m_dead_workers[k]
      BY <2>1, ReapTakes
    <3>2. Len(m_dead_workers) \in Nat /\ m_dead_workers[i] \in Worker
      OBVIOUS
    <3>3. /\ wpc' = [wpc EXCEPT ![w] = "reap"] /\ wpc[w] = "top"
          /\ UNCHANGED m_workers
      BY <2>1 DEF worker_reap
    <3>4. ASSUME NEW j \in 1 .. Len(m_dead_workers')
          PROVE  /\ wpc'[m_dead_workers'[j]] = "exited"
                 /\ m_dead_workers'[j] \notin m_workers'
                 /\ m_dead_workers'[j] # m_dead_workers[i]
                 /\ \A v \in Worker : wpc[v] = "reap" => m_dead_workers'[j] # reaping[v]
      BY <3>1, <3>2, <3>3
    <3>5. ASSUME NEW j \in 1 .. Len(m_dead_workers'), NEW k \in 1 .. Len(m_dead_workers'),
                 m_dead_workers'[j] = m_dead_workers'[k]
          PROVE  j = k
      <4>1. PICK a \in 1 .. Len(m_dead_workers) :
              a = (IF j < i THEN j ELSE j + 1) /\ m_dead_workers'[j] = m_dead_workers[a]
        BY <3>1
      <4>2. PICK b \in 1 .. Len(m_dead_workers) :
              b = (IF k < i THEN k ELSE k + 1) /\ m_dead_workers'[k] = m_dead_workers[b]
        BY <3>1
      <4>3. a = b
        BY <3>5, <4>1, <4>2
      <4>4. j \in Int /\ k \in Int /\ i \in Int
        BY <3>1, <3>2
      <4> QED
        BY <4>1, <4>2, <4>3, <4>4
    <3>6. ASSUME NEW v \in Worker, wpc'[v] = "reap"
          PROVE  /\ reaping'[v] \in Worker
                 /\ wpc'[reaping'[v]] = "exited"
                 /\ reaping'[v] \notin m_workers'
                 /\ \A u \in Worker : wpc'[u] = "reap" /\ reaping'[u] = reaping'[v] => u = v
      BY <3>1, <3>2, <3>3, <3>6
    <3>7. ASSUME NEW v \in Worker, wpc'[v] = "reap", NEW j \in 1 .. Len(m_dead_workers')
          PROVE  m_dead_workers'[j] # reaping'[v]
      BY <3>1, <3>3, <3>4, <3>7
    <3> QED
      BY <3>4, <3>5, <3>6, <3>7
  <2>2. CASE worker_join_dead(w)
    <3>1. CASE reaping[w] \in joinable
      <4>1. /\ wpc' = [wpc EXCEPT ![w] = "top"] /\ wpc[w] = "reap"
            /\ reaping' = [reaping EXCEPT ![w] = NoWorker]
            /\ UNCHANGED <<m_workers, m_dead_workers>>
        BY <2>2, <3>1 DEF worker_join_dead
      <4> QED
        BY <4>1
    <3>2. CASE reaping[w] \notin joinable
      BY <2>2, <3>2 DEF worker_join_dead
    <3> QED
      BY <3>1, <3>2
  <2>3. CASE worker_wait(w)
    BY <2>3 DEF worker_wait, AtWait
  <2>4. CASE worker_return(w)
    BY <2>4 DEF worker_return, AtWait
  <2>5. CASE worker_take(w)
    BY <2>5 DEF worker_take, AtWait
  <2>6. CASE worker_finish(w)
    <3>1. CASE UNCHANGED m_dead_workers
      BY <2>6, <3>1 DEF worker_finish
    <3>2. CASE m_dead_workers' = Append(m_dead_workers, w)
      <4>1. /\ Len(m_dead_workers') = Len(m_dead_workers) + 1
            /\ \A i \in 1 .. Len(m_dead_workers') :
                 m_dead_workers'[i] = IF i <= Len(m_dead_workers) THEN m_dead_workers[i] ELSE w
        BY <3>2
      <4> QED
        BY <2>6, <3>2, <4>1 DEF worker_finish
    <3> QED
      BY <2>6, <3>1, <3>2 DEF worker_finish
  <2> HIDE DEF DeadInv
  <2> QED
    BY <1>4, <2>1, <2>2, <2>3, <2>4, <2>5, <2>6 DEF worker_fn
<1>5. CASE stop_enter
  BY <1>5 DEF stop_enter
<1>6. CASE stop_return
  BY <1>6 DEF stop_return
<1>7. ASSUME NEW w \in Worker, stop_join(w) PROVE DeadInv'
  BY <1>7 DEF stop_join
<1>8. CASE UNCHANGED vars
  BY <1>8 DEF vars
<1> HIDE DEF DeadInv
<1> QED
  BY <1>1, <1>2, <1>3, <1>4, <1>5, <1>6, <1>7, <1>8 DEF Next, stop, ended


\* Threads go away only by being joined, or with stop.
LEMMA JoinInvStep == TypeOK /\ WorkerInv /\ DeadInv /\ JoinInv /\ [Next]_vars => JoinInv'
<1> SUFFICES ASSUME TypeOK, WorkerInv, DeadInv, JoinInv, [Next]_vars PROVE JoinInv'
  OBVIOUS
<1> USE ExecutorAssumption
    DEF TypeOK, DeadInv, JoinInv, queueVars, flagVars, workerVars, reapVars, stopVars
<1>1. ASSUME NEW t \in Task, put(t) \/ put_throws(t) PROVE JoinInv'
  BY <1>1 DEF put, put_throws, add_worker
<1>2. CASE put_notify
  BY <1>2 DEF put_notify, Waiting
<1>3. CASE cancel \/ stop_notify
  BY <1>3 DEF cancel, stop_notify, wake_all
<1>4. ASSUME NEW w \in Worker, worker_fn(w) PROVE JoinInv'
  <2>1. CASE worker_reap(w)
    <3>1. PICK i \in 1 .. Len(m_dead_workers) :
            /\ reaping' = [reaping EXCEPT ![w] = m_dead_workers[i]]
            /\ Len(m_dead_workers') = Len(m_dead_workers) - 1
            /\ \A j \in 1 .. Len(m_dead_workers') :
                 \E k \in 1 .. Len(m_dead_workers) :
                    /\ k # i /\ k = IF j < i THEN j ELSE j + 1
                    /\ m_dead_workers'[j] = m_dead_workers[k]
      BY <2>1, ReapTakes
    <3> QED
      BY <2>1, <3>1 DEF worker_reap
  <2>2. CASE worker_join_dead(w)
    BY <2>2 DEF worker_join_dead
  <2>3. CASE worker_wait(w)
    BY <2>3 DEF worker_wait, AtWait
  <2>4. CASE worker_return(w)
    BY <2>4 DEF worker_return, AtWait
  <2>5. CASE worker_take(w)
    BY <2>5 DEF worker_take, AtWait
  <2>6. CASE worker_finish(w)
    <3>1. CASE UNCHANGED m_dead_workers
      BY <2>6, <3>1 DEF worker_finish
    <3>2. CASE m_dead_workers' = Append(m_dead_workers, w)
      <4>1. /\ Len(m_dead_workers') = Len(m_dead_workers) + 1
            /\ \A i \in 1 .. Len(m_dead_workers') :
                 m_dead_workers'[i] = IF i <= Len(m_dead_workers) THEN m_dead_workers[i] ELSE w
        BY <3>2
      <4> QED
        BY <2>6, <3>2, <4>1 DEF worker_finish, WorkerInv, In, Live
    <3> QED
      BY <2>6, <3>1, <3>2 DEF worker_finish
  <2> HIDE DEF JoinInv
  <2> QED
    BY <1>4, <2>1, <2>2, <2>3, <2>4, <2>5, <2>6 DEF worker_fn
<1>5. CASE stop_enter
  BY <1>5 DEF stop_enter
<1>6. CASE stop_return
  BY <1>6 DEF stop_return
<1>7. ASSUME NEW w \in Worker, stop_join(w) PROVE JoinInv'
  BY <1>7 DEF stop_join
<1>8. CASE UNCHANGED vars
  BY <1>8 DEF vars
<1> HIDE DEF JoinInv
<1> QED
  BY <1>1, <1>2, <1>3, <1>4, <1>5, <1>6, <1>7, <1>8 DEF Next, stop, ended

\* A task has one place at a time, and moves on from the queue to its end.
LEMMA TaskInvStep == TypeOK /\ TaskInv /\ [Next]_vars => TaskInv'
<1> SUFFICES ASSUME TypeOK, TaskInv, [Next]_vars PROVE TaskInv'
  OBVIOUS
<1> USE ExecutorAssumption
    DEF TypeOK, TaskInv, queueVars, flagVars, workerVars, reapVars, stopVars
<1>1. ASSUME NEW t \in Task, put(t) \/ put_throws(t) PROVE TaskInv'
  <2>1. \A v \in Worker : wpc'[v] = "run" => wpc[v] = "run"
    BY <1>1 DEF put, put_throws, add_worker
  <2>2. t \notin submitted /\ submitted' = submitted \cup {t} /\ UNCHANGED <<work, finished>>
    BY <1>1 DEF put, put_throws, add_worker
  <2>3. CASE UNCHANGED m_queue
    BY <2>1, <2>2, <2>3
  <2>4. CASE m_queue' = Append(m_queue, t)
    <3>1. Len(m_queue) \in Nat /\ Len(m_queue') = Len(m_queue) + 1
      BY <2>4
    <3>2. \A i \in 1 .. Len(m_queue) : m_queue'[i] = m_queue[i]
      BY <2>4
    <3>3. m_queue'[Len(m_queue) + 1] = t
      BY <2>4
    <3>4. \A i \in 1 .. Len(m_queue') : i \in 1 .. Len(m_queue) \/ i = Len(m_queue) + 1
      BY <3>1
    <3>5. \A i \in 1 .. Len(m_queue) : m_queue[i] # t /\ m_queue[i] \in submitted' \ finished'
      BY <2>2
    <3>6. t \in submitted' \ finished'
      BY <2>2
    <3>7. ASSUME NEW i \in 1 .. Len(m_queue'), NEW j \in 1 .. Len(m_queue'), m_queue'[i] = m_queue'[j]
          PROVE  i = j
      BY <3>2, <3>3, <3>4, <3>5, <3>7
    <3>8. ASSUME NEW v \in Worker, wpc'[v] = "run", NEW i \in 1 .. Len(m_queue')
          PROVE  m_queue'[i] # work'[v]
      BY <2>1, <2>2, <3>2, <3>3, <3>4, <3>8
    <3> QED
      BY <2>1, <2>2, <3>2, <3>3, <3>4, <3>5, <3>6, <3>7, <3>8
  <2> QED
    BY <1>1, <2>3, <2>4 DEF put, put_throws
<1>2. CASE put_notify
  BY <1>2 DEF put_notify, Waiting
<1>3. CASE cancel \/ stop_notify
  <2>1. UNCHANGED <<m_queue, submitted, finished, work>>
    BY <1>3 DEF cancel, stop_notify
  <2>2. \A v \in Worker : wpc'[v] = "run" <=> wpc[v] = "run"
    BY <1>3, WakeAll DEF cancel, stop_notify
  <2> QED
    BY <2>1, <2>2
<1>4. ASSUME NEW w \in Worker, worker_fn(w) PROVE TaskInv'
  <2>1. CASE worker_reap(w)
    BY <2>1 DEF worker_reap, Reapable
  <2>2. CASE worker_join_dead(w)
    BY <2>2 DEF worker_join_dead
  <2>3. CASE worker_wait(w)
    BY <2>3 DEF worker_wait, AtWait
  <2>4. CASE worker_return(w)
    BY <2>4 DEF worker_return, AtWait
  <2>5. CASE worker_take(w)
    <3>1. /\ Len(m_queue) > 0 /\ m_queue' = Tail(m_queue) /\ Len(m_queue') = Len(m_queue) - 1
          /\ \A i \in 1 .. Len(m_queue') : m_queue'[i] = m_queue[i + 1]
          /\ Head(m_queue) = m_queue[1]
      BY <2>5 DEF worker_take
    <3> QED
      BY <2>5, <3>1 DEF worker_take, AtWait
  <2>6. CASE worker_finish(w)
    BY <2>6 DEF worker_finish
  <2> HIDE DEF TaskInv
  <2> QED
    BY <1>4, <2>1, <2>2, <2>3, <2>4, <2>5, <2>6 DEF worker_fn
<1>5. CASE stop_enter
  BY <1>5 DEF stop_enter
<1>6. CASE stop_return
  BY <1>6 DEF stop_return
<1>7. ASSUME NEW w \in Worker, stop_join(w) PROVE TaskInv'
  BY <1>7 DEF stop_join
<1>8. CASE UNCHANGED vars
  BY <1>8 DEF vars
<1> HIDE DEF TaskInv
<1> QED
  BY <1>1, <1>2, <1>3, <1>4, <1>5, <1>6, <1>7, <1>8 DEF Next, stop, ended

\* Live workers are among the threads stop waits for.
LEMMA StopInvStep == TypeOK /\ WorkerInv /\ JoinInv /\ StopInv /\ [Next]_vars => StopInv'
<1> SUFFICES ASSUME TypeOK, WorkerInv, JoinInv, StopInv, [Next]_vars PROVE StopInv'
  OBVIOUS
<1> USE ExecutorAssumption
    DEF TypeOK, WorkerInv, JoinInv, StopInv, In, Live, queueVars, flagVars, workerVars, reapVars, stopVars
<1>1. ASSUME NEW t \in Task, put(t) \/ put_throws(t) PROVE StopInv'
  BY <1>1 DEF put, put_throws, add_worker
<1>2. CASE put_notify
  BY <1>2 DEF put_notify, Waiting
<1>3. CASE cancel \/ stop_notify
  BY <1>3 DEF cancel, stop_notify, wake_all
<1>4. ASSUME NEW w \in Worker, worker_fn(w) PROVE StopInv'
  <2>1. CASE worker_reap(w)
    BY <2>1 DEF worker_reap, Reapable
  <2>2. CASE worker_join_dead(w)
    BY <2>2 DEF worker_join_dead
  <2>3. CASE worker_wait(w)
    BY <2>3 DEF worker_wait, AtWait
  <2>4. CASE worker_return(w)
    BY <2>4 DEF worker_return, AtWait
  <2>5. CASE worker_take(w)
    BY <2>5 DEF worker_take, AtWait
  <2>6. CASE worker_finish(w)
    BY <2>6 DEF worker_finish
  <2> HIDE DEF StopInv
  <2> QED
    BY <1>4, <2>1, <2>2, <2>3, <2>4, <2>5, <2>6 DEF worker_fn
<1>5. CASE stop_enter
  BY <1>5 DEF stop_enter
<1>6. CASE stop_return
  BY <1>6 DEF stop_return
<1>7. ASSUME NEW w \in Worker, stop_join(w) PROVE StopInv'
  BY <1>7 DEF stop_join
<1>8. CASE UNCHANGED vars
  BY <1>8 DEF vars
<1> HIDE DEF StopInv
<1> QED
  BY <1>1, <1>2, <1>3, <1>4, <1>5, <1>6, <1>7, <1>8 DEF Next, stop, ended

\* On-demand workers among the entries of m_workers leave room for the fixed.
LEMMA OnDemandFit ==
  ASSUME NEW M \in SUBSET Worker, Fixed \subseteq M, Cardinality(M) <= MaxThreads,
         NEW P \in SUBSET (M \ Fixed)
  PROVE  Cardinality(P) <= MaxThreads - Cardinality(Fixed)
<1>1. IsFiniteSet(M) /\ Cardinality(M) \in Nat
  BY WorkersFinite
<1>2. IsFiniteSet(M \ Fixed) /\ Cardinality(M \ Fixed) = Cardinality(M) - Cardinality(M \cap Fixed)
  BY <1>1, FS_Difference
<1>3. M \cap Fixed = Fixed
  OBVIOUS
<1>4. Cardinality(P) <= Cardinality(M \ Fixed) /\ IsFiniteSet(P)
  BY <1>2, FS_Subset
<1>5. Cardinality(Fixed) \in Nat /\ Cardinality(P) \in Nat
  BY <1>4, FS_CardinalityType, WorkersFinite, ExecutorAssumption
<1> QED
  BY <1>1, <1>2, <1>3, <1>4, <1>5, ExecutorAssumption

\* How one worker's step changes the counts.
LEMMA MoveCounts ==
  ASSUME TypeOK, TypeOK', NEW w \in Worker, NEW b, wpc' = [wpc EXCEPT ![w] = b],
         m_workers' \ {w} = m_workers \ {w}
  PROVE  /\ Cardinality(m_workers') = Cardinality(m_workers)
                + (IF w \in m_workers' THEN 1 ELSE 0) - (IF w \in m_workers THEN 1 ELSE 0)
         /\ Cardinality(In({"run"})') = Cardinality(In({"run"}))
                + (IF b = "run" THEN 1 ELSE 0) - (IF wpc[w] = "run" THEN 1 ELSE 0)
         /\ Cardinality(Past') = Cardinality(Past)
                + (IF w \in Past' THEN 1 ELSE 0) - (IF w \in Past THEN 1 ELSE 0)
         /\ Cardinality(Free') = Cardinality(Free)
                + (IF w \in Free' THEN 1 ELSE 0) - (IF w \in Free THEN 1 ELSE 0)
<1>1. /\ m_workers \in SUBSET Worker /\ m_workers' \in SUBSET Worker
      /\ In({"run"}) \in SUBSET Worker /\ In({"run"})' \in SUBSET Worker
      /\ Past \in SUBSET Worker /\ Past' \in SUBSET Worker
      /\ Free \in SUBSET Worker /\ Free' \in SUBSET Worker
  BY DEF TypeOK, In, Past, Free
<1>2. /\ In({"run"})' \ {w} = In({"run"}) \ {w}
      /\ w \in In({"run"})' <=> b = "run"
      /\ w \in In({"run"}) <=> wpc[w] = "run"
  BY DEF TypeOK, In
<1>3. Past' \ {w} = Past \ {w}
  BY DEF TypeOK, Past
<1>4. Free' \ {w} = Free \ {w}
  BY DEF TypeOK, Free, In
<1>5. Cardinality(m_workers') = Cardinality(m_workers)
                + (IF w \in m_workers' THEN 1 ELSE 0) - (IF w \in m_workers THEN 1 ELSE 0)
  BY <1>1, WorkersFinite, OneApart
<1>6. Cardinality(In({"run"})') = Cardinality(In({"run"}))
                + (IF b = "run" THEN 1 ELSE 0) - (IF wpc[w] = "run" THEN 1 ELSE 0)
  BY <1>1, <1>2, WorkersFinite, OneApart
<1>7. Cardinality(Past') = Cardinality(Past)
                + (IF w \in Past' THEN 1 ELSE 0) - (IF w \in Past THEN 1 ELSE 0)
  BY <1>1, <1>3, WorkersFinite, OneApart
<1>8. Cardinality(Free') = Cardinality(Free)
                + (IF w \in Free' THEN 1 ELSE 0) - (IF w \in Free THEN 1 ELSE 0)
  BY <1>1, <1>4, WorkersFinite, OneApart
<1> QED
  BY <1>5, <1>6, <1>7, <1>8

\* The counts are numbers.
LEMMA CountTypes ==
  ASSUME TypeOK
  PROVE  /\ Cardinality(m_workers) \in Nat /\ Cardinality(In({"run"})) \in Nat
         /\ Cardinality(Past) \in Nat /\ Cardinality(Free) \in Nat
         /\ Cardinality(Fixed) \in Nat /\ Len(m_dead_workers) \in Nat /\ Len(m_queue) \in Nat
<1>1. /\ m_workers \in SUBSET Worker /\ In({"run"}) \in SUBSET Worker
      /\ Past \in SUBSET Worker /\ Free \in SUBSET Worker /\ Fixed \in SUBSET Worker
  BY ExecutorAssumption DEF TypeOK, In, Past, Free
<1>2. Len(m_dead_workers) \in Nat /\ Len(m_queue) \in Nat
  BY DEF TypeOK
<1> QED
  BY <1>1, <1>2, WorkersFinite

\* A worker passes the reaping loop only when nobody is dead.
LEMMA PassesWhenNoneDead ==
  ASSUME TypeOK, DeadInv, NEW w \in Worker, wpc[w] = "top", Reapable(w) = {}
  PROVE  Len(m_dead_workers) = 0
<1>1. \A i \in 1 .. Len(m_dead_workers) : m_dead_workers[i] # w
  BY DEF DeadInv
<1>2. 1 \notin 1 .. Len(m_dead_workers)
  BY <1>1 DEF Reapable
<1>3. Len(m_dead_workers) \in Nat
  BY DEF TypeOK
<1> QED
  BY <1>2, <1>3

\* When one worker's step keeps the books of m_workers.
LEMMA WorkerMove ==
  ASSUME TypeOK, TypeOK', WorkerInv, NEW w \in Worker, NEW b, wpc' = [wpc EXCEPT ![w] = b],
         m_workers' \ {w} = m_workers \ {w}, b # "absent",
         w \in m_workers' \/ (b \notin Live /\ w \notin Fixed),
         Cardinality(m_workers') <= MaxThreads,
         m_busy_count' = m_busy_count + (IF b = "run" THEN 1 ELSE 0) - (IF wpc[w] = "run" THEN 1 ELSE 0),
         Len(m_dead_workers') + Cardinality(Past') <= MaxThreads - Cardinality(Fixed)
  PROVE  WorkerInv'
<1>1. Fixed \subseteq m_workers' /\ \A v \in m_workers' : wpc'[v] # "absent"
  BY DEF WorkerInv, TypeOK
<1>2. In(Live)' \subseteq m_workers'
  BY DEF WorkerInv, TypeOK, In
<1>3. m_busy_count' = Cardinality(In({"run"})')
  BY MoveCounts DEF WorkerInv
<1> QED
  BY <1>1, <1>2, <1>3 DEF WorkerInv

\* The entries of m_workers and their counts.
LEMMA WorkerInvStep == TypeOK /\ TypeOK' /\ WorkerInv /\ DeadInv /\ [Next]_vars => WorkerInv'
<1> SUFFICES ASSUME TypeOK, TypeOK', WorkerInv, DeadInv, [Next]_vars PROVE WorkerInv'
  OBVIOUS
<1> USE ExecutorAssumption DEF queueVars, flagVars, workerVars, reapVars, stopVars
<1>0. /\ Cardinality(m_workers) \in Nat /\ Cardinality(In({"run"})) \in Nat
      /\ Cardinality(Past) \in Nat /\ Cardinality(Fixed) \in Nat /\ Len(m_dead_workers) \in Nat
  BY CountTypes
<1>a. /\ Cardinality(m_workers) <= MaxThreads
      /\ Len(m_dead_workers) + Cardinality(Past) <= MaxThreads - Cardinality(Fixed)
  BY DEF WorkerInv
<1>b. ASSUME UNCHANGED <<m_workers, m_busy_count, wpc, m_dead_workers>> PROVE WorkerInv'
  BY <1>b DEF WorkerInv, In, Past
\* A worker that goes from one place to another in the sets counted here.
<1>c. ASSUME NEW w \in Worker, NEW a, NEW b, wpc[w] = a, a \in Live, wpc' = [wpc EXCEPT ![w] = b],
             b # "absent", UNCHANGED <<m_workers, m_dead_workers>>,
             m_busy_count' = m_busy_count + (IF b = "run" THEN 1 ELSE 0) - (IF a = "run" THEN 1 ELSE 0),
             b \in {"wait", "woken", "run"} => a \in {"wait", "woken", "run"}
      PROVE  WorkerInv'
  <2>1. w \in m_workers
    BY <1>c DEF WorkerInv, In
  <2>2. Cardinality(Past') = Cardinality(Past)
                + (IF w \in Past' THEN 1 ELSE 0) - (IF w \in Past THEN 1 ELSE 0)
    BY <1>c, MoveCounts
  <2>3. w \in Past' => w \in Past
    BY <1>c DEF Past, TypeOK
  <2>4. Cardinality(Past') <= Cardinality(Past)
    BY <1>0, <2>2, <2>3
  <2>5. Len(m_dead_workers') + Cardinality(Past') <= MaxThreads - Cardinality(Fixed)
    <3>1. Cardinality(Past') \in Int
      BY <1>0, <2>2
    <3> QED
      BY <1>0, <1>a, <1>c, <2>4, <3>1
  <2> QED
    BY <1>a, <1>c, <2>1, <2>5, WorkerMove
\* A worker that passes the reaping loop.
<1>d. ASSUME NEW w \in Worker, NEW b \in {"wait", "run"}, wpc[w] = "top", Reapable(w) = {},
             wpc' = [wpc EXCEPT ![w] = b], UNCHANGED <<m_workers, m_dead_workers>>,
             m_busy_count' = m_busy_count + (IF b = "run" THEN 1 ELSE 0)
      PROVE  WorkerInv'
  <2>1. w \in m_workers
    BY <1>d DEF WorkerInv, In, Live
  <2>2. Len(m_dead_workers') = 0
    BY <1>d, PassesWhenNoneDead
  <2>3. Past' \in SUBSET (m_workers \ Fixed)
    BY <1>d, <2>1 DEF Past, WorkerInv, In, Live, TypeOK
  <2>4. Cardinality(Past') <= MaxThreads - Cardinality(Fixed)
    BY <1>a, <2>3, OnDemandFit DEF WorkerInv, TypeOK
  <2>5. Len(m_dead_workers') + Cardinality(Past') <= MaxThreads - Cardinality(Fixed)
    <3>1. Cardinality(Past') \in Nat
      BY <2>3, WorkersFinite DEF TypeOK
    <3> QED
      BY <2>2, <2>4, <3>1
  <2>6. m_busy_count' = m_busy_count + (IF b = "run" THEN 1 ELSE 0) - 0
    BY <1>d DEF TypeOK
  <2> QED
    BY <1>a, <1>d, <2>1, <2>5, <2>6, WorkerMove
<1>1. ASSUME NEW t \in Task, put(t) \/ put_throws(t) PROVE WorkerInv'
  <2>1. CASE UNCHANGED workerVars
    BY <1>1, <1>b, <2>1 DEF put, put_throws
  <2>2. ASSUME NEW w \in Worker, NeedsWorker, add_worker(w) PROVE WorkerInv'
    <3>1. w \notin m_workers /\ m_workers' = m_workers \cup {w} /\ wpc' = [wpc EXCEPT ![w] = "top"]
      BY <2>2 DEF add_worker, WorkerInv
    <3>2. Cardinality(m_workers') <= MaxThreads
      <4>1. Cardinality(m_workers') = Cardinality(m_workers) + 1
        BY <3>1, FS_AddElement, WorkersFinite DEF TypeOK
      <4> QED
        BY <1>0, <2>2, <4>1 DEF NeedsWorker
    <3>3. UNCHANGED <<m_busy_count, m_dead_workers>>
      BY <1>1 DEF put, put_throws
    <3>4. Past' = Past
      BY <2>2, <3>1 DEF add_worker, Past, TypeOK
    <3>5. m_busy_count' = m_busy_count + 0 - 0 /\ wpc[w] = "absent"
      BY <2>2, <3>3 DEF add_worker, TypeOK
    <3> QED
      BY <1>a, <3>1, <3>2, <3>3, <3>4, <3>5, WorkerMove
  <2> QED
    BY <1>1, <2>1, <2>2 DEF put, put_throws
<1>2. CASE put_notify
  <2>1. CASE UNCHANGED wpc
    BY <1>2, <1>b, <2>1 DEF put_notify
  <2>2. ASSUME NEW w \in Worker, wpc[w] = "wait", wpc' = [wpc EXCEPT ![w] = "woken"] PROVE WorkerInv'
    <3>1. UNCHANGED <<m_workers, m_dead_workers>> /\ m_busy_count' = m_busy_count + 0 - 0
      BY <1>2 DEF put_notify, TypeOK
    <3> QED
      BY <1>c, <2>2, <3>1 DEF Live
  <2> QED
    BY <1>2, <2>1, <2>2 DEF put_notify, Waiting
<1>3. CASE cancel \/ stop_notify
  <2>1. UNCHANGED <<m_workers, m_busy_count, m_dead_workers>>
    BY <1>3 DEF cancel, stop_notify
  <2>2. \A v \in Worker : wpc'[v] = IF wpc[v] = "wait" THEN "woken" ELSE wpc[v]
    BY <1>3, WakeAll DEF cancel, stop_notify
  <2>3. Past' = Past /\ In({"run"})' = In({"run"}) /\ In(Live)' = In(Live)
    BY <2>2 DEF Past, In, Live
  <2>4. \A v \in m_workers' : wpc'[v] # "absent"
    BY <2>1, <2>2 DEF WorkerInv, TypeOK
  <2> QED
    BY <2>1, <2>3, <2>4 DEF WorkerInv
<1>4. ASSUME NEW w \in Worker, worker_fn(w) PROVE WorkerInv'
  <2>0. m_busy_count' = m_busy_count => m_busy_count' = m_busy_count + 0 - 0
    BY DEF TypeOK
  <2>1. CASE worker_reap(w)
    <3>1. wpc[w] = "top" /\ wpc' = [wpc EXCEPT ![w] = "reap"] /\ UNCHANGED <<m_workers, m_busy_count>>
      BY <2>1 DEF worker_reap
    <3>2. Len(m_dead_workers') = Len(m_dead_workers) - 1
      BY <2>1, ReapTakes
    <3>3. Past' = Past
      BY <3>1 DEF Past, TypeOK
    <3>4. Len(m_dead_workers') + Cardinality(Past') <= MaxThreads - Cardinality(Fixed)
      BY <1>0, <1>a, <3>2, <3>3
    <3>5. w \in m_workers
      BY <3>1 DEF WorkerInv, In, Live
    <3> QED
      BY <1>a, <2>0, <3>1, <3>4, <3>5, WorkerMove
  <2>2. CASE worker_join_dead(w)
    <3>1. CASE reaping[w] \in joinable
      BY <1>c, <2>0, <2>2, <3>1 DEF worker_join_dead, Live
    <3>2. CASE reaping[w] \notin joinable
      BY <1>b, <2>2, <3>2 DEF worker_join_dead
    <3> QED
      BY <3>1, <3>2
  <2>3. CASE worker_wait(w)
    <3>1. CASE wpc[w] = "woken"
      BY <1>c, <2>0, <2>3, <3>1 DEF worker_wait, Live
    <3>2. CASE wpc[w] = "top" /\ Reapable(w) = {}
      <4>1. m_busy_count' = m_busy_count + 0
        BY <2>3 DEF worker_wait, TypeOK
      <4> QED
        BY <1>d, <2>3, <3>2, <4>1 DEF worker_wait
    <3> QED
      BY <2>3, <3>1, <3>2 DEF worker_wait, AtWait
  <2>4. CASE worker_return(w)
    BY <1>c, <2>0, <2>4 DEF worker_return, AtWait, Live
  <2>5. CASE worker_take(w)
    <3>1. CASE wpc[w] = "woken"
      <4>1. m_busy_count' = m_busy_count + 1 - 0
        BY <2>5 DEF worker_take, TypeOK
      <4> QED
        BY <1>c, <2>5, <3>1, <4>1 DEF worker_take, Live
    <3>2. CASE wpc[w] = "top" /\ Reapable(w) = {}
      BY <1>d, <2>5, <3>2 DEF worker_take
    <3> QED
      BY <2>5, <3>1, <3>2 DEF worker_take, AtWait
  <2>6. CASE worker_finish(w)
    <3>1. wpc[w] = "run" /\ m_busy_count' = m_busy_count + 0 - 1
      BY <2>6 DEF worker_finish, TypeOK
    <3>2. CASE UNCHANGED <<m_workers, m_dead_workers>> /\ wpc' = [wpc EXCEPT ![w] = "top"]
      BY <1>c, <3>1, <3>2 DEF Live
    <3>3. CASE /\ w \notin Fixed
               /\ m_workers' = m_workers \ {w}
               /\ m_dead_workers' = Append(m_dead_workers, w)
               /\ wpc' = [wpc EXCEPT ![w] = "exited"]
      <4>1. Cardinality(Past') = Cardinality(Past) + 0 - 1
        <5>1. w \in Past /\ w \notin Past'
          BY <3>1, <3>3 DEF Past, TypeOK
        <5> QED
          BY <3>3, <5>1, MoveCounts
      <4>2. Len(m_dead_workers') = Len(m_dead_workers) + 1
        BY <3>3 DEF TypeOK
      <4>3. Len(m_dead_workers') + Cardinality(Past') <= MaxThreads - Cardinality(Fixed)
        BY <1>0, <1>a, <4>1, <4>2
      <4>4. Cardinality(m_workers') <= MaxThreads
        <5>1. Cardinality(m_workers') <= Cardinality(m_workers) /\ Cardinality(m_workers') \in Nat
          BY <3>3, FS_Subset, WorkersFinite DEF TypeOK
        <5> QED
          BY <1>0, <1>a, <5>1
      <4> QED
        BY <3>1, <3>3, <4>3, <4>4, WorkerMove DEF Live
    <3> QED
      BY <2>6, <3>2, <3>3 DEF worker_finish
  <2> QED
    BY <1>4, <2>1, <2>2, <2>3, <2>4, <2>5, <2>6 DEF worker_fn
<1>5. CASE stop_enter
  BY <1>b, <1>5 DEF stop_enter
<1>6. CASE stop_return
  BY <1>b, <1>6 DEF stop_return
<1>7. ASSUME NEW w \in Worker, stop_join(w) PROVE WorkerInv'
  BY <1>b, <1>7 DEF stop_join
<1>8. CASE UNCHANGED vars
  BY <1>b, <1>8 DEF vars
<1> QED
  BY <1>1, <1>2, <1>3, <1>4, <1>5, <1>6, <1>7, <1>8 DEF Next, stop, ended

\* While nobody has returned from the wait, a worker that is not free is busy.
LEMMA FreeOrBusy ==
  ASSUME TypeOK, WorkerInv, StopInv, ~m_stop, ~m_cancel
  PROVE  Cardinality(m_workers) = Cardinality(Free) + m_busy_count
<1>1. m_workers = Free \cup In({"run"}) /\ Free \cap In({"run"}) = {}
  BY DEF TypeOK, WorkerInv, StopInv, Free, In, Live
<1>2. Free \in SUBSET Worker /\ In({"run"}) \in SUBSET Worker
  BY DEF TypeOK, Free, In
<1>3. IsFiniteSet(Free) /\ IsFiniteSet(In({"run"}))
  BY <1>2, WorkersFinite
<1>4. Cardinality(m_workers) = Cardinality(Free) + Cardinality(In({"run"})) - Cardinality({})
  BY <1>1, <1>3, FS_Union
<1> QED
  BY <1>4, CountTypes, FS_EmptySet DEF WorkerInv

\* A queued task has a free worker, or there can be no more workers.
LEMMA QueueCoveredStep ==
  TypeOK /\ TypeOK' /\ WorkerInv /\ StopInv /\ QueueCovered /\ [Next]_vars => QueueCovered'
<1> SUFFICES ASSUME TypeOK, TypeOK', WorkerInv, StopInv, QueueCovered, [Next]_vars,
                    faults' = 0, ~m_cancel'
             PROVE  Len(m_queue') <= Cardinality(Free') \/ Cardinality(m_workers') = MaxThreads
  BY DEF QueueCovered, Free
<1> USE ExecutorAssumption DEF queueVars, flagVars, workerVars, reapVars, stopVars
<1> DEFINE Covered == Len(m_queue) <= Cardinality(Free) \/ Cardinality(m_workers) = MaxThreads
<1>0. /\ Cardinality(m_workers) \in Nat /\ Cardinality(Free) \in Nat /\ Len(m_queue) \in Nat
      /\ Cardinality(m_workers) <= MaxThreads /\ m_busy_count \in Nat
  BY CountTypes DEF WorkerInv, TypeOK
<1>a. ASSUME faults = 0, ~m_cancel PROVE Covered
  BY <1>a DEF QueueCovered, Free
<1> SUFFICES Covered'
  OBVIOUS
<1> HIDE DEF Covered
<1>b. ASSUME Covered, UNCHANGED <<m_workers, wpc, m_queue>> PROVE Covered'
  BY <1>b DEF Covered, Free, In
\* A worker goes on in the loop.
<1>c. ASSUME Covered, NEW w \in Worker, NEW b \in {"top", "reap", "wait", "woken"},
             wpc' = [wpc EXCEPT ![w] = b], UNCHANGED <<m_workers, m_queue>>
      PROVE  Covered'
  <2>1. Cardinality(Free') = Cardinality(Free)
                + (IF w \in Free' THEN 1 ELSE 0) - (IF w \in Free THEN 1 ELSE 0)
    BY <1>c, MoveCounts
  <2>2. w \in Free => w \in Free'
    BY <1>c DEF Free, In, TypeOK
  <2>3. Cardinality(Free') \in Nat /\ Cardinality(Free) <= Cardinality(Free')
    BY <1>0, <2>1, <2>2
  <2> QED
    BY <1>0, <1>c, <2>3 DEF Covered
<1>1. ASSUME NEW t \in Task, put(t) PROVE Covered'
  <2>0. Covered
    BY <1>1, <1>a DEF put
  <2>1. CASE m_stop
    BY <1>1, <1>b, <2>0, <2>1 DEF put
  <2>2. CASE ~m_stop /\ ~NeedsWorker
    <3>1. UNCHANGED <<m_workers, wpc>> /\ m_queue' = Append(m_queue, t) /\ ~m_cancel
      BY <1>1, <2>2 DEF put
    <3>2. Len(m_queue') = Len(m_queue) + 1
      BY <3>1 DEF TypeOK
    <3>3. Cardinality(m_workers) = Cardinality(Free) + m_busy_count
      BY <2>2, <3>1, FreeOrBusy
    <3>4. Len(m_queue) + 1 <= Cardinality(Free) \/ Cardinality(m_workers) = MaxThreads
      BY <1>0, <2>2, <3>3 DEF NeedsWorker, free_workers
    <3>5. Free' = Free
      BY <3>1 DEF Free, In
    <3> QED
      BY <3>1, <3>2, <3>4, <3>5 DEF Covered
  <2>3. CASE ~m_stop /\ NeedsWorker
    <3>1. PICK w \in Worker : add_worker(w)
      BY <1>1, <2>3 DEF put
    <3>2. m_queue' = Append(m_queue, t)
      BY <1>1, <2>3 DEF put
    <3>3. Len(m_queue') = Len(m_queue) + 1
      BY <3>2 DEF TypeOK
    <3>4. w \notin Free /\ w \in Free' /\ m_workers' \ {w} = m_workers \ {w}
      BY <3>1 DEF add_worker, Free, In, TypeOK
    <3>5. wpc' = [wpc EXCEPT ![w] = "top"]
      BY <3>1 DEF add_worker
    <3>6. Cardinality(Free') = Cardinality(Free) + 1 - 0
      BY <3>4, <3>5, MoveCounts
    <3>7. Len(m_queue) <= Cardinality(Free)
      BY <1>0, <2>0, <2>3 DEF Covered, NeedsWorker
    <3> QED
      BY <1>0, <3>3, <3>6, <3>7 DEF Covered
  <2> QED
    BY <2>1, <2>2, <2>3
<1>2. CASE put_notify
  BY <1>2, <1>a, <1>b, <1>c DEF put_notify, Waiting
<1>3. CASE stop_notify
  <2>1. UNCHANGED <<m_workers, m_queue>> /\ Covered
    BY <1>3, <1>a DEF stop_notify
  <2>2. Free' = Free
    BY <1>3, <2>1, WakeAll DEF stop_notify, Free, In
  <2> QED
    BY <2>1, <2>2 DEF Covered
<1>4. ASSUME NEW w \in Worker, worker_fn(w) PROVE Covered'
  <2>0. Covered
    BY <1>4, <1>a DEF worker_fn, worker_reap, worker_join_dead, worker_wait, worker_return, worker_take, worker_finish
  <2>1. CASE worker_reap(w) \/ worker_wait(w)
    BY <1>c, <2>0, <2>1 DEF worker_reap, worker_wait
  <2>2. CASE worker_join_dead(w)
    BY <1>b, <1>c, <2>0, <2>2 DEF worker_join_dead
  <2>3. CASE worker_return(w)
    <3>1. m_queue' = <<>>
      BY <2>3 DEF worker_return
    <3>2. Free' \in SUBSET Worker
      BY DEF Free, In
    <3>3. Cardinality(Free') \in Nat
      BY <3>2, WorkersFinite
    <3> QED
      BY <3>1, <3>3 DEF Covered
  <2>4. CASE worker_take(w)
    <3>1. m_queue' = Tail(m_queue) /\ m_queue # <<>> /\ wpc' = [wpc EXCEPT ![w] = "run"] /\ UNCHANGED m_workers
      BY <2>4 DEF worker_take
    <3>2. Len(m_queue') = Len(m_queue) - 1
      BY <3>1 DEF TypeOK
    <3>3. Cardinality(Free') = Cardinality(Free)
                + (IF w \in Free' THEN 1 ELSE 0) - (IF w \in Free THEN 1 ELSE 0)
      BY <3>1, MoveCounts
    <3>4. Cardinality(Free') >= Cardinality(Free) - 1 /\ Cardinality(Free') \in Int
      BY <1>0, <3>3
    <3> QED
      BY <1>0, <2>0, <3>1, <3>2, <3>4 DEF Covered
  <2>5. CASE worker_finish(w)
    <3>1. CASE UNCHANGED <<m_workers, m_dead_workers>> /\ wpc' = [wpc EXCEPT ![w] = "top"]
      BY <1>c, <2>0, <2>5, <3>1 DEF worker_finish
    <3>2. CASE m_queue = <<>>
      <4>1. m_queue' = <<>>
        BY <2>5, <3>2 DEF worker_finish
      <4>2. Free' \in SUBSET Worker
        BY DEF Free, In
      <4>3. Cardinality(Free') \in Nat
        BY <4>2, WorkersFinite
      <4> QED
        BY <4>1, <4>3 DEF Covered
    <3> QED
      BY <2>5, <3>1, <3>2 DEF worker_finish
  <2> QED
    BY <1>4, <2>1, <2>2, <2>3, <2>4, <2>5 DEF worker_fn
<1>5. CASE stop_enter \/ stop_return
  BY <1>5, <1>a, <1>b DEF stop_enter, stop_return
<1>6. ASSUME NEW w \in Worker, stop_join(w) PROVE Covered'
  BY <1>6, <1>a, <1>b DEF stop_join
<1>7. CASE UNCHANGED vars
  BY <1>7, <1>a, <1>b DEF vars
<1>8. ASSUME NEW t \in Task, put_throws(t) PROVE Covered'
  BY <1>8 DEF put_throws, TypeOK
<1>9. CASE cancel
  BY <1>9 DEF cancel
<1> QED
  BY <1>1, <1>2, <1>3, <1>4, <1>5, <1>6, <1>7, <1>8, <1>9 DEF Next, stop, ended

-----------------------------------------------------------------------------
(* The invariant, put together.                                            *)

\* The constructor establishes it.
LEMMA ExecInvInit == Init => ExecInv
<1> SUFFICES ASSUME Init PROVE ExecInv
  OBVIOUS
<1> USE ExecutorAssumption DEF Init
<1>1. TypeOK
  <2>1. stops \in 0 .. MaxStops /\ faults \in 0 .. MaxFaults /\ m_busy_count \in Nat /\ notifies \in Nat
    OBVIOUS
  <2>2. m_queue \in Seq(Task) /\ m_dead_workers \in Seq(Worker)
    OBVIOUS
  <2> QED
    BY <2>1, <2>2 DEF TypeOK
<1>2. WorkerInv
  <2>1. In({"run"}) = {} /\ Past = {} /\ In(Live) = Fixed
    BY DEF In, Past, Live
  <2>2. Cardinality({}) = 0 /\ Cardinality(Fixed) \in Nat
    BY FS_EmptySet, WorkersFinite
  <2>3. Len(m_dead_workers) = 0 /\ \A w \in m_workers : wpc[w] # "absent"
    OBVIOUS
  <2>4. m_busy_count = Cardinality(In({"run"}))
    BY <2>1, <2>2
  <2>5. Len(m_dead_workers) + Cardinality(Past) <= MaxThreads - Cardinality(Fixed)
    BY <2>1, <2>2, <2>3
  <2> QED
    BY <2>1, <2>3, <2>4, <2>5 DEF WorkerInv
<1>3. DeadInv /\ JoinInv /\ TaskInv
  BY DEF DeadInv, JoinInv, TaskInv
<1>4. StopInv
  BY DEF StopInv, In, Live
<1>5. QueueCovered
  <2>1. Free \in SUBSET Worker
    BY DEF Free, In
  <2>2. Cardinality(Free) \in Nat /\ Len(m_queue) = 0
    BY <2>1, WorkersFinite
  <2> QED
    BY <2>2 DEF QueueCovered, Free
<1> QED
  BY <1>1, <1>2, <1>3, <1>4, <1>5 DEF ExecInv

\* Every step keeps it.
LEMMA ExecInvStep == ExecInv /\ [Next]_vars => ExecInv'
<1> SUFFICES ASSUME ExecInv, [Next]_vars PROVE ExecInv'
  OBVIOUS
<1>1. TypeOK'
  BY ExecTypeStep DEF ExecInv
<1>2. DeadInv' /\ JoinInv' /\ TaskInv' /\ StopInv'
  BY DeadInvStep, JoinInvStep, TaskInvStep, StopInvStep DEF ExecInv
<1>3. WorkerInv' /\ QueueCovered'
  BY <1>1, WorkerInvStep, QueueCoveredStep DEF ExecInv
<1> QED
  BY <1>1, <1>2, <1>3 DEF ExecInv

\* The busy workers are entries of m_workers.
LEMMA BusyAtMostWorkers ==
  ASSUME ExecInv
  PROVE  m_busy_count <= Cardinality(m_workers)
<1>1. In({"run"}) \in SUBSET m_workers /\ m_workers \in SUBSET Worker
  BY DEF ExecInv, TypeOK, WorkerInv, In, Live
<1>2. Cardinality(In({"run"})) <= Cardinality(m_workers)
  BY <1>1, FS_Subset, WorkersFinite
<1> QED
  BY <1>2 DEF ExecInv, WorkerInv

-----------------------------------------------------------------------------
(* Theorems.                                                               *)

\* The inductive invariant, for any tasks, workers, limits and calls of stop.
THEOREM ExecInvariant == Spec => []ExecInv
BY ExecInvInit, ExecInvStep, PTL DEF Spec

\* The assertion of put holds, and the vector of dead workers is bounded.
THEOREM ExecBusyWithinWorkers == Spec => []BusyWithinWorkers
<1>1. ExecInv => BusyWithinWorkers
  <2> SUFFICES ASSUME ExecInv PROVE BusyWithinWorkers
    OBVIOUS
  <2>1. Len(m_dead_workers) <= MaxThreads - Cardinality(Fixed)
    BY CountTypes, ExecutorAssumption DEF ExecInv, WorkerInv
  <2> QED
    BY <2>1, BusyAtMostWorkers DEF ExecInv, WorkerInv, BusyWithinWorkers
<1> QED
  BY <1>1, ExecInvariant, PTL

\* No thread joins itself or one that another joins, and no join throws before
\* stop has moved the threads away.
THEOREM ExecNoSelfJoin == Spec => []NoSelfJoin
<1>1. ExecInv => NoSelfJoin
  BY DEF ExecInv, TypeOK, DeadInv, JoinInv, NoSelfJoin, Range, In
<1> QED
  BY <1>1, ExecInvariant, PTL

\* A queued task has a worker about to look at the queue, or all workers exist.
THEOREM ExecQueueCovered == Spec => []QueueCovered
<1>1. ExecInv => QueueCovered
  BY DEF ExecInv
<1> QED
  BY <1>1, ExecInvariant, PTL

\* No task is lost or run twice, and stop leaves neither threads nor tasks.
THEOREM ExecTaskOnce == Spec => []TaskOnce
<1>1. ExecInv => TaskOnce
  <2> SUFFICES ASSUME ExecInv PROVE TaskOnce
    OBVIOUS
  <2> USE DEF ExecInv
  <2>1. \A i, j \in 1 .. Len(m_queue) : m_queue[i] = m_queue[j] => i = j
    BY DEF TaskInv
  <2>2. \A w \in In({"run"}) :
        /\ work[w] \in submitted \ (finished \cup Range(m_queue))
        /\ \A v \in In({"run"}) : work[v] = work[w] => v = w
    BY DEF TypeOK, TaskInv, In, Range
  <2>3. Range(m_queue) \subseteq submitted \ finished
    BY DEF TypeOK, TaskInv, Range
  <2>4. stops > 0 => In({"absent", "exited"}) = Worker
    BY DEF TypeOK, StopInv, In, Live
  <2>5. ASSUME stops > 0, faults = 0, ~m_cancel, MaxThreads > 0 PROVE m_queue = <<>>
    <3>1. CASE \E w \in m_workers : wpc[w] = "exited"
      BY <2>5, <3>1 DEF StopInv
    <3>2. CASE \A w \in m_workers : wpc[w] # "exited"
      <4>1. m_workers = {} /\ Free = {}
        BY <2>5, <3>2 DEF TypeOK, WorkerInv, StopInv, In, Live, Free
      <4>2. Len(m_queue) <= Cardinality({}) \/ Cardinality({}) = MaxThreads
        BY <2>5, <4>1 DEF QueueCovered, Free
      <4>3. Len(m_queue) = 0
        BY <2>5, <4>2, FS_EmptySet, CountTypes, ExecutorAssumption
      <4> QED
        BY <4>3 DEF TypeOK
    <3> QED
      BY <3>1, <3>2
  <2> QED
    BY <2>1, <2>2, <2>3, <2>4, <2>5 DEF TaskOnce
<1> QED
  BY <1>1, ExecInvariant, PTL

-----------------------------------------------------------------------------
(* The executor implements TaskExecutor.                                   *)

\* Every step of the executor is a step of TaskExecutor, or changes none of the
\* numbers.
LEMMA CountStep == ExecInv /\ [Next]_vars => [Counts!CountNext]_(Counts!countVars)
<1> SUFFICES ASSUME ExecInv, [Next]_vars PROVE [Counts!CountNext]_(Counts!countVars)
  OBVIOUS
<1>0. TypeOK /\ TypeOK' /\ WorkerInv
  BY ExecInvStep DEF ExecInv
<1>a. ASSUME UNCHANGED <<m_queue, m_busy_count, m_workers>> PROVE UNCHANGED Counts!countVars
  BY <1>a DEF Counts!countVars
<1>b. /\ Cardinality(m_workers) \in Nat /\ Cardinality(Fixed) \in Nat /\ Len(m_queue) \in Nat
      /\ m_busy_count \in Nat /\ m_busy_count <= Cardinality(m_workers)
      /\ IsFiniteSet(m_workers)
  BY <1>0, CountTypes, BusyAtMostWorkers, WorkersFinite DEF TypeOK
<1> USE DEF queueVars, flagVars, workerVars, reapVars, stopVars
<1>1. ASSUME NEW t \in Task, put(t) PROVE [Counts!CountNext]_(Counts!countVars)
  <2>1. CASE m_stop
    BY <1>1, <1>a, <2>1 DEF put
  <2>2. CASE ~m_stop
    <3>1. Len(m_queue') = Len(m_queue) + 1 /\ UNCHANGED m_busy_count
      BY <1>0, <1>1, <2>2 DEF put, TypeOK
    <3>2. Cardinality(m_workers') = IF NeedsWorker THEN Cardinality(m_workers) + 1 ELSE Cardinality(m_workers)
      BY <1>0, <1>1, <1>b, <2>2, FS_AddElement DEF put, add_worker, WorkerInv
    <3>3. NeedsWorker <=> Counts!Short
      BY DEF NeedsWorker, free_workers, Counts!Short
    <3> QED
      BY <3>1, <3>2, <3>3 DEF Counts!CountNext, Counts!Submit
  <2> QED
    BY <2>1, <2>2
<1>2. ASSUME NEW t \in Task, put_throws(t) PROVE Counts!CountNext
  <2>1. Len(m_queue') = Len(m_queue) + 1 /\ UNCHANGED <<m_busy_count, m_workers>>
    BY <1>0, <1>2 DEF put_throws, TypeOK
  <2>2. Counts!Short
    BY <1>2 DEF put_throws, NeedsWorker, free_workers, Counts!Short
  <2> QED
    BY <2>1, <2>2 DEF Counts!CountNext, Counts!SubmitFails
<1>3. ASSUME NEW w \in Worker, worker_take(w) PROVE Counts!CountNext
  <2>1. /\ Len(m_queue) > 0 /\ Len(m_queue') = Len(m_queue) - 1
        /\ m_busy_count' = m_busy_count + 1 /\ UNCHANGED m_workers
    BY <1>0, <1>3 DEF worker_take, TypeOK
  <2>2. In({"run"}) \in SUBSET m_workers /\ w \in m_workers /\ w \notin In({"run"})
    BY <1>0, <1>3 DEF worker_take, AtWait, WorkerInv, In, Live
  <2>3. Cardinality(In({"run"})) # Cardinality(m_workers)
    BY <1>b, <2>2, FS_Subset
  <2>4. m_busy_count < Cardinality(m_workers)
    BY <1>0, <1>b, <2>3 DEF WorkerInv
  <2> QED
    BY <2>1, <2>4 DEF Counts!CountNext, Counts!Start
<1>4. ASSUME NEW w \in Worker, worker_finish(w) PROVE Counts!CountNext
  <2>1. m_busy_count' = m_busy_count - 1 /\ UNCHANGED m_queue /\ w \in In({"run"}) /\ w \in m_workers
    BY <1>0, <1>4 DEF worker_finish, WorkerInv, In, Live
  <2>2. m_busy_count > 0
    BY <1>0, <1>b, <2>1, WorkersFinite, FS_EmptySet DEF WorkerInv, In
  <2>3. CASE w \notin Fixed /\ m_queue = <<>>
    <3>1. m_workers' = m_workers \ {w}
      BY <1>4, <1>b, <2>1, <2>2, <2>3 DEF worker_finish
    <3>2. Cardinality(m_workers') = Cardinality(m_workers) - 1
      BY <1>b, <2>1, <3>1, FS_RemoveElement
    <3>3. Cardinality(Fixed) < Cardinality(m_workers)
      <4>1. Fixed \in SUBSET m_workers /\ Fixed # m_workers
        BY <1>0, <2>1, <2>3 DEF WorkerInv
      <4>2. Cardinality(Fixed) <= Cardinality(m_workers) /\ Cardinality(m_workers) # Cardinality(Fixed)
        BY <1>b, <4>1, FS_Subset
      <4> QED
        BY <1>b, <4>2
    <3>4. Len(m_queue) = 0
      BY <2>3
    <3> QED
      BY <2>1, <2>2, <3>2, <3>3, <3>4 DEF Counts!CountNext, Counts!Finish
  <2>4. CASE w \in Fixed \/ m_queue # <<>>
    <3>1. UNCHANGED m_workers
      BY <1>4, <2>4 DEF worker_finish
    <3>2. Len(m_queue) > 0 \/ Cardinality(Fixed) > 0
      <4>1. CASE m_queue # <<>>
        BY <1>0, <4>1 DEF TypeOK
      <4>2. CASE w \in Fixed
        BY <1>b, <4>2, WorkersFinite, FS_EmptySet, ExecutorAssumption
      <4> QED
        BY <2>4, <4>1, <4>2
    <3> QED
      BY <2>1, <2>2, <3>1, <3>2 DEF Counts!CountNext, Counts!Finish
  <2> QED
    BY <2>3, <2>4
<1>5. ASSUME NEW w \in Worker, worker_fn(w) PROVE [Counts!CountNext]_(Counts!countVars)
  <2>1. worker_reap(w) \/ worker_join_dead(w) \/ worker_wait(w) \/ worker_return(w)
        => UNCHANGED <<m_queue, m_busy_count, m_workers>>
    BY DEF worker_reap, worker_join_dead, worker_wait, worker_return
  <2> QED
    BY <1>3, <1>4, <1>5, <1>a, <2>1 DEF worker_fn
<1>6. ASSUME put_notify \/ cancel \/ stop \/ UNCHANGED vars
      PROVE  UNCHANGED <<m_queue, m_busy_count, m_workers>>
  BY <1>6 DEF put_notify, cancel, stop, stop_enter, stop_notify, stop_join, stop_return, vars
<1> QED
  BY <1>1, <1>2, <1>5, <1>6, <1>a DEF Next, ended

\* What MachinePool relies on: seen from outside, the executor queues, starts and
\* finishes tasks and adds and drops threads exactly as TaskExecutor says.
THEOREM ExecRefinesCounts == Spec => CountsRefined
<1>1. Init => Counts!CountInit
  BY DEF Init, Counts!CountInit
<1> QED
  BY <1>1, CountStep, ExecInvariant, PTL DEF Spec, CountsRefined, Counts!CountSpec
=============================================================================
