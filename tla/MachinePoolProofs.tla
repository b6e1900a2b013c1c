-------------------------- MODULE MachinePoolProofs --------------------------
(***************************************************************************)
(* The invariants of MachinePool, for every number of runners and every    *)
(* idle target, bound on faults and width of size_t.                       *)
(***************************************************************************)
EXTENDS MachinePool, FiniteSetTheorems, TLAPS

-----------------------------------------------------------------------------
(* Counting.                                                               *)

\* Two sets that agree but for x differ in size by whether x is in them: how
\* a program counter moves one thread from one of the pool's counters to
\* another.
LEMMA OnePointStep ==
    ASSUME NEW S, NEW T, NEW x, IsFiniteSet(S), IsFiniteSet(T), S \ {x} = T \ {x}
    PROVE  /\ Cardinality(S) \in Nat /\ Cardinality(T) \in Nat
           /\ x \in S /\ x \notin T => Cardinality(S) = Cardinality(T) + 1
           /\ x \notin S /\ x \in T => Cardinality(T) = Cardinality(S) + 1
           /\ (x \in S <=> x \in T) => Cardinality(T) = Cardinality(S)
<1>1. Cardinality(S) \in Nat /\ Cardinality(T) \in Nat
  BY FS_CardinalityType
<1>2. ASSUME x \in S, x \notin T PROVE Cardinality(S) = Cardinality(T) + 1
  <2>1. S = T \cup {x}
    BY <1>2
  <2> QED
    BY <1>2, <2>1, FS_AddElement
<1>3. ASSUME x \notin S, x \in T PROVE Cardinality(T) = Cardinality(S) + 1
  <2>1. T = S \cup {x}
    BY <1>3
  <2> QED
    BY <1>3, <2>1, FS_AddElement
<1>4. ASSUME x \in S <=> x \in T PROVE S = T
  BY <1>4
<1> QED
  BY <1>1, <1>2, <1>3, <1>4

\* The sizes of the sets the counters stand for are numbers, and no more
\* runners can be in a state than there are.
LEMMA Sizes ==
    ASSUME TypeOK
    PROVE  /\ \A A : Cardinality(At(A)) \in 0 .. MaxConcurrency
           /\ Cardinality(Spawning) \in Nat
           /\ IsFiniteSet(Spawning)
<1>1. ASSUME NEW A PROVE Cardinality(At(A)) \in 0 .. MaxConcurrency
  <2>1. At(A) \in SUBSET Runner
    BY DEF At
  <2>2. IsFiniteSet(At(A)) /\ Cardinality(At(A)) <= MaxConcurrency
    BY <2>1, FS_Subset, PoolAssumption
  <2> QED
    BY <2>2, FS_CardinalityType, PoolAssumption
<1>2. Spawning \in SUBSET Machine
  BY DEF Spawning
<1>3. IsFiniteSet(Spawning)
  BY <1>2, FS_Subset, PoolAssumption
<1> QED
  BY <1>1, <1>3, FS_CardinalityType

\* size_t arithmetic stays in size_t, and is arithmetic away from its ends.
LEMMA SizeTSteps ==
    ASSUME NEW n \in SizeT
    PROVE  /\ Inc(n) \in SizeT /\ Dec(n) \in SizeT
           /\ n < Word - 1 => Inc(n) = n + 1
           /\ n > 0 => Dec(n) = n - 1
BY PoolAssumption DEF SizeT, Inc, Dec, Wrap

-----------------------------------------------------------------------------
(* Types.                                                                  *)

\* Every step keeps the variables in their types; that a worker leaves the
\* executor's set only while it is counted there is WorkersBounded.
LEMMA TypeStep ==
    ASSUME TypeOK, WorkersBounded, [Next]_vars
    PROVE  TypeOK'
<1> USE DEF TypeOK, counters, executor
<1>1. ASSUME NEW r \in Runner, runner(r) PROVE TypeOK'
  <2>1. CASE runner_exit(r)
    BY <2>1 DEF runner_exit, RunnerAt
  <2>2. CASE acquire_enter(r)
    BY <2>2, SizeTSteps DEF acquire_enter, RunnerAt, check_stats
  <2>3. CASE acquire_fail(r)
    BY <2>3, SizeTSteps DEF acquire_fail, RunnerAt
  <2>4. CASE acquire_pop(r)
    <3>1. Head(m_idle_machines) \in Machine /\ Tail(m_idle_machines) \in Seq(Machine)
      BY <2>4 DEF acquire_pop
    <3> QED
      BY <2>4, <3>1, SizeTSteps DEF acquire_pop, RunnerAt, check_stats, Leasing
  <2>5. CASE activate(r)
    BY <2>5, SizeTSteps DEF activate, RunnerAt, check_stats, Leasing
  <2>6. CASE deactivate(r)
    BY <2>6, SizeTSteps DEF deactivate, RunnerAt, Leasing
  <2>7. CASE release(r)
    BY <2>7, SizeTSteps DEF release, RunnerAt, check_stats
  <2>8. CASE drop_machine(r)
    BY <2>8 DEF drop_machine, RunnerAt
  <2> QED
    BY <1>1, <2>1, <2>2, <2>3, <2>4, <2>5, <2>6, <2>7, <2>8 DEF runner
<1>2. ASSUME control_loop PROVE TypeOK'
  <2>1. CASE control_stop
    BY <2>1 DEF control_stop
  <2>2. CASE control_upscale
    BY <2>2, SizeTSteps DEF control_upscale, check_stats
  <2>3. CASE control_put
    BY <2>3 DEF control_put
  <2>4. CASE control_put_throws
    BY <2>4, SizeTSteps, PoolAssumption DEF control_put_throws, check_stats
  <2>5. CASE control_backoff
    BY <2>5 DEF control_backoff
  <2> QED
    BY <1>2, <2>1, <2>2, <2>3, <2>4, <2>5 DEF control_loop
<1>3. ASSUME NEW m \in Machine, worker(m) PROVE TypeOK'
  <2>1. CASE worker_take(m)
    BY <2>1 DEF worker_take, VmStep, Warm
  <2>2. CASE spawn_machine(m)
    BY <2>2 DEF spawn_machine, VmStep, Warm
  <2>3. CASE spawn_one(m)
    <3>1. m_idle_machines' \in Seq(Machine) /\ Len(m_idle_machines') \in Nat
      <4>1. \/ m_idle_machines' = Append(m_idle_machines, m)
            \/ m_idle_machines' = m_idle_machines
        BY <2>3 DEF spawn_one
      <4> QED
        BY <4>1
    <3>2. vm' \in [Machine -> Warm \cup {"absent", "pooled", "left"}]
      BY <2>3 DEF spawn_one, VmStep
    <3> QED
      BY <2>3, <3>1, <3>2, SizeTSteps DEF spawn_one, check_stats
  <2>4. CASE spawn_throws(m)
    BY <2>4, PoolAssumption DEF spawn_throws, VmStep
  <2> QED
    BY <1>3, <2>1, <2>2, <2>3, <2>4 DEF worker
<1>4. ASSUME worker_done PROVE TypeOK'
  <2>1. busy > 0 /\ workers > 0
    BY <1>4, Sizes DEF worker_done, WorkersBounded
  <2> QED
    BY <1>4, <2>1 DEF worker_done
<1>8. ASSUME worker_return \/ worker_reaps_hollow PROVE TypeOK'
  BY <1>8 DEF worker_return, worker_reaps_hollow
<1>5. ASSUME shutdown PROVE TypeOK'
  BY <1>5 DEF shutdown
<1>6. ASSUME stop PROVE TypeOK'
  <2>1. CASE stop_request \/ stop_join_control \/ stop_join_workers \/ stop_again_throws
    BY <2>1 DEF stop_request, stop_join_control, stop_join_workers, stop_again_throws
  <2>2. CASE destroy_pool
    <3>1. vm' \in [Machine -> Warm \cup {"absent", "pooled", "left"}]
      BY <2>2 DEF destroy_pool
    <3>2. m_idle_machines' \in Seq(Machine)
      BY <2>2 DEF destroy_pool
    <3> QED
      BY <2>2, <3>1, <3>2 DEF destroy_pool
  <2> QED
    BY <1>6, <2>1, <2>2 DEF stop
<1>7. ASSUME UNCHANGED vars PROVE TypeOK'
  BY <1>7 DEF vars
<1> QED
  BY <1>1, <1>2, <1>3, <1>4, <1>5, <1>6, <1>7, <1>8 DEF Next, ended

-----------------------------------------------------------------------------
(* Ownership of machines.                                                  *)

Owning == Leasing \cup {"released"}

\* A step that moves no machine keeps MachineExclusive.
LEMMA OwnershipFrame ==
    ASSUME MachineExclusive, UNCHANGED <<m_idle_machines, held>>,
           \A r \in Runner : rpc'[r] \in Owning <=> rpc[r] \in Owning,
           \A m \in Machine : vm'[m] = "pooled" <=> vm[m] = "pooled"
    PROVE  MachineExclusive'
BY DEF MachineExclusive, Idle, Owning

\* Machines change hands only in acquire_pop, drop_machine, spawn_one and
\* destroy_pool, and there from exactly one owner to at most one.
LEMMA OwnershipStep ==
    ASSUME TypeOK, MachineExclusive, StopOrder, [Next]_vars
    PROVE  MachineExclusive'
<1> USE DEF counters, executor
<1>1. ASSUME NEW r \in Runner,
             \/ runner_exit(r) \/ acquire_enter(r) \/ acquire_fail(r)
             \/ activate(r) \/ deactivate(r) \/ release(r)
      PROVE  MachineExclusive'
  <2>1. UNCHANGED <<m_idle_machines, held, vm>>
    BY <1>1 DEF runner_exit, acquire_enter, acquire_fail, activate, deactivate, release
  <2>2. \A q \in Runner : rpc'[q] \in Owning <=> rpc[q] \in Owning
    BY <1>1 DEF runner_exit, acquire_enter, acquire_fail, activate, deactivate,
                release, RunnerAt, TypeOK, Owning, Leasing
  <2> QED
    BY <2>1, <2>2, OwnershipFrame
<1>2. ASSUME NEW r \in Runner, acquire_pop(r) PROVE MachineExclusive'
  <2> DEFINE h == Head(m_idle_machines)
             s == m_idle_machines
  <2>1. /\ s \in Seq(Machine) /\ s # <<>> /\ Len(s) \in Nat /\ Len(s) > 0
        /\ h = s[1] /\ h \in Machine /\ h \in Idle
        /\ m_idle_machines' = Tail(s) /\ Len(Tail(s)) = Len(s) - 1
        /\ \A i \in 1 .. Len(Tail(s)) : Tail(s)[i] = s[i + 1]
    BY <1>2 DEF acquire_pop, TypeOK, Idle
  <2>2. /\ held' = [held EXCEPT ![r] = h] /\ vm' = vm
        /\ rpc[r] = "acquire" /\ rpc' = [rpc EXCEPT ![r] = "held"]
    BY <1>2 DEF acquire_pop, RunnerAt
  <2>3. \A i, j \in 1 .. Len(m_idle_machines') :
            m_idle_machines'[i] = m_idle_machines'[j] => i = j
    BY <2>1 DEF MachineExclusive
  <2>4. Idle' = Idle \ {h}
    <3>1. ASSUME NEW x \in Idle' PROVE x \in Idle /\ x # h
      BY <2>1, <3>1 DEF Idle, MachineExclusive
    <3>2. ASSUME NEW x \in Idle, x # h PROVE x \in Idle'
      <4>1. PICK i \in 1 .. Len(s) : x = s[i]
        BY <3>2 DEF Idle
      <4>2. i # 1 /\ i - 1 \in 1 .. Len(Tail(s)) /\ Tail(s)[i - 1] = s[i]
        BY <4>1, <3>2, <2>1
      <4> QED
        BY <4>1, <4>2, <2>1 DEF Idle
    <3> QED
      BY <3>1, <3>2
  <2>5. \A q \in Runner : held'[q] = IF q = r THEN h ELSE held[q]
    BY <2>2 DEF TypeOK
  <2>6. \A q \in Runner : rpc'[q] \in Owning <=> rpc[q] \in Owning \/ q = r
    BY <2>2 DEF TypeOK, Owning, Leasing
  <2>7. h # NoMachine /\ \A q \in Runner : held[q] # h
    BY <2>1, PoolAssumption DEF MachineExclusive
  <2>8. \A q \in Runner :
            /\ rpc'[q] \in Owning <=> held'[q] # NoMachine
            /\ held'[q] \notin Idle'
            /\ \A p \in Runner : held'[p] = held'[q] /\ held'[q] # NoMachine => p = q
    BY <2>4, <2>5, <2>6, <2>7, <2>2 DEF MachineExclusive, Owning, Leasing
  <2>9. \A m \in Machine :
            vm'[m] = "pooled" <=> m \in Idle' \/ \E q \in Runner : held'[q] = m
    <3> TAKE m \in Machine
    <3>1. CASE m = h
      BY <3>1, <2>1, <2>2, <2>5 DEF MachineExclusive
    <3>2. CASE m # h
      <4>1. (\E q \in Runner : held'[q] = m) <=> (\E q \in Runner : held[q] = m)
        BY <3>2, <2>5, <2>2, PoolAssumption DEF MachineExclusive, Leasing
      <4> QED
        BY <3>2, <4>1, <2>2, <2>4 DEF MachineExclusive
    <3> QED
      BY <3>1, <3>2
  <2> QED
    BY <2>3, <2>8, <2>9 DEF MachineExclusive, Owning

<1>3. ASSUME NEW r \in Runner, drop_machine(r) PROVE MachineExclusive'
  <2> DEFINE h == held[r]
  <2>1. /\ rpc[r] = "released" /\ rpc' = [rpc EXCEPT ![r] = "loop"]
        /\ \E g \in {"absent", "left"} : vm' = [vm EXCEPT ![h] = g]
        /\ held' = [held EXCEPT ![r] = NoMachine]
        /\ m_idle_machines' = m_idle_machines
    BY <1>3 DEF drop_machine, RunnerAt
  <2>2. h \in Machine /\ h \notin Idle /\ \A q \in Runner : held[q] = h => q = r
    BY <2>1 DEF MachineExclusive, TypeOK
  <2>3. \A q \in Runner : held'[q] = IF q = r THEN NoMachine ELSE held[q]
    BY <2>1 DEF TypeOK
  <2>4. \A q \in Runner : rpc'[q] \in Owning <=> rpc[q] \in Owning /\ q # r
    BY <2>1 DEF TypeOK, Owning, Leasing
  <2>5. \A m \in Machine : IF m = h THEN vm'[m] # "pooled" ELSE vm'[m] = vm[m]
    BY <2>1, <2>2 DEF TypeOK
  <2>6. Idle' = Idle /\ NoMachine \notin Idle
    BY <2>1, PoolAssumption DEF Idle, TypeOK
  <2>7. \A q \in Runner :
            /\ rpc'[q] \in Owning <=> held'[q] # NoMachine
            /\ held'[q] \notin Idle'
            /\ \A p \in Runner : held'[p] = held'[q] /\ held'[q] # NoMachine => p = q
    BY <2>3, <2>4, <2>6 DEF MachineExclusive, Owning
  <2>8. \A m \in Machine :
            vm'[m] = "pooled" <=> m \in Idle' \/ \E q \in Runner : held'[q] = m
    BY <2>2, <2>3, <2>5, <2>6, PoolAssumption DEF MachineExclusive
  <2>9. \A i, j \in 1 .. Len(m_idle_machines') :
            m_idle_machines'[i] = m_idle_machines'[j] => i = j
    BY <2>1 DEF MachineExclusive
  <2> QED
    BY <2>7, <2>8, <2>9 DEF MachineExclusive, Owning
<1>4. ASSUME control_loop PROVE MachineExclusive'
  <2>1. UNCHANGED <<m_idle_machines, held, rpc, vm>>
    BY <1>4 DEF control_loop, control_stop, control_upscale, control_put,
                control_put_throws, control_backoff
  <2> QED
    BY <2>1, OwnershipFrame
<1>5. ASSUME NEW m \in Machine, worker_take(m) \/ spawn_machine(m) \/ spawn_throws(m)
      PROVE  MachineExclusive'
  <2>1. UNCHANGED <<m_idle_machines, held, rpc>>
    BY <1>5 DEF worker_take, spawn_machine, spawn_throws
  <2>2. \A n \in Machine : vm'[n] = "pooled" <=> vm[n] = "pooled"
    BY <1>5 DEF worker_take, spawn_machine, spawn_throws, VmStep, TypeOK
  <2> QED
    BY <2>1, <2>2, OwnershipFrame
<1>6. ASSUME NEW m \in Machine, spawn_one(m) PROVE MachineExclusive'
  <2>1. CASE vm[m] \in {"failed", "stranded"}
    <3>1. UNCHANGED <<m_idle_machines, held, rpc>>
      BY <1>6, <2>1 DEF spawn_one, VmStep
    <3>2. \A n \in Machine : vm'[n] = "pooled" <=> vm[n] = "pooled"
      BY <1>6, <2>1 DEF spawn_one, VmStep, TypeOK
    <3> QED
      BY <3>1, <3>2, OwnershipFrame
  <2>2. CASE vm[m] = "ready"
    <3> DEFINE s == m_idle_machines
    <3>1. /\ m_idle_machines' = Append(s, m) /\ s \in Seq(Machine)
          /\ held' = held /\ rpc' = rpc
          /\ vm' = [vm EXCEPT ![m] = "pooled"]
      BY <1>6, <2>2 DEF spawn_one, VmStep, TypeOK
    <3>2. /\ Len(s) \in Nat
          /\ Len(Append(s, m)) = Len(s) + 1
          /\ \A i \in 1 .. Len(s) : Append(s, m)[i] = s[i]
          /\ Append(s, m)[Len(s) + 1] = m
      BY <3>1
    <3>3. m \notin Idle /\ \A q \in Runner : held[q] # m
      BY <2>2 DEF MachineExclusive
    <3>4. \A i \in 1 .. Len(s) : s[i] # m
      BY <3>3 DEF Idle
    <3>5. \A i, j \in 1 .. Len(m_idle_machines') :
            m_idle_machines'[i] = m_idle_machines'[j] => i = j
      BY <3>1, <3>2, <3>4 DEF MachineExclusive
    <3>6. Idle' = Idle \cup {m}
      BY <3>1, <3>2 DEF Idle
    <3>7. \A n \in Machine : vm'[n] = IF n = m THEN "pooled" ELSE vm[n]
      BY <3>1 DEF TypeOK
    <3> QED
      BY <3>1, <3>3, <3>5, <3>6, <3>7 DEF MachineExclusive
  <2> QED
    BY <1>6, <2>1, <2>2 DEF spawn_one, VmStep
<1>7. ASSUME worker_done \/ worker_return \/ worker_reaps_hollow \/ shutdown
      PROVE  MachineExclusive'
  <2>1. UNCHANGED <<m_idle_machines, held, rpc, vm>>
    BY <1>7 DEF worker_done, worker_return, worker_reaps_hollow, shutdown
  <2> QED
    BY <2>1, OwnershipFrame
<1>8. ASSUME stop_request \/ stop_join_control \/ stop_join_workers \/ stop_again_throws
      PROVE  MachineExclusive'
  <2>1. UNCHANGED <<m_idle_machines, held, rpc, vm>>
    BY <1>8 DEF stop_request, stop_join_control, stop_join_workers, stop_again_throws
  <2> QED
    BY <2>1, OwnershipFrame
<1>9. ASSUME destroy_pool PROVE MachineExclusive'
  <2>1. /\ m_idle_machines' = <<>> /\ held' = held /\ rpc' = rpc
        /\ \A m \in Machine : IF m \in Idle THEN vm'[m] # "pooled" ELSE vm'[m] = vm[m]
    BY <1>9 DEF destroy_pool
  <2>2. \A r \in Runner : rpc[r] = "exited"
    BY <1>9 DEF destroy_pool, StopOrder
  <2>3. \A r \in Runner : held[r] = NoMachine
    BY <2>2 DEF MachineExclusive, Leasing
  <2>4. Idle' = {}
    BY <2>1 DEF Idle
  <2>5. \A m \in Machine : vm'[m] # "pooled"
    BY <2>1, <2>3, PoolAssumption DEF MachineExclusive
  <2> QED
    BY <2>1, <2>2, <2>3, <2>4, <2>5, PoolAssumption DEF MachineExclusive, Leasing
<1>10. ASSUME UNCHANGED vars PROVE MachineExclusive'
  BY <1>10, OwnershipFrame DEF vars
<1> QED
  BY <1>1, <1>2, <1>3, <1>4, <1>5, <1>6, <1>7, <1>8, <1>9, <1>10
     DEF Next, runner, worker, stop, ended

-----------------------------------------------------------------------------
(* Shutdown order.                                                         *)

\* exited runners stay exited, the control thread stays done, and no worker
\* takes a task once the executor has been joined.
LEMMA StopOrderStep ==
    ASSUME TypeOK, StopOrder, WorkersBounded, [Next]_vars
    PROVE  StopOrder'
<1> USE DEF counters, executor, StopOrder
<1>1. ASSUME NEW r \in Runner, runner(r) PROVE StopOrder'
  <2>1. UNCHANGED <<spc, cpc, busy>> /\ rpc[r] # "exited"
    BY <1>1 DEF runner, runner_exit, acquire_enter, acquire_fail, acquire_pop,
                activate, deactivate, release, drop_machine, RunnerAt
  <2> QED
    BY <2>1
<1>2. ASSUME control_loop PROVE StopOrder'
  BY <1>2 DEF control_loop, control_stop, control_upscale, control_put,
              control_put_throws, control_backoff
<1>3. ASSUME NEW m \in Machine, worker(m) PROVE StopOrder'
  BY <1>3 DEF worker, worker_take, spawn_machine, spawn_one, spawn_throws
<1>4. ASSUME worker_done PROVE StopOrder'
  BY <1>4, Sizes DEF worker_done, TypeOK
<1>5. ASSUME worker_return \/ worker_reaps_hollow \/ shutdown \/ stop PROVE StopOrder'
  BY <1>5 DEF worker_return, worker_reaps_hollow, shutdown, stop, stop_request,
              stop_join_control, stop_join_workers, stop_again_throws, destroy_pool
<1>6. ASSUME UNCHANGED vars PROVE StopOrder'
  BY <1>6 DEF vars
<1> QED
  BY <1>1, <1>2, <1>3, <1>4, <1>5, <1>6 DEF Next, ended

-----------------------------------------------------------------------------
(* Counters.                                                               *)

\* S becomes T when one element comes in, goes out, both or neither.
Grows(S, T, in, out) ==
    /\ Cardinality(S) \in Nat /\ Cardinality(T) \in Nat
    /\ out /\ ~in => Cardinality(S) = Cardinality(T) + 1
    /\ ~out /\ in => Cardinality(T) = Cardinality(S) + 1
    /\ (out <=> in) => Cardinality(T) = Cardinality(S)

\* How moving one runner changes the number of runners in A.
LEMMA RunnerMoves ==
    ASSUME NEW A, NEW r \in Runner, \A q \in Runner : q # r => rpc'[q] = rpc[q]
    PROVE  Grows(At(A), At(A)', rpc'[r] \in A, rpc[r] \in A)
<1>1. IsFiniteSet(At(A)) /\ IsFiniteSet(At(A)')
  <2>1. At(A) \in SUBSET Runner /\ At(A)' \in SUBSET Runner
    BY DEF At
  <2> QED
    BY <2>1, FS_Subset, PoolAssumption
<1>2. /\ At(A) \ {r} = At(A)' \ {r}
      /\ r \in At(A) <=> rpc[r] \in A
      /\ r \in At(A)' <=> rpc'[r] \in A
  BY DEF At
<1> QED
  BY <1>1, <1>2, OnePointStep DEF Grows

\* How a change of one machine changes the number of running spawns.
LEMMA SpawnMoves ==
    ASSUME NEW m \in Machine, \A n \in Machine : n # m => vm'[n] = vm[n]
    PROVE  Grows(Spawning, Spawning', vm'[m] \in Warm, vm[m] \in Warm)
<1>1. IsFiniteSet(Spawning) /\ IsFiniteSet(Spawning')
  <2>1. Spawning \in SUBSET Machine /\ Spawning' \in SUBSET Machine
    BY DEF Spawning
  <2> QED
    BY <2>1, FS_Subset, PoolAssumption
<1>2. /\ Spawning \ {m} = Spawning' \ {m}
      /\ m \in Spawning <=> vm[m] \in Warm
      /\ m \in Spawning' <=> vm'[m] \in Warm
  BY DEF Spawning
<1> QED
  BY <1>1, <1>2, OnePointStep DEF Grows

\* Counting up and down commutes with wrapping, near zero.
LEMMA WrapSteps ==
    ASSUME NEW n \in Int, -Word < n, n < Word - 1
    PROVE  Inc(Wrap(n)) = Wrap(n + 1) /\ (n > 1 - Word => Dec(Wrap(n)) = Wrap(n - 1))
BY PoolAssumption DEF Inc, Dec, Wrap


\* What the bounds on the slots say about each counter.
LEMMA CounterRanges ==
    ASSUME TypeOK, CountersExact, SlotsBounded
    PROVE  /\ acquiring <= MaxConcurrency /\ acquired <= MaxConcurrency
           /\ active <= MaxConcurrency
           /\ Charge \in Nat /\ Charge <= MaxConcurrency + MaxFaults
           /\ Len(m_idle_machines) \in Nat
           /\ MaxConcurrency + MaxFaults < Word - 2
<1>1. Cardinality(Spawning) \in Nat /\ Put \in 0 .. 1
  BY Sizes DEF Put
<1>2. Charge \in Nat /\ Len(m_idle_machines) \in Nat /\ acquired \in Nat
  BY <1>1, PoolAssumption DEF Charge, SpawnTasks, TypeOK, SizeT
<1>3. Charge <= MaxConcurrency + MaxFaults
  BY <1>2, PoolAssumption DEF SlotsBounded, Provisioned, TypeOK
<1> QED
  BY <1>2, <1>3, Sizes, PoolAssumption DEF CountersExact

\* A runner's step leaves the executor and warming alone, and moves the
\* runner between the sets acquiring, acquired and active count.
LEMMA RunnerCounters ==
    ASSUME TypeOK, MachineExclusive, CountersExact, SlotsBounded, WorkersBounded,
           NEW r \in Runner, runner(r)
    PROVE  CountersExact' /\ SlotsBounded' /\ WorkersBounded'
<1> USE DEF counters, executor
<1> DEFINE Exact == /\ acquiring' = Cardinality(At({"acquire"})')
                    /\ acquired' = Cardinality(At(Leasing)')
                    /\ active' = Cardinality(At({"active"})')
           Bound == acquired' + Len(m_idle_machines')
                        <= acquired + Len(m_idle_machines)
<1>1. UNCHANGED <<warming, executor, cpc>>
  BY DEF runner, runner_exit, acquire_enter, acquire_fail, acquire_pop,
         activate, deactivate, release, drop_machine
<1>2. Cardinality(Spawning') = Cardinality(Spawning)
  <2>1. CASE drop_machine(r)
    <3>1. /\ held[r] \in Machine /\ vm[held[r]] = "pooled"
          /\ \E g \in {"absent", "left"} : vm' = [vm EXCEPT ![held[r]] = g]
      BY <2>1 DEF drop_machine, RunnerAt, MachineExclusive, TypeOK
    <3>2. /\ vm'[held[r]] \in {"absent", "left"}
          /\ \A n \in Machine : n # held[r] => vm'[n] = vm[n]
      BY <3>1 DEF TypeOK
    <3> QED
      BY <3>1, <3>2, SpawnMoves DEF Warm, Grows
  <2>2. CASE ~drop_machine(r)
    <3>1. vm' = vm
      BY <2>2 DEF runner, runner_exit, acquire_enter, acquire_fail, acquire_pop,
                  activate, deactivate, release
    <3> QED
      BY <3>1 DEF Spawning
  <2> QED
    BY <2>1, <2>2
<1>3. Exact /\ Bound
  <2>1. \A q \in Runner : q # r => rpc'[q] = rpc[q]
    BY DEF runner, runner_exit, acquire_enter, acquire_fail, acquire_pop,
           activate, deactivate, release, drop_machine, RunnerAt, TypeOK
  <2>2. /\ Grows(At({"acquire"}), At({"acquire"})',
                 rpc'[r] \in {"acquire"}, rpc[r] \in {"acquire"})
        /\ Grows(At(Leasing), At(Leasing)', rpc'[r] \in Leasing, rpc[r] \in Leasing)
        /\ Grows(At({"active"}), At({"active"})',
                 rpc'[r] \in {"active"}, rpc[r] \in {"active"})
    BY <2>1, RunnerMoves
  <2>3. ASSUME NEW a, NEW b, RunnerAt(r, a, b) PROVE rpc[r] = a /\ rpc'[r] = b
    BY <2>3 DEF RunnerAt, TypeOK
  <2>4. /\ Inc(acquiring) = acquiring + 1 /\ Inc(acquired) = acquired + 1
        /\ Inc(active) = active + 1
        /\ acquiring > 0 => Dec(acquiring) = acquiring - 1
        /\ acquired > 0 => Dec(acquired) = acquired - 1
        /\ active > 0 => Dec(active) = active - 1
    <3>1. acquiring \in SizeT /\ acquired \in SizeT /\ active \in SizeT
      BY DEF TypeOK
    <3>2. acquiring < Word - 1 /\ acquired < Word - 1 /\ active < Word - 1
      BY <3>1, CounterRanges, PoolAssumption DEF SizeT
    <3> QED
      BY <3>1, <3>2, SizeTSteps
  <2>5. acquiring \in Nat /\ acquired \in Nat /\ active \in Nat /\ Len(m_idle_machines) \in Nat
    BY DEF TypeOK, SizeT
  <2> USE <2>2, <2>3, <2>4, <2>5 DEF CountersExact, Grows, Leasing
  <2>6. CASE runner_exit(r)
    <3>1. rpc[r] = "loop" /\ rpc'[r] = "exited"
      BY <2>6 DEF runner_exit
    <3> QED
      BY <2>6, <3>1 DEF runner_exit
  <2>7. CASE acquire_enter(r)
    <3>1. rpc[r] = "loop" /\ rpc'[r] = "acquire"
      BY <2>7 DEF acquire_enter
    <3> QED
      BY <2>7, <3>1 DEF acquire_enter
  <2>8. CASE acquire_fail(r)
    <3>1. rpc[r] = "acquire" /\ rpc'[r] = "loop"
      BY <2>8 DEF acquire_fail
    <3> QED
      BY <2>8, <3>1 DEF acquire_fail
  <2>9. CASE acquire_pop(r)
    <3>1. Len(m_idle_machines') = Len(m_idle_machines) - 1
      BY <2>9 DEF acquire_pop, TypeOK
    <3>2. rpc[r] = "acquire" /\ rpc'[r] = "held"
      BY <2>9 DEF acquire_pop
    <3>3. /\ rpc[r] \in {"acquire"} /\ rpc'[r] \notin {"acquire"}
          /\ rpc[r] \notin Leasing /\ rpc'[r] \in Leasing
          /\ rpc[r] \notin {"active"} /\ rpc'[r] \notin {"active"}
      BY <3>2
    <3>4. /\ acquiring' = Dec(acquiring) /\ acquired' = acquired + 1
          /\ active' = active
      BY <2>9 DEF acquire_pop
    <3>5. /\ Cardinality(At({"acquire"})) = Cardinality(At({"acquire"})') + 1
          /\ Cardinality(At(Leasing)') = Cardinality(At(Leasing)) + 1
          /\ Cardinality(At({"active"})') = Cardinality(At({"active"}))
      BY <3>3, Zenon
    <3>6. /\ Cardinality(At({"acquire"})') \in Nat
          /\ acquiring = Cardinality(At({"acquire"}))
          /\ acquired = Cardinality(At(Leasing))
          /\ active = Cardinality(At({"active"}))
      BY Zenon
    <3> DEFINE c == Cardinality(At({"acquire"}))
               d == Cardinality(At({"acquire"})')
    <3>7. acquiring > 0 /\ acquiring - 1 = d
      <4>1. acquiring = c /\ c = d + 1 /\ d \in Nat
        BY <3>5, <3>6
      <4> HIDE <2>2, <2>3, <2>4 DEF c, d, CountersExact, Grows, Leasing
      <4> QED
        BY <4>1
    <3>8. acquiring' = d
      BY <3>4, <3>7
    <3>9. Exact
      <4>1. acquired' = Cardinality(At(Leasing)')
        BY <3>4, <3>5, <3>6, Zenon
      <4>2. active' = Cardinality(At({"active"})')
        BY <3>4, <3>5, <3>6, Zenon
      <4> QED
        BY <4>1, <4>2, <3>8, Zenon
    <3>10. Bound
      <4>1. acquired' = acquired + 1
        BY <3>4, Zenon
      <4> HIDE <2>2, <2>3, <2>4 DEF CountersExact, Grows, Leasing
      <4> QED
        BY <4>1, <3>1
    <3> QED
      BY <3>9, <3>10, Zenon
  <2>10. CASE activate(r)
    <3>1. rpc[r] = "held" /\ rpc'[r] = "active"
      BY <2>10 DEF activate
    <3> QED
      BY <2>10, <3>1 DEF activate
  <2>11. CASE deactivate(r)
    <3>1. rpc[r] = "active" /\ rpc'[r] = "used"
      BY <2>11 DEF deactivate
    <3> QED
      BY <2>11, <3>1 DEF deactivate
  <2>12. CASE release(r)
    <3>1. rpc[r] \in {"held", "used"} /\ rpc'[r] = "released"
      BY <2>12 DEF release
    <3>2. /\ rpc[r] \in Leasing /\ rpc'[r] \notin Leasing
          /\ rpc[r] \notin {"acquire"} /\ rpc'[r] \notin {"acquire"}
          /\ rpc[r] \notin {"active"} /\ rpc'[r] \notin {"active"}
      BY <3>1
    <3>3. /\ acquired' = Dec(acquired)
          /\ UNCHANGED <<acquiring, active, m_idle_machines>>
      BY <2>12 DEF release
    <3>4. /\ Cardinality(At(Leasing)') \in Nat
          /\ Cardinality(At(Leasing)) = Cardinality(At(Leasing)') + 1
      BY <3>2, Zenon
    <3>5. acquired > 0 /\ acquired' = Cardinality(At(Leasing)')
      <4>1. acquired = Cardinality(At(Leasing))
        BY Zenon
      <4> DEFINE c == Cardinality(At(Leasing))
                 d == Cardinality(At(Leasing)')
      <4>2. acquired = c /\ c = d + 1 /\ d \in Nat
        BY <4>1, <3>4
      <4> HIDE DEF c, d
      <4>3. acquired > 0 /\ acquired - 1 = d
        <5> HIDE <2>2, <2>3, <2>4 DEF CountersExact, Grows, Leasing
        <5> QED
          BY <4>2
      <4> QED
        BY <4>3, <3>3 DEF d
    <3>6. /\ Cardinality(At({"acquire"})') = Cardinality(At({"acquire"}))
          /\ Cardinality(At({"active"})') = Cardinality(At({"active"}))
      BY <3>2, Zenon
    <3> QED
      BY <3>3, <3>4, <3>5, <3>6
  <2>13. CASE drop_machine(r)
    <3>1. rpc[r] = "released" /\ rpc'[r] = "loop"
      BY <2>13 DEF drop_machine
    <3> QED
      BY <2>13, <3>1 DEF drop_machine
  <2> QED
    BY <2>6, <2>7, <2>8, <2>9, <2>10, <2>11, <2>12, <2>13 DEF runner
<1>4. Charge' = Charge
  BY <1>1, <1>2 DEF Charge, SpawnTasks, Put
<1>5. CountersExact'
  BY <1>1, <1>3, <1>4 DEF CountersExact
<1>6. SlotsBounded'
  <2>1. acquired' \in Nat /\ Len(m_idle_machines') \in Nat
    BY TypeStep DEF Next, TypeOK, SizeT
  <2>2. /\ acquired \in Nat /\ Len(m_idle_machines) \in Nat /\ Charge \in Nat
        /\ faults \in Nat /\ MaxConcurrency \in Nat
    BY CounterRanges, PoolAssumption DEF TypeOK, SizeT
  <2>3. faults' = faults /\ Bound /\ Charge' = Charge
    BY <1>1, <1>3, <1>4
  <2> QED
    BY <2>1, <2>2, <2>3 DEF SlotsBounded, Provisioned
<1>7. WorkersBounded'
  BY <1>1, <1>2 DEF WorkersBounded
<1> QED
  BY <1>5, <1>6, <1>7


\* Steps that leave the runners where they are keep CountersExact when
\* warming follows the number of spawn tasks.
LEMMA CountersFrame ==
    ASSUME CountersExact, UNCHANGED <<acquiring, acquired, active, rpc>>,
           warming' = Wrap(Charge' - faults')
    PROVE  CountersExact'
<1>1. \A A : At(A)' = At(A)
  BY DEF At
<1> QED
  BY <1>1 DEF CountersExact

\* The numbers the next lemmas calculate with.
LEMMA NumericFacts ==
    ASSUME TypeOK, CountersExact, SlotsBounded
    PROVE  /\ Cardinality(Spawning) \in Nat /\ Len(m_idle_machines) \in Nat
           /\ acquired \in Nat /\ queued \in Nat
           /\ busy \in Nat /\ workers \in Nat /\ returned \in Nat /\ Put \in 0 .. 1
           /\ faults \in 0 .. MaxFaults /\ MaxFaults \in Nat /\ MaxConcurrency \in Nat
           /\ Charge \in Nat /\ Charge <= MaxConcurrency + MaxFaults
           /\ Word \in Nat /\ Word > 4 * (MaxConcurrency + MaxFaults + 1)
           /\ warming = Wrap(Charge - faults)
           /\ acquired + Len(m_idle_machines) + Charge <= MaxConcurrency + faults
           /\ throws \in Nat
           /\ Charge = queued + Cardinality(Spawning) + Put + throws
<1>1. /\ Len(m_idle_machines) \in Nat /\ acquired \in Nat /\ queued \in Nat
      /\ busy \in Nat /\ workers \in Nat /\ returned \in Nat
      /\ faults \in 0 .. MaxFaults
  BY DEF TypeOK, SizeT
<1>2. Cardinality(Spawning) \in Nat /\ Put \in 0 .. 1
  BY Sizes DEF Put
<1>3. /\ MaxFaults \in Nat /\ MaxConcurrency \in Nat /\ Word \in Nat
      /\ Word > 4 * (MaxConcurrency + MaxFaults + 1)
  BY PoolAssumption
<1>4. Charge \in Nat /\ Charge <= MaxConcurrency + MaxFaults
  BY CounterRanges
<1>5. warming = Wrap(Charge - faults)
  BY DEF CountersExact
<1>6. acquired + Len(m_idle_machines) + Charge <= MaxConcurrency + faults
  BY DEF SlotsBounded, Provisioned
<1>7. throws \in Nat /\ Charge = queued + Cardinality(Spawning) + Put + throws
  BY PoolAssumption DEF Charge, SpawnTasks, TypeOK
<1> QED
  BY <1>1, <1>2, <1>3, <1>4, <1>5, <1>6, <1>7

\* The control thread asks for one more machine only while the slots, less
\* the faults, are below the maximum: the one step that adds a slot.
LEMMA ControlCounters ==
    ASSUME TypeOK, CountersExact, SlotsBounded, WorkersBounded, control_loop
    PROVE  CountersExact' /\ SlotsBounded' /\ WorkersBounded'
<1> USE DEF counters, executor
<1> DEFINE n == Cardinality(Spawning)
           idle == Len(m_idle_machines)
<1>1. /\ UNCHANGED <<acquiring, acquired, active, rpc, m_idle_machines, vm, busy,
                    returned, throws>>
      /\ Spawning' = Spawning
  BY DEF control_loop, control_stop, control_upscale, control_put,
         control_put_throws, control_backoff, Spawning
<1>2. /\ n \in Nat /\ idle \in Nat /\ acquired \in Nat /\ queued \in Nat
      /\ busy \in Nat /\ workers \in Nat /\ returned \in Nat /\ throws \in Nat
      /\ faults \in 0 .. MaxFaults /\ MaxFaults \in Nat /\ MaxConcurrency \in Nat
      /\ Charge \in Nat /\ Charge <= MaxConcurrency + MaxFaults
      /\ Word \in Nat /\ Word > 4 * (MaxConcurrency + MaxFaults + 1)
      /\ warming = Wrap(Charge - faults)
      /\ acquired + idle + Charge <= MaxConcurrency + faults
  BY NumericFacts
<1>3. CASE control_stop \/ control_backoff
  <2>1. /\ UNCHANGED <<warming, queued, faults, workers>> /\ Put' = Put
    BY <1>3 DEF control_stop, control_backoff, Put
  <2>2. Charge' = Charge
    BY <1>1, <2>1 DEF Charge, SpawnTasks
  <2> QED
    BY <1>1, <1>2, <2>1, <2>2, CountersFrame DEF SlotsBounded, Provisioned, WorkersBounded
<1>4. CASE control_upscale
  <2>1. /\ UNCHANGED <<queued, faults, workers>> /\ warming' = Inc(warming)
        /\ Put = 0 /\ Put' = 1 /\ want_upscale
    BY <1>4 DEF control_upscale, Put
  <2>2. Charge' = Charge + 1
    BY <1>1, <1>2, <2>1 DEF Charge, SpawnTasks
  <2>3. warming' = Wrap(Charge' - faults')
    BY <1>2, <2>1, <2>2, WrapSteps
  <2>4. acquired + idle + Charge < MaxConcurrency + faults
    <3>1. Wrap(acquired + idle + warming) < MaxConcurrency
      BY <2>1 DEF want_upscale, get_provisioned_count
    <3> HIDE DEF idle
    <3> QED
      BY <3>1, <1>2 DEF Wrap
  <2>5. Provisioned' <= MaxConcurrency + faults'
    BY <1>1, <1>2, <2>1, <2>2, <2>4 DEF Provisioned
  <2> QED
    BY <1>1, <2>1, <2>3, <2>5, CountersFrame DEF SlotsBounded, WorkersBounded
<1>5. CASE control_put
  <2>1. /\ UNCHANGED <<warming, faults>> /\ queued' = queued + 1
        /\ Put = 1 /\ Put' = 0
        /\ workers' \in {workers, workers + 1}
        /\ workers' # workers => workers < MaxConcurrency
    BY <1>5, <1>2 DEF control_put, Put, NeedsWorker
  <2>2. Charge' = Charge
    BY <1>1, <1>2, <2>1 DEF Charge, SpawnTasks
  <2>3. CountersExact' /\ SlotsBounded'
    BY <1>1, <1>2, <2>1, <2>2, CountersFrame DEF SlotsBounded, Provisioned
  <2>4. WorkersBounded'
    BY <1>1, <1>2, <2>1 DEF WorkersBounded
  <2> QED
    BY <2>3, <2>4
<1>6. CASE control_put_throws
  <2>1. /\ UNCHANGED workers /\ warming' = Dec(warming)
        /\ queued' = queued + 1 /\ faults' = faults + 1 /\ faults < MaxFaults
        /\ Put = 1 /\ Put' = 0
    BY <1>6 DEF control_put_throws, Put
  <2>2. Charge' = Charge
    BY <1>1, <1>2, <2>1 DEF Charge, SpawnTasks
  <2>3. warming' = Wrap(Charge' - faults')
    BY <1>2, <2>1, <2>2, WrapSteps
  <2>4. Provisioned' <= MaxConcurrency + faults'
    BY <1>1, <1>2, <2>1, <2>2 DEF Provisioned
  <2> QED
    BY <1>1, <2>1, <2>3, <2>4, CountersFrame DEF SlotsBounded, WorkersBounded
<1> QED
  BY <1>3, <1>4, <1>5, <1>6 DEF control_loop

\* A spawn task moves from the queue to a worker to an idle machine and stays
\* one slot; a failed one gives its slot back.
LEMMA WorkerCounters ==
    ASSUME TypeOK, CountersExact, SlotsBounded, WorkersBounded,
           NEW m \in Machine, worker(m)
    PROVE  CountersExact' /\ SlotsBounded' /\ WorkersBounded'
<1> USE DEF counters, executor
<1> DEFINE n == Cardinality(Spawning)
           idle == Len(m_idle_machines)
<1>1. /\ UNCHANGED <<acquiring, acquired, active, rpc, workers, returned, faults, cpc>>
      /\ Put' = Put
  BY DEF worker, worker_take, spawn_machine, spawn_one, spawn_throws, Put
<1>2. /\ n \in Nat /\ idle \in Nat /\ acquired \in Nat /\ queued \in Nat
      /\ busy \in Nat /\ workers \in Nat /\ returned \in Nat /\ throws \in Nat
      /\ faults \in 0 .. MaxFaults /\ MaxFaults \in Nat /\ MaxConcurrency \in Nat
      /\ Charge \in Nat /\ Charge <= MaxConcurrency + MaxFaults
      /\ Word \in Nat /\ Word > 4 * (MaxConcurrency + MaxFaults + 1)
      /\ warming = Wrap(Charge - faults)
      /\ acquired + idle + Charge <= MaxConcurrency + faults
  BY NumericFacts
<1>7. Charge = queued + n + Put + throws /\ Put \in 0 .. 1
  BY NumericFacts
<1>3. Grows(Spawning, Spawning', vm'[m] \in Warm, vm[m] \in Warm)
  <2>1. \A k \in Machine : k # m => vm'[k] = vm[k]
    BY DEF worker, worker_take, spawn_machine, spawn_one, spawn_throws, VmStep, TypeOK
  <2> QED
    BY <2>1, SpawnMoves
<1>4. CASE worker_take(m)
  <2>1. /\ UNCHANGED <<warming, m_idle_machines, throws>>
        /\ queued' = queued - 1 /\ busy' = busy + 1 /\ busy + returned < workers
        /\ vm[m] \notin Warm /\ vm'[m] \in Warm
    BY <1>4 DEF worker_take, VmStep, Warm, TypeOK
  <2>2. Cardinality(Spawning') = n + 1
    BY <1>3, <2>1, Zenon DEF Grows
  <2>3. Charge' = Charge
    BY <1>1, <1>2, <1>7, <2>1, <2>2 DEF Charge, SpawnTasks
  <2>4. CountersExact' /\ SlotsBounded'
    BY <1>1, <1>2, <2>1, <2>3, CountersFrame DEF SlotsBounded, Provisioned
  <2>5. WorkersBounded'
    <3>1. n <= busy /\ workers <= MaxConcurrency /\ n \in Nat /\ busy \in Nat
      BY <1>2 DEF WorkersBounded
    <3>2. /\ busy' = busy + 1 /\ workers' = workers
          /\ busy' + returned' <= workers
      BY <1>1, <1>2, <2>1
    <3> HIDE DEF n
    <3>3. n + 1 <= busy'
      BY <3>1, <3>2
    <3> QED
      BY <3>1, <3>2, <3>3, <2>2 DEF WorkersBounded
  <2> QED
    BY <2>4, <2>5
<1>5. CASE spawn_machine(m)
  <2>1. /\ UNCHANGED <<warming, m_idle_machines, queued, busy, throws>>
        /\ vm[m] \in Warm /\ vm'[m] \in Warm
    BY <1>5 DEF spawn_machine, VmStep, Warm, TypeOK
  <2>2. Cardinality(Spawning') = n
    BY <1>3, <2>1, Zenon DEF Grows
  <2>3. Charge' = Charge
    BY <1>1, <2>1, <2>2 DEF Charge, SpawnTasks
  <2>4. CountersExact' /\ SlotsBounded'
    BY <1>1, <1>2, <2>1, <2>3, CountersFrame DEF SlotsBounded, Provisioned
  <2>5. WorkersBounded'
    <3>1. workers' = workers /\ busy' = busy /\ returned' = returned
      BY <1>1, <2>1
    <3> QED
      BY <3>1, <2>2 DEF WorkersBounded
  <2> QED
    BY <2>4, <2>5
<1>6. CASE spawn_one(m)
  <2>1. /\ UNCHANGED <<queued, busy, throws>> /\ warming' = Dec(warming)
        /\ vm[m] \in Warm /\ vm'[m] \notin Warm
    BY <1>6 DEF spawn_one, VmStep, Warm, TypeOK
  <2>2. n = Cardinality(Spawning') + 1 /\ Cardinality(Spawning') \in Nat
    BY <1>3, <2>1, Zenon DEF Grows
  <2>3. Charge' = Charge - 1
    <3>1. Charge' = queued + Cardinality(Spawning') + Put + throws
      BY <1>1, <2>1 DEF Charge, SpawnTasks
    <3>2. Charge = queued + n + Put + throws
      BY <1>7
    <3>3. queued \in Nat /\ Put \in Nat /\ throws \in Nat
      BY <1>2, <1>7
    <3> DEFINE k == Cardinality(Spawning')
    <3>4. n = k + 1 /\ k \in Nat /\ Charge' = queued + k + Put + throws
      BY <2>2, <3>1
    <3> HIDE DEF n, k
    <3> QED
      BY <3>2, <3>3, <3>4
  <2>4. Len(m_idle_machines') \in {idle, idle + 1}
    BY <1>6 DEF spawn_one, TypeOK
  <2>5. warming' = Wrap(Charge' - faults')
    <3>1. /\ Charge - faults \in Int /\ 1 - Word < Charge - faults
          /\ Charge - faults < Word - 1
      BY <1>2
    <3>2. Dec(warming) = Wrap(Charge - faults - 1)
      BY <1>2, <3>1, WrapSteps
    <3> QED
      BY <1>1, <1>2, <2>1, <2>3, <3>2
  <2>6. Provisioned' <= MaxConcurrency + faults'
    <3>1. Provisioned' = acquired + Len(m_idle_machines') + (Charge - 1)
      BY <1>1, <2>3 DEF Provisioned
    <3> QED
      BY <1>1, <1>2, <2>4, <3>1
  <2>7. WorkersBounded'
    BY <1>1, <1>2, <2>1, <2>2 DEF WorkersBounded
  <2> QED
    BY <1>1, <2>5, <2>6, <2>7, CountersFrame DEF SlotsBounded
<1>8. CASE spawn_throws(m)
  <2>1. /\ UNCHANGED <<warming, m_idle_machines, queued, busy>>
        /\ throws' = throws + 1 /\ vm[m] \in Warm /\ vm'[m] \notin Warm
    BY <1>8 DEF spawn_throws, VmStep, Warm, TypeOK
  <2>2. n = Cardinality(Spawning') + 1 /\ Cardinality(Spawning') \in Nat
    BY <1>3, <2>1, Zenon DEF Grows
  <2>3. Charge' = Charge
    <3> DEFINE k == Cardinality(Spawning')
    <3>1. n = k + 1 /\ k \in Nat /\ Charge' = queued + k + Put + (throws + 1)
      BY <1>1, <2>1, <2>2 DEF Charge, SpawnTasks
    <3>2. Charge = queued + n + Put + throws /\ queued \in Nat /\ Put \in Nat
          /\ throws \in Nat
      BY <1>2, <1>7
    <3> HIDE DEF n, k
    <3> QED
      BY <3>1, <3>2
  <2>4. CountersExact' /\ SlotsBounded'
    BY <1>1, <1>2, <2>1, <2>3, CountersFrame DEF SlotsBounded, Provisioned
  <2>5. WorkersBounded'
    BY <1>1, <1>2, <2>1, <2>2 DEF WorkersBounded
  <2> QED
    BY <2>4, <2>5
<1> QED
  BY <1>4, <1>5, <1>6, <1>8 DEF worker


\* Steps of the executor's bookkeeping and of the shutdown change no slot.
LEMMA OtherCounters ==
    ASSUME TypeOK, MachineExclusive, StopOrder,
           CountersExact, SlotsBounded, WorkersBounded,
           \/ worker_done \/ worker_return \/ worker_reaps_hollow
           \/ shutdown \/ stop \/ UNCHANGED vars
    PROVE  CountersExact' /\ SlotsBounded' /\ WorkersBounded'
<1> USE DEF counters, executor
<1>1. UNCHANGED <<acquiring, acquired, active, rpc, warming, queued, faults, throws, cpc>>
  BY DEF worker_done, worker_return, worker_reaps_hollow, shutdown, stop, stop_request,
         stop_join_control, stop_join_workers, stop_again_throws, destroy_pool, vars
<1>2. Spawning' = Spawning /\ Len(m_idle_machines') <= Len(m_idle_machines)
  <2>1. CASE destroy_pool
    <3>1. /\ \A m \in Machine : IF m \in Idle THEN vm'[m] \in {"absent", "left"}
                               ELSE vm'[m] = vm[m]
          /\ m_idle_machines' = <<>>
      BY <2>1 DEF destroy_pool
    <3>2. \A m \in Machine : vm'[m] \in Warm <=> vm[m] \in Warm
      BY <3>1 DEF MachineExclusive, Warm
    <3>3. Len(m_idle_machines') = 0 /\ Len(m_idle_machines) \in Nat
      BY <3>1 DEF TypeOK
    <3> QED
      BY <3>2, <3>3 DEF Spawning
  <2>2. CASE ~destroy_pool
    <3>1. UNCHANGED <<vm, m_idle_machines>>
      BY <2>2 DEF worker_done, worker_return, worker_reaps_hollow, shutdown, stop,
                  stop_request, stop_join_control, stop_join_workers, stop_again_throws, vars
    <3>2. Len(m_idle_machines) \in Nat
      BY DEF TypeOK
    <3> QED
      BY <3>1, <3>2 DEF Spawning
  <2> QED
    BY <2>1, <2>2
<1>3. Charge' = Charge
  BY <1>1, <1>2 DEF Charge, SpawnTasks, Put
<1>4. warming' = Wrap(Charge' - faults')
  BY <1>1, <1>3 DEF CountersExact
<1>5. CountersExact'
  BY <1>1, <1>4, CountersFrame
<1>6. SlotsBounded'
  <2>1. Len(m_idle_machines') \in Nat
    BY <1>1, <1>2, TypeStep DEF Next, TypeOK, ended
  <2>2. Provisioned' = acquired + Len(m_idle_machines') + Charge
    BY <1>1, <1>3 DEF Provisioned
  <2>3. faults' = faults
    BY <1>1
  <2> DEFINE j == Len(m_idle_machines')
             i == Len(m_idle_machines)
  <2>4. /\ j <= i /\ j \in Nat /\ i \in Nat /\ acquired \in Nat /\ Charge \in Nat
        /\ faults \in Nat /\ MaxConcurrency \in Nat
        /\ acquired + i + Charge <= MaxConcurrency + faults
        /\ Provisioned' = acquired + j + Charge
    BY <1>2, <2>1, <2>2, NumericFacts
  <2> HIDE DEF i, j
  <2>5. Provisioned' <= MaxConcurrency + faults
    BY <2>4
  <2> QED
    BY <2>3, <2>5 DEF SlotsBounded
<1>7. WorkersBounded'
  <2>1. CASE worker_done
    <3> DEFINE n == Cardinality(Spawning)
    <3>1. /\ n < busy /\ busy' = busy - 1
          /\ workers' = workers \/ workers' = workers - 1
      BY <2>1 DEF worker_done
    <3>2. /\ n \in Nat /\ busy \in Nat /\ workers \in Nat /\ returned \in Nat
          /\ returned' = returned /\ MaxConcurrency \in Nat
      BY <2>1, NumericFacts DEF worker_done
    <3>3. n <= busy /\ busy + returned <= workers /\ workers <= MaxConcurrency
      BY DEF WorkersBounded
    <3>4. n = Cardinality(Spawning')
      BY <1>2
    <3> HIDE DEF n
    <3>5. /\ n <= busy' /\ busy' + returned' <= workers' /\ workers' <= MaxConcurrency
      <4>1. workers' = workers => busy' + returned' <= workers' /\ workers' <= MaxConcurrency
        BY <3>1, <3>2, <3>3
      <4>2. workers' = workers - 1 => busy' + returned' <= workers' /\ workers' <= MaxConcurrency
        BY <3>1, <3>2, <3>3
      <4>3. n <= busy'
        BY <3>1, <3>2
      <4> QED
        BY <3>1, <4>1, <4>2, <4>3
    <3> QED
      BY <3>4, <3>5 DEF WorkersBounded
  <2>2. CASE worker_return
    <3>1. /\ UNCHANGED <<busy, workers>> /\ returned' = returned + 1
          /\ busy + returned < workers
      BY <2>2 DEF worker_return
    <3>2. busy \in Nat /\ returned \in Nat /\ workers \in Nat
      BY NumericFacts
    <3>3. busy' + returned' <= workers'
      BY <3>1, <3>2
    <3> QED
      BY <3>1, <3>3, <1>2 DEF WorkersBounded
  <2>3. CASE ~worker_done /\ ~worker_return
    <3>1. UNCHANGED <<busy, workers, returned>>
      BY <2>3 DEF worker_reaps_hollow, shutdown, stop, stop_request, stop_join_control,
                  stop_join_workers, stop_again_throws, destroy_pool, vars
    <3> QED
      BY <3>1, <1>2 DEF WorkersBounded
  <2> QED
    BY <2>1, <2>2, <2>3
<1> QED
  BY <1>5, <1>6, <1>7

-----------------------------------------------------------------------------
(* The inductive invariant.                                                *)

\* A pool that is gone holds no idle machine.
GoneIsEmpty == spc = "done" => m_idle_machines = <<>>

\* Conjuncts that are inductive together: the counters need to know which
\* threads still run, the owners that a stopped pool has no worker.
PoolInv ==
    /\ TypeOK
    /\ CountersExact
    /\ SlotsBounded
    /\ MachineExclusive
    /\ WorkersBounded
    /\ StopOrder
    /\ GoneIsEmpty

\* Once destroy_pool has emptied m_idle_machines nobody is left to fill it.
LEMMA GoneStep ==
    ASSUME TypeOK, WorkersBounded, StopOrder, GoneIsEmpty, [Next]_vars
    PROVE  GoneIsEmpty'
<1> USE DEF counters, executor, GoneIsEmpty
<1>1. ASSUME NEW r \in Runner, runner(r) PROVE GoneIsEmpty'
  BY <1>1 DEF runner, runner_exit, acquire_enter, acquire_fail, acquire_pop,
              activate, deactivate, release, drop_machine, StopOrder, RunnerAt
<1>2. ASSUME control_loop PROVE GoneIsEmpty'
  BY <1>2 DEF control_loop, control_stop, control_upscale, control_put,
              control_put_throws, control_backoff
<1>3. ASSUME NEW m \in Machine, worker(m) PROVE GoneIsEmpty'
  <2>1. CASE worker_take(m) \/ spawn_machine(m) \/ spawn_throws(m)
    BY <2>1 DEF worker_take, spawn_machine, spawn_throws
  <2>2. CASE spawn_one(m)
    <3>1. m \in Spawning
      BY <2>2 DEF spawn_one, VmStep, Spawning, Warm
    <3>2. Cardinality(Spawning) # 0
      BY <3>1, Sizes, FS_EmptySet
    <3>3. busy # 0
      BY <3>2, Sizes DEF WorkersBounded, TypeOK
    <3> QED
      BY <2>2, <3>3 DEF spawn_one, StopOrder
  <2> QED
    BY <1>3, <2>1, <2>2 DEF worker
<1>4. ASSUME \/ worker_done \/ worker_return \/ worker_reaps_hollow
             \/ shutdown \/ stop \/ UNCHANGED vars
      PROVE  GoneIsEmpty'
  BY <1>4 DEF worker_done, worker_return, worker_reaps_hollow, shutdown, stop, stop_request,
              stop_join_control, stop_join_workers, stop_again_throws, destroy_pool, vars
<1> QED
  BY <1>1, <1>2, <1>3, <1>4 DEF Next, ended

\* The pool starts empty, with all threads at their beginning.
LEMMA PoolInvInit == Init => PoolInv
<1> SUFFICES ASSUME Init PROVE PoolInv
  OBVIOUS
<1>1. TypeOK
  <2>1. 0 \in SizeT /\ 0 \in 0 .. MaxFaults /\ 0 \in 0 .. MaxThrows
    BY PoolAssumption DEF SizeT
  <2>2. <<>> \in Seq(Machine)
    OBVIOUS
  <2> QED
    BY <2>1, <2>2 DEF Init, TypeOK
<1>2. Spawning = {} /\ \A A : At(A) = {r \in Runner : "loop" \in A}
  BY DEF Init, Spawning, At, Warm
<1>3. /\ At({"acquire"}) = {} /\ At(Leasing) = {} /\ At({"active"}) = {}
  BY <1>2 DEF Leasing
<1>4. Charge = 0 /\ faults = 0 /\ Len(m_idle_machines) = 0
  BY <1>2, FS_EmptySet DEF Init, Charge, SpawnTasks, Put
<1>5. CountersExact
  <2>1. Wrap(Charge - faults) = 0
    BY <1>4, PoolAssumption DEF Wrap
  <2> QED
    BY <1>3, <2>1, FS_EmptySet DEF Init, CountersExact
<1>6. SlotsBounded
  BY <1>4, PoolAssumption DEF Init, SlotsBounded, Provisioned
<1>7. MachineExclusive
  BY <1>4, PoolAssumption DEF Init, MachineExclusive, Idle, Leasing
<1>8. WorkersBounded /\ StopOrder /\ GoneIsEmpty
  BY <1>2, FS_EmptySet, PoolAssumption DEF Init, WorkersBounded, StopOrder, GoneIsEmpty
<1> QED
  BY <1>1, <1>5, <1>6, <1>7, <1>8 DEF PoolInv

\* Every step of every thread preserves the invariant.
LEMMA PoolInvStep == PoolInv /\ [Next]_vars => PoolInv'
<1> SUFFICES ASSUME PoolInv, [Next]_vars PROVE PoolInv'
  OBVIOUS
<1> USE DEF PoolInv
<1>1. TypeOK'
  BY TypeStep
<1>2. MachineExclusive'
  BY OwnershipStep
<1>3. StopOrder'
  BY StopOrderStep
<1>4. GoneIsEmpty'
  BY GoneStep
<1>5. CountersExact' /\ SlotsBounded' /\ WorkersBounded'
  BY RunnerCounters, ControlCounters, WorkerCounters, OtherCounters
     DEF Next, ended
<1> QED
  BY <1>1, <1>2, <1>3, <1>4, <1>5

-----------------------------------------------------------------------------
(* Theorems.                                                               *)

\* The inductive invariant holds in every reachable state of the pool.
THEOREM PoolInvariant == Spec => []PoolInv
<1> USE DEF Spec
<1> QED
  BY PoolInvInit, PoolInvStep, PTL

\* The pool's variables keep their types; size_t counters stay below Word.
THEOREM PoolTypeCorrect == Spec => []TypeOK
<1>1. PoolInv => TypeOK
  BY DEF PoolInv
<1> QED
  BY <1>1, PoolInvariant, PTL

\* acquiring, acquired, active and warming count what they are named for.
THEOREM PoolCountersExact == Spec => []CountersExact
<1>1. PoolInv => CountersExact
  BY DEF PoolInv
<1> QED
  BY <1>1, PoolInvariant, PTL

\* The pool provisions at most max_concurrency machines, plus one for every
\* time put threw after pushing its task, less one for every throwing spawn.
THEOREM PoolSlotsBounded == Spec => []SlotsBounded
<1>1. PoolInv => SlotsBounded
  BY DEF PoolInv
<1> QED
  BY <1>1, PoolInvariant, PTL

\* Every machine that came out of spawn_one has exactly one owner.
THEOREM PoolMachineExclusive == Spec => []MachineExclusive
<1>1. PoolInv => MachineExclusive
  BY DEF PoolInv
<1> QED
  BY <1>1, PoolInvariant, PTL

\* When the pool has been destroyed no spawn task is left, and no domain but
\* those of failed spawns and kills; a process that stop ended leaves, besides
\* them, what was idle or being spawned, and nothing a runner had.
THEOREM PoolLeftAtExit == Spec => []LeftAtExit
<1>1. ASSUME PoolInv, spc \in {"done", "terminated"}
      PROVE  Live \subseteq Left \cup Idle \cup Spawning
  <2>1. \A r \in Runner : held[r] = NoMachine
    BY <1>1 DEF PoolInv, StopOrder, MachineExclusive, Leasing
  <2>2. \A m \in Machine : vm[m] = "pooled" => m \in Idle
    BY <1>1, <2>1, PoolAssumption DEF PoolInv, MachineExclusive
  <2> QED
    BY <2>2 DEF Live, Left, Spawning, Warm
<1>2. ASSUME PoolInv, spc = "done" PROVE Idle = {} /\ Spawning = {}
  <2>1. Cardinality(Spawning) = 0
    BY <1>2, Sizes DEF PoolInv, StopOrder, WorkersBounded, TypeOK
  <2>2. Spawning = {}
    BY <1>2, <2>1, Sizes, FS_EmptySet DEF PoolInv
  <2> QED
    BY <1>2, <2>2 DEF PoolInv, GoneIsEmpty, Idle
<1>3. Left \subseteq Live
  BY DEF Left, Live
<1>4. PoolInv => LeftAtExit
  BY <1>1, <1>2, <1>3 DEF LeftAtExit
<1> QED
  BY <1>4, PoolInvariant, PTL

-----------------------------------------------------------------------------
(* Which pools may end the process.                                        *)

\* With one worker at most, nobody is without a task once nothing is queued.
NoSpare ==
    /\ workers <= busy + queued
    /\ spc # "terminated"
    /\ spc \in {"destroying", "done"} => workers = 0
    /\ returned = 0
    /\ hollow => queued = 0 /\ spc \notin {"running", "joining"}

\* A template with max_concurrency = 1 is always shut down in order: its only
\* worker dies after its last task, so that no entry whose thread was moved away
\* is left to be joined, and there is nobody else to reap it.
THEOREM OneWorkerNeverTerminates ==
    ASSUME MaxConcurrency = 1
    PROVE  Spec => [](spc # "terminated")
<1> USE DEF counters, executor
<1>1. Init => NoSpare
  BY DEF Init, NoSpare
<1>2. ASSUME PoolInv, NoSpare, [Next]_vars PROVE NoSpare'
  <2>1. /\ queued \in Nat /\ busy \in Nat /\ workers \in Nat /\ returned = 0
        /\ busy <= workers /\ workers <= 1 /\ workers <= busy + queued
    BY <1>2 DEF PoolInv, TypeOK, WorkersBounded, NoSpare
  <2>2. ASSUME NEW r \in Runner, runner(r) PROVE NoSpare'
    BY <1>2, <2>2 DEF runner, runner_exit, acquire_enter, acquire_fail, acquire_pop,
                      activate, deactivate, release, drop_machine, NoSpare
  <2>3. CASE control_stop \/ control_upscale \/ control_backoff
    BY <1>2, <2>3 DEF control_stop, control_upscale, control_backoff, NoSpare
  <2>4. CASE control_put \/ control_put_throws
    <3>1. spc \in {"running", "joining"}
      BY <1>2, <2>4 DEF control_put, control_put_throws, PoolInv, StopOrder, TypeOK
    <3>2. /\ UNCHANGED <<spc, returned, hollow, busy>> /\ queued' = queued + 1
          /\ workers' <= 1 /\ workers' \in Nat
      BY <2>1, <2>4 DEF control_put, control_put_throws, NeedsWorker
    <3>3. workers' <= busy' + queued'
      BY <2>1, <3>2
    <3> QED
      BY <1>2, <3>1, <3>2, <3>3 DEF NoSpare
  <2>5. ASSUME NEW m \in Machine, worker(m) PROVE NoSpare'
    <3>1. CASE worker_take(m)
      <4>1. /\ UNCHANGED <<spc, returned, hollow, workers>> /\ queued' = queued - 1
            /\ queued > 0 /\ busy' = busy + 1 /\ spc \notin {"destroying", "done"}
        BY <3>1 DEF worker_take
      <4>2. workers' <= busy' + queued'
        BY <2>1, <4>1
      <4> QED
        BY <1>2, <4>1, <4>2 DEF NoSpare
    <3>2. CASE spawn_machine(m) \/ spawn_one(m) \/ spawn_throws(m)
      BY <1>2, <3>2 DEF spawn_machine, spawn_one, spawn_throws, NoSpare
    <3> QED
      BY <2>5, <3>1, <3>2 DEF worker
  <2>6. CASE worker_done
    <3>1. /\ UNCHANGED <<spc, returned, queued>> /\ busy' = busy - 1 /\ busy > 0
          /\ workers' = IF queued = 0 THEN workers - 1 ELSE workers
          /\ hollow' => hollow \/ (queued = 0 /\ spc = "draining")
      BY <1>2, <2>6, Sizes DEF worker_done, PoolInv, TypeOK
    <3>2. workers' <= busy' + queued' /\ workers > 0
      BY <2>1, <3>1
    <3> QED
      BY <1>2, <3>1, <3>2 DEF NoSpare
  <2>7. CASE worker_return \/ worker_reaps_hollow
    <3>1. busy < workers
      BY <2>1, <2>7 DEF worker_return, worker_reaps_hollow
    <3>2. queued > 0
      BY <2>1, <3>1
    <3> QED
      BY <1>2, <2>7, <3>2 DEF worker_return, worker_reaps_hollow, NoSpare
  <2>8. CASE shutdown \/ stop \/ UNCHANGED vars
    BY <1>2, <2>8 DEF shutdown, stop, stop_request, stop_join_control, stop_join_workers,
                      stop_again_throws, destroy_pool, vars, NoSpare
  <2> QED
    BY <1>2, <2>2, <2>3, <2>4, <2>5, <2>6, <2>7, <2>8 DEF Next, control_loop, ended
<1>3. NoSpare => spc # "terminated"
  BY DEF NoSpare
<1> QED
  BY <1>1, <1>2, <1>3, PoolInvariant, PTL DEF Spec
-----------------------------------------------------------------------------
(* Domains on the hypervisor.                                              *)

\* A set that a function enumerates is no larger than what it enumerates from.
LEMMA ImageSize ==
    ASSUME NEW S, NEW f, IsFiniteSet(S)
    PROVE  /\ IsFiniteSet({f[x] : x \in S})
           /\ Cardinality({f[x] : x \in S}) <= Cardinality(S)
<1> DEFINE T == {f[x] : x \in S}
           g == [x \in S |-> f[x]]
<1>1. g \in Surjection(S, T)
  BY DEF Surjection
<1> QED
  BY <1>1, FS_Surjection

\* The machines that the runners in some states hold.
HeldAt(states) == {held[r] : r \in At(states)}

\* The pool's sequence and counters bound the sets of machines behind them.
LEMMA OwnedSizes ==
    ASSUME TypeOK, NEW states
    PROVE  /\ IsFiniteSet(Idle) /\ Cardinality(Idle) <= Len(m_idle_machines)
           /\ IsFiniteSet(HeldAt(states))
           /\ Cardinality(HeldAt(states)) <= Cardinality(At(states))
<1>1. Len(m_idle_machines) \in Nat
  BY DEF TypeOK
<1>2. /\ IsFiniteSet(1 .. Len(m_idle_machines))
      /\ Cardinality(1 .. Len(m_idle_machines)) = Len(m_idle_machines)
  <2> DEFINE n == Len(m_idle_machines)
  <2>1. 1 \in Int /\ n \in Int
    BY <1>1
  <2> HIDE DEF n
  <2>2. /\ IsFiniteSet(1 .. n)
        /\ Cardinality(1 .. n) = IF 1 > n THEN 0 ELSE n - 1 + 1
    BY <2>1, FS_Interval
  <2> QED
    BY <1>1, <2>2 DEF n
<1>3. IsFiniteSet(Idle) /\ Cardinality(Idle) <= Len(m_idle_machines)
  BY <1>2, ImageSize DEF Idle
<1>4. IsFiniteSet(At(states))
  BY PoolAssumption, FS_Subset DEF At
<1> QED
  BY <1>3, <1>4, ImageSize DEF HeldAt

\* Two sets together are no larger than the sum of their sizes.
LEMMA UnionSize ==
    ASSUME NEW S, NEW T, IsFiniteSet(S), IsFiniteSet(T)
    PROVE  /\ IsFiniteSet(S \cup T)
           /\ Cardinality(S \cup T) <= Cardinality(S) + Cardinality(T)
<1>1. IsFiniteSet(S \cap T)
  BY FS_Intersection
<1>2. Cardinality(S \cap T) \in Nat /\ Cardinality(S) \in Nat /\ Cardinality(T) \in Nat
  BY <1>1, FS_CardinalityType
<1>3. /\ IsFiniteSet(S \cup T)
      /\ Cardinality(S \cup T) = Cardinality(S) + Cardinality(T) - Cardinality(S \cap T)
  BY FS_Union
<1> QED
  BY <1>2, <1>3

\* The machines warming, idle and leased fit in the slots that are not queued.
LEMMA ChargedSize ==
    ASSUME PoolInv
    PROVE  LET C == Spawning \cup Idle \cup HeldAt(Leasing) IN
           /\ IsFiniteSet(C)
           /\ Cardinality(C) \in Nat
           /\ Cardinality(C) + queued <= MaxConcurrency + faults
<1> DEFINE C == Spawning \cup Idle \cup HeldAt(Leasing)
<1> USE DEF PoolInv
<1>1. /\ IsFiniteSet(Spawning) /\ IsFiniteSet(Idle) /\ IsFiniteSet(HeldAt(Leasing))
      /\ Cardinality(Idle) <= Len(m_idle_machines)
      /\ Cardinality(HeldAt(Leasing)) <= acquired
  BY OwnedSizes, Sizes DEF CountersExact
<1>2. /\ Cardinality(Spawning) \in Nat /\ Cardinality(Idle) \in Nat
      /\ Cardinality(HeldAt(Leasing)) \in Nat
  BY <1>1, FS_CardinalityType
<1>3. /\ IsFiniteSet(Spawning \cup Idle)
      /\ Cardinality(Spawning \cup Idle) <= Cardinality(Spawning) + Cardinality(Idle)
  BY <1>1, UnionSize
<1>4. /\ IsFiniteSet(C)
      /\ Cardinality(C) <= Cardinality(Spawning \cup Idle) + Cardinality(HeldAt(Leasing))
  BY <1>1, <1>3, UnionSize
<1>5. Cardinality(C) \in Nat /\ Cardinality(Spawning \cup Idle) \in Nat
  BY <1>3, <1>4, FS_CardinalityType
<1>6. acquired + Len(m_idle_machines) + (queued + Cardinality(Spawning) + Put + throws)
        <= MaxConcurrency + faults
  BY DEF SlotsBounded, Provisioned, Charge, SpawnTasks
<1>7. /\ acquired \in Nat /\ queued \in Nat /\ throws \in Nat /\ faults \in Nat
      /\ Len(m_idle_machines) \in Nat /\ Put \in Nat /\ MaxConcurrency \in Nat
  BY PoolAssumption DEF TypeOK, SizeT, Put
<1> HIDE DEF C
<1>8. Cardinality(C) + queued <= MaxConcurrency + faults
  BY <1>1, <1>2, <1>3, <1>4, <1>5, <1>6, <1>7
<1> QED
  BY <1>4, <1>5, <1>8 DEF C

\* Besides the slots only a runner that has released its machine and not yet
\* dropped it keeps a domain alive, and a spawn or a kill that failed.
THEOREM PoolLiveBounded == Spec => []LiveBounded
<1>1. ASSUME PoolInv PROVE LiveBounded
  <2> USE <1>1 DEF PoolInv
  <2> DEFINE C == Spawning \cup Idle \cup HeldAt(Leasing)
             D == HeldAt({"released"})
             L == Left
             R == At({"released"})
  <2>1. Live \subseteq (C \cup D) \cup L
    BY PoolAssumption DEF MachineExclusive, Live, Left, Spawning, Warm, HeldAt, At, Leasing
  <2>2. IsFiniteSet(C) /\ Cardinality(C) \in Nat /\ Cardinality(C) + queued <= MaxConcurrency + faults
    BY ChargedSize
  <2>3. IsFiniteSet(D) /\ Cardinality(D) <= Cardinality(R)
    BY OwnedSizes
  <2>4. IsFiniteSet(C \cup D) /\ Cardinality(C \cup D) <= Cardinality(C) + Cardinality(D)
    BY <2>2, <2>3, UnionSize
  <2>5. IsFiniteSet(L)
    BY PoolAssumption, FS_Subset DEF Left
  <2>6. /\ IsFiniteSet((C \cup D) \cup L)
        /\ Cardinality((C \cup D) \cup L) <= Cardinality(C \cup D) + Cardinality(L)
    BY <2>4, <2>5, UnionSize
  <2>7. IsFiniteSet(Live) /\ Cardinality(Live) <= Cardinality((C \cup D) \cup L)
    BY <2>1, <2>6, FS_Subset
  <2>8. IsFiniteSet(R)
    BY PoolAssumption, FS_Subset DEF At
  <2>9. /\ Cardinality(Live) \in Nat /\ Cardinality(C \cup D) \in Nat
        /\ Cardinality(D) \in Nat /\ Cardinality(R) \in Nat /\ Cardinality(L) \in Nat
        /\ Cardinality((C \cup D) \cup L) \in Nat
    BY <2>3, <2>4, <2>5, <2>6, <2>7, <2>8, FS_CardinalityType
  <2>10. queued \in Nat /\ faults \in Nat /\ MaxConcurrency \in Nat
    BY PoolAssumption DEF TypeOK
  <2>11. Cardinality(Live) <= MaxConcurrency + faults + Cardinality(R) + Cardinality(L)
    <3> HIDE DEF C, D, L, R
    <3> QED
      BY <2>2, <2>3, <2>4, <2>6, <2>7, <2>9, <2>10
  <2> QED
    BY <2>11 DEF LiveBounded
<1> QED
  BY <1>1, PoolInvariant, PTL

-----------------------------------------------------------------------------
(* The executor inside the pool.                                           *)

\* The pool's steps on queued, busy and workers are those of TaskExecutor: what
\* MachinePool assumes of its executor is what ExecRefinesCounts shows that
\* ThreadPoolExecutor provides.
THEOREM PoolUsesExecutor == Spec => ExecutorRefined
<1> USE DEF counters, executor, Executor!countVars
<1>1. Init => Executor!CountInit
  BY DEF Init, Executor!CountInit
<1>2. PoolInv /\ [Next]_vars => [Executor!CountNext]_<<queued, busy, workers>>
  <2> SUFFICES ASSUME PoolInv, [Next]_vars
               PROVE  Executor!CountNext \/ UNCHANGED <<queued, busy, workers>>
    OBVIOUS
  <2>1. ASSUME NEW r \in Runner, runner(r) PROVE UNCHANGED <<queued, busy, workers>>
    BY <2>1 DEF runner, runner_exit, acquire_enter, acquire_fail, acquire_pop,
                activate, deactivate, release, drop_machine
  <2>2. CASE control_stop \/ control_upscale \/ control_backoff
    BY <2>2 DEF control_stop, control_upscale, control_backoff
  <2>3. CASE control_put
    BY <2>3 DEF control_put, NeedsWorker, Executor!CountNext, Executor!Submit, Executor!Short
  <2>4. CASE control_put_throws
    BY <2>4 DEF control_put_throws, NeedsWorker, Executor!CountNext, Executor!SubmitFails,
                Executor!Short
  <2>5. ASSUME NEW m \in Machine, worker(m)
        PROVE  Executor!CountNext \/ UNCHANGED <<queued, busy, workers>>
    <3>1. CASE worker_take(m)
      <4>1. busy < workers
        BY <3>1 DEF worker_take, PoolInv, TypeOK
      <4> QED
        BY <3>1, <4>1 DEF worker_take, Executor!CountNext, Executor!Start
    <3>2. CASE spawn_machine(m) \/ spawn_one(m) \/ spawn_throws(m)
      BY <3>2 DEF spawn_machine, spawn_one, spawn_throws
    <3> QED
      BY <2>5, <3>1, <3>2 DEF worker
  <2>6. CASE worker_done
    <3>1. busy > 0 /\ workers > 0 /\ queued \in Nat
      BY <2>6, Sizes DEF PoolInv, TypeOK, WorkersBounded, worker_done
    <3> QED
      BY <2>6, <3>1 DEF worker_done, Executor!CountNext, Executor!Finish
  <2>7. CASE worker_return \/ worker_reaps_hollow \/ shutdown \/ stop \/ UNCHANGED vars
    BY <2>7 DEF worker_return, worker_reaps_hollow, shutdown, stop, stop_request,
                stop_join_control, stop_join_workers, stop_again_throws, destroy_pool, vars
  <2> QED
    BY <2>1, <2>2, <2>3, <2>4, <2>5, <2>6, <2>7 DEF Next, control_loop, ended
<1> QED
  BY <1>1, <1>2, PoolInvariant, PTL DEF Spec, ExecutorRefined, Executor!CountSpec

-----------------------------------------------------------------------------
(* The pool implements MachineLease.                                       *)

\* Who holds a machine, as MachineLease sees it.
LesseeView ==
    /\ leaseLessee \in [Machine -> Runner \cup {NoMachine}]
    /\ \A m \in Machine, r \in Runner : leaseLessee[m] = r <=> held[r] = m

\* The choice in leaseLessee is none: a machine is held once.
LEMMA LesseeUnique == PoolInv => LesseeView
<1> SUFFICES ASSUME PoolInv PROVE LesseeView
  OBVIOUS
<1>1. ASSUME NEW m \in Machine, NEW r \in Runner, held[r] = m PROVE leaseLessee[m] = r
  <2>1. \A q \in Runner : held[q] = m => q = r
    BY <1>1, PoolAssumption DEF PoolInv, MachineExclusive
  <2>2. (CHOOSE q \in Runner : held[q] = m) = r
    BY <1>1, <2>1
  <2> QED
    BY <1>1, <2>2 DEF leaseLessee
<1>2. ASSUME NEW m \in Machine, \A r \in Runner : held[r] # m
      PROVE  leaseLessee[m] = NoMachine
  BY <1>2 DEF leaseLessee
<1>3. leaseLessee = [m \in Machine |-> leaseLessee[m]]
  BY DEF leaseLessee
<1> QED
  BY <1>1, <1>2, <1>3, PoolAssumption DEF LesseeView

\* What the phase of a machine is made of, one case of leasePhase each.
PhaseView == \A m \in Machine :
    /\ vm[m] \in Warm <=> leasePhase[m] = "warming"
    /\ m \in Idle <=> leasePhase[m] = "idle"
    /\ (\E r \in Runner : held[r] = m /\ rpc[r] \in Leasing) <=> leasePhase[m] = "leased"
    /\ (\E r \in Runner : held[r] = m /\ rpc[r] = "released") <=> leasePhase[m] = "retired"
    /\ vm[m] = "absent" <=> leasePhase[m] = "none"
    /\ vm[m] = "left" <=> leasePhase[m] = "left"
    /\ leasePhase[m] \in {"warming", "idle", "leased", "retired", "left", "none"}

\* The cases of leasePhase exclude each other.
LEMMA PhaseCases == PoolInv => PhaseView
<1> SUFFICES ASSUME PoolInv, NEW m \in Machine
             PROVE  PhaseView!(m)
  BY DEF PhaseView
<1> USE PoolAssumption DEF PoolInv, Warm, Leasing
<1>1. /\ vm[m] \in Warm \cup {"absent", "pooled", "left"}
      /\ vm[m] = "pooled" <=> m \in Idle \/ \E r \in Runner : held[r] = m
  BY DEF TypeOK, MachineExclusive
<1>2. \A r \in Runner : held[r] = m =>
        /\ rpc[r] \in Leasing \cup {"released"}
        /\ m \notin Idle
        /\ \A q \in Runner : held[q] = m => q = r
  BY DEF MachineExclusive
<1>3. (\E r \in At(Leasing) : held[r] = m) <=> \E r \in Runner : held[r] = m /\ rpc[r] \in Leasing
  BY DEF At
<1>4. leasePhase[m] =
        IF vm[m] \in Warm THEN "warming"
        ELSE IF m \in Idle THEN "idle"
        ELSE IF \E r \in At(Leasing) : held[r] = m THEN "leased"
        ELSE IF vm[m] = "pooled" THEN "retired"
        ELSE IF vm[m] = "left" THEN "left"
        ELSE "none"
  BY DEF leasePhase
<1> QED
  BY <1>1, <1>2, <1>3, <1>4

\* A step that leaves owners and spawns where they are is not seen.
LEMMA LeaseFrame ==
    ASSUME UNCHANGED <<m_idle_machines, held>>,
           \A r \in Runner : rpc'[r] \in Leasing <=> rpc[r] \in Leasing,
           \A m \in Machine : /\ vm'[m] \in Warm <=> vm[m] \in Warm
                              /\ vm'[m] = "pooled" <=> vm[m] = "pooled"
                              /\ vm'[m] = "left" <=> vm[m] = "left"
    PROVE  UNCHANGED Abstract!leaseVars
<1>1. leaseLessee' = leaseLessee
  BY DEF leaseLessee
<1>2. At(Leasing)' = At(Leasing) /\ Idle' = Idle
  BY DEF At, Idle
<1>3. leasePhase' = leasePhase
  BY <1>2 DEF leasePhase
<1> QED
  BY <1>1, <1>3 DEF Abstract!leaseVars

\* What is in a queue to which one more was appended.
LEMMA AppendElements ==
    ASSUME NEW S, NEW q \in Seq(S), NEW x \in S, NEW y
    PROVE  (\E i \in 1 .. Len(Append(q, x)) : Append(q, x)[i] = y)
                <=> y = x \/ \E i \in 1 .. Len(q) : q[i] = y
<1> DEFINE a == Append(q, x)
<1>1. Len(q) \in Nat /\ Len(a) = Len(q) + 1 /\ a[Len(q) + 1] = x /\ \A i \in 1 .. Len(q) : a[i] = q[i]
  OBVIOUS
<1>2. (\E i \in 1 .. Len(a) : a[i] = y) <=> y = x \/ \E i \in 1 .. Len(q) : q[i] = y
  <2> HIDE DEF a
  <2> QED
    BY <1>1
<1> QED
  BY <1>2

\* What is in a queue whose head was taken.
LEMMA TailElements ==
    ASSUME NEW S, NEW q \in Seq(S), q # <<>>, NEW y, y # Head(q)
    PROVE  (\E i \in 1 .. Len(Tail(q)) : Tail(q)[i] = y) <=> \E i \in 1 .. Len(q) : q[i] = y
<1> DEFINE t == Tail(q)
<1>1. Len(q) \in Nat /\ Len(t) = Len(q) - 1 /\ q[1] = Head(q)
  OBVIOUS
<1>2. \A i \in 1 .. Len(t) : t[i] = q[i + 1] /\ i + 1 \in 1 .. Len(q)
  OBVIOUS
<1> HIDE DEF t
<1>3. ASSUME NEW i \in 1 .. Len(q), i # 1 PROVE i - 1 \in 1 .. Len(t) /\ t[i - 1] = q[i]
  <2>1. i - 1 \in 1 .. Len(t) /\ (i - 1) + 1 = i
    BY <1>1, <1>3
  <2> QED
    BY <1>2, <2>1
<1>4. (\E i \in 1 .. Len(t) : t[i] = y) <=> \E i \in 1 .. Len(q) : q[i] = y
  BY <1>1, <1>2, <1>3
<1> QED
  BY <1>4 DEF t

\* Every step of the pool is a step of MachineLease or is not seen.
LEMMA LeaseStep ==
    ASSUME PoolInv, PoolInv', LesseeView, LesseeView', PhaseView, PhaseView', [Next]_vars
    PROVE  Abstract!LeaseNext \/ UNCHANGED Abstract!leaseVars
<1> USE DEF counters, executor
<1> DEFINE Seen == Abstract!LeaseNext \/ UNCHANGED Abstract!leaseVars
<1>f. /\ leasePhase = [m \in Machine |-> leasePhase[m]]
      /\ leaseLessee = [m \in Machine |-> leaseLessee[m]]
      /\ leasePhase' = [m \in Machine |-> leasePhase'[m]]
      /\ leaseLessee' = [m \in Machine |-> leaseLessee'[m]]
  BY DEF leasePhase, leaseLessee
<1>1. ASSUME NEW r \in Runner, runner(r) PROVE Seen
  <2>1. CASE \/ runner_exit(r) \/ acquire_enter(r) \/ acquire_fail(r)
             \/ activate(r) \/ deactivate(r)
    BY <2>1, LeaseFrame DEF runner_exit, acquire_enter, acquire_fail, activate, deactivate,
                            RunnerAt, PoolInv, TypeOK, Leasing
  <2>2. CASE acquire_pop(r)
    <3> DEFINE m == Head(m_idle_machines)
    <3>1. m \in Machine /\ m \in Idle
      BY <2>2 DEF acquire_pop, PoolInv, TypeOK, Idle
    <3>2. /\ rpc[r] = "acquire" /\ held[r] = NoMachine
          /\ rpc' = [rpc EXCEPT ![r] = "held"] /\ held' = [held EXCEPT ![r] = m]
          /\ UNCHANGED vm
      BY <2>2, PoolAssumption DEF acquire_pop, RunnerAt, PoolInv, MachineExclusive, Leasing
    <3>3. \A n \in Machine : n # m => (n \in Idle' <=> n \in Idle)
      <4>1. /\ m_idle_machines \in Seq(Machine) /\ m_idle_machines # <<>>
            /\ m_idle_machines' = Tail(m_idle_machines)
        BY <2>2 DEF acquire_pop, PoolInv, TypeOK
      <4> SUFFICES ASSUME NEW n \in Machine, n # m PROVE n \in Idle' <=> n \in Idle
        OBVIOUS
      <4>2. n # Head(m_idle_machines)
        OBVIOUS
      <4>3. (\E i \in 1 .. Len(Tail(m_idle_machines)) : Tail(m_idle_machines)[i] = n)
              <=> \E i \in 1 .. Len(m_idle_machines) : m_idle_machines[i] = n
        <5> HIDE DEF m
        <5> QED
          BY ONLY <4>1, <4>2, TailElements
      <4> QED
        BY <4>1, <4>3 DEF Idle
    <3> HIDE DEF m
    <3>4. held'[r] = m /\ rpc'[r] \in Leasing /\ \A q \in Runner : q # r => held'[q] = held[q] /\ rpc'[q] = rpc[q]
      BY <3>2 DEF PoolInv, TypeOK, Leasing
    <3>5. leasePhase[m] = "idle" /\ leasePhase'[m] = "leased"
      BY <3>1, <3>4 DEF PhaseView
    <3>6. \A n \in Machine : n # m => leasePhase'[n] = leasePhase[n]
      BY <3>1, <3>2, <3>3, <3>4, PoolAssumption DEF PhaseView
    <3>7. leaseLessee'[m] = r /\ \A n \in Machine : leaseLessee[n] # r
      BY <3>1, <3>2, <3>4, PoolAssumption DEF LesseeView
    <3>8. \A n \in Machine : n # m => leaseLessee'[n] = leaseLessee[n]
      BY <3>1, <3>2, <3>4, <3>7, PoolAssumption DEF LesseeView
    <3>9. Abstract!Lease(r, m)
      BY <3>1, <3>5, <3>6, <3>7, <3>8, <1>f DEF Abstract!Lease
    <3> QED
      BY <3>1, <3>9 DEF Abstract!LeaseNext
  <2>3. CASE release(r)
    <3> DEFINE m == held[r]
    <3>1. /\ rpc[r] \in Leasing /\ rpc' = [rpc EXCEPT ![r] = "released"]
          /\ UNCHANGED <<vm, held, m_idle_machines>>
      BY <2>3 DEF release, RunnerAt, Leasing
    <3>2. m \in Machine
      BY <3>1, PoolAssumption DEF PoolInv, TypeOK, MachineExclusive, Leasing
    <3>3. Idle' = Idle /\ rpc'[r] = "released" /\ \A q \in Runner : q # r => rpc'[q] = rpc[q]
      BY <3>1 DEF Idle, PoolInv, TypeOK
    <3>4. \A q \in Runner : q # r => held[q] # m
      BY <3>2, PoolAssumption DEF PoolInv, MachineExclusive
    <3>5. leasePhase[m] = "leased" /\ leasePhase'[m] = "retired"
      BY <3>1, <3>2, <3>3 DEF PhaseView
    <3>6. \A n \in Machine : n # m => leasePhase'[n] = leasePhase[n]
      BY <3>1, <3>3 DEF PhaseView
    <3>7. leaseLessee[m] = r /\ leaseLessee' = leaseLessee
      BY <3>1, <3>2 DEF LesseeView, leaseLessee
    <3>8. Abstract!Retire(r, m)
      BY <3>2, <3>5, <3>6, <3>7, <1>f DEF Abstract!Retire
    <3> QED
      BY <3>2, <3>8 DEF Abstract!LeaseNext
  <2>4. CASE drop_machine(r)
    <3> DEFINE m == held[r]
    <3>1. /\ rpc[r] = "released" /\ rpc' = [rpc EXCEPT ![r] = "loop"]
          /\ held' = [held EXCEPT ![r] = NoMachine]
          /\ \E g \in {"absent", "left"} : vm' = [vm EXCEPT ![m] = g]
          /\ UNCHANGED m_idle_machines
      BY <2>4 DEF drop_machine, RunnerAt
    <3>2. m \in Machine
      BY <3>1, PoolAssumption DEF PoolInv, TypeOK, MachineExclusive, Leasing
    <3>3. /\ Idle' = Idle /\ held'[r] = NoMachine /\ vm'[m] \in {"absent", "left"}
          /\ \A q \in Runner : q # r => rpc'[q] = rpc[q] /\ held'[q] = held[q]
          /\ \A n \in Machine : n # m => vm'[n] = vm[n]
      BY <3>1, <3>2 DEF Idle, PoolInv, TypeOK
    <3>5. leasePhase[m] = "retired" /\ leasePhase'[m] \in {"none", "left"}
      BY <3>1, <3>2, <3>3 DEF PhaseView
    <3>6. \A n \in Machine : n # m => leasePhase'[n] = leasePhase[n]
      BY <3>1, <3>2, <3>3, PoolAssumption DEF PhaseView
    <3>4. \A q \in Runner : held'[q] # m
      BY <3>2, <3>3, PoolAssumption DEF PoolInv, MachineExclusive
    <3>7. leaseLessee'[m] = NoMachine
      BY <3>2, <3>4 DEF LesseeView
    <3>8. \A n \in Machine : n # m => leaseLessee'[n] = leaseLessee[n]
      BY <3>2, <3>3, PoolAssumption DEF LesseeView
    <3>9. Abstract!Destroy(m)
      BY <3>2, <3>5, <3>6, <3>7, <3>8, <1>f DEF Abstract!Destroy
    <3> QED
      BY <3>2, <3>9 DEF Abstract!LeaseNext
  <2> QED
    BY <1>1, <2>1, <2>2, <2>3, <2>4 DEF runner
<1>2. ASSUME \/ control_loop \/ worker_done \/ worker_return \/ worker_reaps_hollow
             \/ shutdown \/ UNCHANGED vars
      PROVE  Seen
  BY <1>2, LeaseFrame DEF control_loop, control_stop, control_upscale, control_put,
     control_put_throws, control_backoff, worker_done, worker_return, worker_reaps_hollow,
     shutdown, vars
<1>3. ASSUME NEW m \in Machine, worker(m) PROVE Seen
  <2>1. ASSUME UNCHANGED <<held, rpc>>,
               \A n \in Machine : n # m => vm'[n] = vm[n] /\ (n \in Idle' <=> n \in Idle)
        PROVE  /\ leaseLessee' = leaseLessee
               /\ leasePhase' = [leasePhase EXCEPT ![m] = leasePhase'[m]]
    <3>1. leaseLessee' = leaseLessee
      BY <2>1 DEF leaseLessee
    <3>2. \A n \in Machine : n # m => leasePhase'[n] = leasePhase[n]
      BY <2>1 DEF PhaseView
    <3> QED
      BY <3>1, <3>2, <1>f
  <2>2. CASE worker_take(m)
    <3>1. /\ UNCHANGED <<held, rpc, m_idle_machines>> /\ vm[m] = "absent"
          /\ vm' = [vm EXCEPT ![m] = "creating"] /\ queued > 0
      BY <2>2 DEF worker_take, VmStep
    <3>2. /\ Idle' = Idle /\ vm'[m] = "creating"
          /\ \A n \in Machine : n # m => vm'[n] = vm[n]
      BY <3>1 DEF Idle, PoolInv, TypeOK
    <3>3. leasePhase[m] = "none" /\ leasePhase'[m] = "warming"
      BY <3>1, <3>2 DEF PhaseView, Warm
    <3>4. Cardinality(Abstract!Charged) < MaxConcurrency + MaxFaults
      <4> DEFINE C == Spawning \cup Idle \cup HeldAt(Leasing)
      <4>1. IsFiniteSet(C) /\ Cardinality(C) \in Nat /\ Cardinality(C) + queued <= MaxConcurrency + faults
        BY ChargedSize
      <4>2. Abstract!Charged \subseteq C
        BY DEF Abstract!Charged, Abstract!In, PhaseView, Spawning, HeldAt, At
      <4>3. IsFiniteSet(Abstract!Charged) /\ Cardinality(Abstract!Charged) <= Cardinality(C)
        BY <4>1, <4>2, FS_Subset
      <4>4. Cardinality(Abstract!Charged) \in Nat
        BY <4>3, FS_CardinalityType
      <4>5. /\ queued \in Nat /\ queued > 0 /\ faults \in Nat /\ faults <= MaxFaults
            /\ MaxFaults \in Nat /\ MaxConcurrency \in Nat
        BY <3>1, PoolAssumption DEF PoolInv, TypeOK
      <4> HIDE DEF C
      <4> QED
        BY <4>1, <4>3, <4>4, <4>5
    <3>5. leaseLessee' = leaseLessee /\ leasePhase' = [leasePhase EXCEPT ![m] = "warming"]
      BY <2>1, <3>1, <3>2, <3>3
    <3>6. Abstract!Spawn(m)
      <4>1. Abstract!Cardinality(Abstract!Charged) = Cardinality(Abstract!Charged)
        BY DEF Abstract!Cardinality, Cardinality
      <4> QED
        BY <3>3, <3>4, <3>5, <4>1 DEF Abstract!Spawn
    <3> QED
      BY <3>6 DEF Abstract!LeaseNext
  <2>3. CASE spawn_machine(m)
    BY <2>3, LeaseFrame DEF spawn_machine, VmStep, PoolInv, TypeOK, Warm
  <2>4. CASE spawn_one(m)
    <3>1. /\ UNCHANGED <<held, rpc>> /\ vm[m] \in Warm /\ vm'[m] \notin Warm
          /\ \A n \in Machine : n # m => vm'[n] = vm[n]
      BY <2>4 DEF spawn_one, VmStep, PoolInv, TypeOK, Warm
    <3>2. \A n \in Machine : n # m => (n \in Idle' <=> n \in Idle)
      <4>1. /\ m_idle_machines \in Seq(Machine)
            /\ m_idle_machines' = Append(m_idle_machines, m) \/ UNCHANGED m_idle_machines
        BY <2>4 DEF spawn_one, PoolInv, TypeOK
      <4> SUFFICES ASSUME NEW n \in Machine, n # m PROVE n \in Idle' <=> n \in Idle
        OBVIOUS
      <4>2. (\E i \in 1 .. Len(Append(m_idle_machines, m)) : Append(m_idle_machines, m)[i] = n)
              <=> n = m \/ \E i \in 1 .. Len(m_idle_machines) : m_idle_machines[i] = n
        BY <4>1, AppendElements
      <4> QED
        BY <4>1, <4>2 DEF Idle
    <3>3. leasePhase[m] = "warming" /\ leasePhase' = [leasePhase EXCEPT ![m] = leasePhase'[m]] /\ leaseLessee' = leaseLessee
      BY <2>1, <3>1, <3>2 DEF PhaseView
    <3>4. \A r \in Runner : held[r] # m
      BY <3>1 DEF PoolInv, MachineExclusive, Warm
    <3>5. leasePhase'[m] \in {"idle", "none", "left"}
      BY <3>1, <3>4 DEF PhaseView
    <3>6. Abstract!Offer(m) \/ Abstract!Abandon(m)
      BY <3>3, <3>5 DEF Abstract!Offer, Abstract!Abandon
    <3> QED
      BY <3>6 DEF Abstract!LeaseNext
  <2>5. CASE spawn_throws(m)
    <3>1. /\ UNCHANGED <<held, rpc, m_idle_machines>> /\ vm[m] = "creating" /\ vm'[m] = "absent"
          /\ \A n \in Machine : n # m => vm'[n] = vm[n]
      BY <2>5 DEF spawn_throws, VmStep, PoolInv, TypeOK
    <3>2. Idle' = Idle
      BY <3>1 DEF Idle
    <3>3. leasePhase[m] = "warming" /\ leasePhase'[m] = "none"
      BY <3>1 DEF PhaseView, Warm
    <3>4. Abstract!Abandon(m)
      BY <2>1, <3>1, <3>2, <3>3 DEF Abstract!Abandon
    <3> QED
      BY <3>4 DEF Abstract!LeaseNext
  <2> QED
    BY <1>3, <2>2, <2>3, <2>4, <2>5 DEF worker
<1>4. ASSUME stop PROVE Seen
  <2>1. CASE stop_request \/ stop_join_control \/ stop_join_workers \/ stop_again_throws
    BY <2>1, LeaseFrame DEF stop_request, stop_join_control, stop_join_workers, stop_again_throws
  <2>2. CASE destroy_pool
    <3>1. PICK kept \in SUBSET Idle :
            vm' = [n \in Machine |-> IF n \in kept THEN "left"
                                    ELSE IF n \in Idle THEN "absent" ELSE vm[n]]
      BY <2>2 DEF destroy_pool
    <3>2. spc = "destroying" /\ UNCHANGED <<held, rpc>> /\ m_idle_machines' = <<>>
      BY <2>2 DEF destroy_pool
    <3>3. Spawning = {}
      BY <3>2, Sizes, FS_EmptySet DEF PoolInv, StopOrder, WorkersBounded, TypeOK
    <3>4. \A r \in Runner : held[r] = NoMachine
      BY <3>2 DEF PoolInv, StopOrder, MachineExclusive, Leasing
    <3>5. \A n \in Machine : leasePhase[n] \in {"none", "idle", "left"}
      BY <3>3, <3>4, PoolAssumption DEF PhaseView, Spawning
    <3>6. \A n \in Machine : vm'[n] = IF n \in kept \/ leasePhase[n] = "left" THEN "left"
                                    ELSE "absent"
      BY <3>1, <3>5 DEF PhaseView
    <3>7. \A n \in Machine : leasePhase'[n] = IF n \in kept \/ leasePhase[n] = "left" THEN "left"
                                            ELSE "none"
      BY <3>6 DEF PhaseView
    <3>8. leaseLessee' = leaseLessee
      BY <3>2 DEF leaseLessee
    <3>9. kept \cap Machine \in SUBSET Abstract!In("idle")
      BY DEF PhaseView, Abstract!In
    <3>10. leasePhase' = [n \in Machine |->
              IF n \in (kept \cap Machine) \cup Abstract!In("left") THEN "left" ELSE "none"]
      BY <3>7, <1>f DEF Abstract!In
    <3>11. Abstract!Discard
      BY <3>5, <3>8, <3>9, <3>10 DEF Abstract!Discard
    <3> QED
      BY <3>11 DEF Abstract!LeaseNext
  <2> QED
    BY <1>4, <2>1, <2>2 DEF stop
<1> QED
  BY <1>1, <1>2, <1>3, <1>4 DEF Next, ended

\* The pool implements MachineLease: a machine is leased once, to one runner
\* that has no other, is never offered again, and is destroyed afterwards or
\* left behind by a kill that failed; and spawns start only within max_concurrency and the faults of put.
THEOREM PoolRefinesLease == Spec => LeaseRefined
<1>1. Init => Abstract!LeaseInit
  BY PoolAssumption DEF Init, Abstract!LeaseInit, leasePhase, leaseLessee, Idle, At, Warm, Leasing
<1>2. PoolInv => LesseeView /\ PhaseView
  BY LesseeUnique, PhaseCases
<1>3. /\ PoolInv /\ PoolInv' /\ LesseeView /\ LesseeView' /\ PhaseView /\ PhaseView' /\ [Next]_vars
      => [Abstract!LeaseNext]_(Abstract!leaseVars)
  BY LeaseStep
<1> QED
  BY <1>1, <1>2, <1>3, PoolInvariant, PTL DEF Spec, LeaseRefined, Abstract!LeaseSpec
=============================================================================
