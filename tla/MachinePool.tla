----------------------------- MODULE MachinePool -----------------------------
(***************************************************************************)
(* The machine pool of one template (virt/src/machine_pool.cpp) with the   *)
(* threads that use it: the runner threads of app/src/core.cpp, the        *)
(* control thread, the executor's workers that spawn machines, and the     *)
(* thread that stops the pool.                                             *)
(*                                                                         *)
(* One action is one critical section of m_mutex, cut where check_stats    *)
(* unlocks it around the statistics callback.  check_stats keeps the lock  *)
(* when nothing changed; cutting there all the same only adds the          *)
(* interleaving in which the other thread came first.  All waits are timed *)
(* and re-evaluate their condition, so notifications are about latency     *)
(* only: a waiting thread may look at any moment.                          *)
(***************************************************************************)
EXTENDS Integers, Sequences, FiniteSets

CONSTANTS
    Runner,         \* runner threads, max_concurrency of them per template
    Machine,        \* identities of virtual machines
    NoMachine,      \* a null shared_ptr<Machine>
    IdleTarget,     \* m_idle_target
    MaxConcurrency, \* m_max_concurrency
    MaxFaults,      \* bound on the threads the system refuses to create
    MaxThrows,      \* bound on the spawns that end with an exception
    MaxLeft,        \* bound on the domains nobody destroys
    Word            \* 2^w for size_t of w bits

ASSUME PoolAssumption ==
    /\ IsFiniteSet(Runner) /\ IsFiniteSet(Machine)
    /\ NoMachine \notin Machine \cup Runner
    /\ IdleTarget \in Nat
    /\ MaxConcurrency \in Nat \ {0}
    /\ MaxFaults \in Nat /\ MaxThrows \in Nat /\ MaxLeft \in Nat
    /\ Cardinality(Runner) = MaxConcurrency
    /\ Word \in Nat
    /\ Word > 4 * (MaxConcurrency + MaxFaults + 1)

VARIABLES
    acquiring, acquired, active, warming,   \* m_machine_counters
    m_idle_machines,
    m_stats,
    m_stop,
    signalled,      \* the ShutdownSignal shared by all threads
    queued,         \* m_workers: spawn tasks in its queue
    busy,           \* m_workers: m_busy_count
    workers,        \* m_workers: m_workers.size()
    returned,       \* workers that returned because m_workers was stopped
    hollow,         \* m_dead_workers has an entry whose thread stop() moved away
    faults,         \* threads the system refused to create
    throws,         \* spawns that ended with an exception
    vm,             \* vm[m]: the spawn task of m, or m itself
    held,           \* held[r]: runner r's local variable machine
    rpc,            \* where runner r is
    cpc,            \* where the control thread is
    spc             \* where the thread that stops the pool is

counters == <<acquiring, acquired, active, warming>>
executor == <<queued, busy, workers, returned, hollow, faults, throws>>
vars == <<counters, m_idle_machines, m_stats, m_stop, signalled, executor,
          vm, held, rpc, cpc, spc>>

\* A machine's spawn task runs; "booting", "ready" and "stranded" have a domain.
Warm == {"creating", "booting", "ready", "failed", "stranded"}
\* Runner states between a successful acquire and release.
Leasing == {"held", "active", "used"}

SizeT == 0 .. (Word - 1)

TypeOK ==
    /\ acquiring \in SizeT /\ acquired \in SizeT
    /\ active \in SizeT /\ warming \in SizeT
    /\ m_idle_machines \in Seq(Machine)
    /\ m_stats \in [acquiring : SizeT, acquired : SizeT, active : SizeT,
                    warming : SizeT, idle : Nat]
    /\ m_stop \in BOOLEAN /\ signalled \in BOOLEAN
    /\ queued \in Nat /\ busy \in Nat /\ workers \in Nat
    /\ returned \in Nat /\ hollow \in BOOLEAN
    /\ faults \in 0 .. MaxFaults /\ throws \in 0 .. MaxThrows
    /\ vm \in [Machine -> Warm \cup {"absent", "pooled", "left"}]
    /\ held \in [Runner -> Machine \cup {NoMachine}]
    /\ rpc \in [Runner -> Leasing \cup {"loop", "acquire", "released", "exited"}]
    /\ cpc \in {"top", "put", "backoff", "done"}
    /\ spc \in {"running", "joining", "draining", "destroying", "done", "terminated"}

Init ==
    /\ acquiring = 0 /\ acquired = 0 /\ active = 0 /\ warming = 0
    /\ m_idle_machines = <<>>
    /\ m_stats = [acquiring |-> 0, acquired |-> 0, active |-> 0,
                  warming |-> 0, idle |-> 0]
    /\ m_stop = FALSE /\ signalled = FALSE
    /\ queued = 0 /\ busy = 0 /\ workers = 0 /\ returned = 0 /\ hollow = FALSE
    /\ faults = 0 /\ throws = 0
    /\ vm = [m \in Machine |-> "absent"]
    /\ held = [r \in Runner |-> NoMachine]
    /\ rpc = [r \in Runner |-> "loop"]
    /\ cpc = "top"
    /\ spc = "running"

-----------------------------------------------------------------------------
(* size_t arithmetic and the helpers of Impl.                              *)

Wrap(n) == IF n < 0 THEN n + Word ELSE IF n >= Word THEN n - Word ELSE n
Inc(n) == Wrap(n + 1)

Dec(n) == Wrap(n - 1)

\* Mutant: the shutdown signal is not consulted.
should_stop_deaf == m_stop

should_stop == m_stop \/ signalled

\* Mutant: machines still warming are not counted.
get_provisioned_count_ready == Wrap(acquired + Len(m_idle_machines))

get_provisioned_count == Wrap(acquired + Len(m_idle_machines) + warming)

\* Mutant: the maximum is forgotten.
want_upscale_uncapped == get_provisioned_count < IdleTarget + active

want_upscale ==
    /\ get_provisioned_count < IdleTarget + active
    /\ get_provisioned_count < MaxConcurrency

\* The snapshot the callback sees; provisioned is the sum of three fields.
check_stats ==
    m_stats' = [acquiring |-> acquiring', acquired |-> acquired',
                active |-> active', warming |-> warming',
                idle |-> Len(m_idle_machines')]

-----------------------------------------------------------------------------
(* A runner thread: runner_loop and the calls one iteration makes.         *)

RunnerAt(r, from, to) == rpc[r] = from /\ rpc' = [rpc EXCEPT ![r] = to]

runner_exit(r) ==
    /\ signalled
    /\ RunnerAt(r, "loop", "exited")
    /\ UNCHANGED <<counters, m_idle_machines, m_stats, m_stop, signalled,
                   executor, vm, held, cpc, spc>>

acquire_enter(r) ==
    /\ ~signalled
    /\ RunnerAt(r, "loop", "acquire")
    /\ acquiring' = Inc(acquiring)
    /\ UNCHANGED <<acquired, active, warming, m_idle_machines>>
    /\ check_stats
    /\ UNCHANGED <<m_stop, signalled, executor, vm, held, cpc, spc>>

\* Mutant: an early return without --acquiring.
acquire_fail_leaks(r) ==
    /\ should_stop \/ m_idle_machines = <<>>
    /\ RunnerAt(r, "acquire", "loop")
    /\ UNCHANGED <<counters, m_idle_machines, m_stats, m_stop, signalled,
                   executor, vm, held, cpc, spc>>

\* Shutdown, or three hours without an idle machine; no check_stats here.
acquire_fail(r) ==
    /\ should_stop \/ m_idle_machines = <<>>
    /\ RunnerAt(r, "acquire", "loop")
    /\ acquiring' = Dec(acquiring)
    /\ UNCHANGED <<acquired, active, warming, m_idle_machines, m_stats, m_stop,
                   signalled, executor, vm, held, cpc, spc>>

\* Mutant: the machine is taken from the front and not popped.
acquire_pop_keeps(r) ==
    /\ ~should_stop
    /\ m_idle_machines # <<>>
    /\ RunnerAt(r, "acquire", "held")
    /\ held' = [held EXCEPT ![r] = Head(m_idle_machines)]
    /\ acquiring' = Dec(acquiring)
    /\ acquired' = Inc(acquired)
    /\ UNCHANGED <<active, warming, m_idle_machines>>
    /\ check_stats
    /\ UNCHANGED <<m_stop, signalled, executor, vm, cpc, spc>>

acquire_pop(r) ==
    /\ ~should_stop
    /\ m_idle_machines # <<>>
    /\ RunnerAt(r, "acquire", "held")
    /\ held' = [held EXCEPT ![r] = Head(m_idle_machines)]
    /\ m_idle_machines' = Tail(m_idle_machines)
    /\ acquiring' = Dec(acquiring)
    /\ acquired' = Inc(acquired)
    /\ UNCHANGED <<active, warming>>
    /\ check_stats
    /\ UNCHANGED <<m_stop, signalled, executor, vm, cpc, spc>>

\* The runner fetched a task.
activate(r) ==
    /\ RunnerAt(r, "held", "active")
    /\ active' = Inc(active)
    /\ UNCHANGED <<acquiring, acquired, warming, m_idle_machines>>
    /\ check_stats
    /\ UNCHANGED <<m_stop, signalled, executor, vm, held, cpc, spc>>

\* The task ended; no check_stats here.
deactivate(r) ==
    /\ RunnerAt(r, "active", "used")
    /\ active' = Dec(active)
    /\ UNCHANGED <<acquiring, acquired, warming, m_idle_machines, m_stats,
                   m_stop, signalled, executor, vm, held, cpc, spc>>

\* machine_releaser: on an early return, or after deactivate.  The reset in
\* release drops a copy: the runner's own reference keeps the machine.
release(r) ==
    /\ RunnerAt(r, "held", "released") \/ RunnerAt(r, "used", "released")
    /\ acquired' = Dec(acquired)
    /\ UNCHANGED <<acquiring, active, warming, m_idle_machines>>
    /\ check_stats
    /\ UNCHANGED <<m_stop, signalled, executor, vm, held, cpc, spc>>

Idle == {m_idle_machines[i] : i \in 1 .. Len(m_idle_machines)}

\* Domains that nobody will destroy, or that spawn_one is about to forget.
Forsaken == {m \in Machine : vm[m] \in {"stranded", "left"}}

\* The runner's last reference goes out of scope: ~Impl kills the domain and
\* ignores a failure to do so.
drop_machine(r) ==
    /\ RunnerAt(r, "released", "loop")
    /\ \/ vm' = [vm EXCEPT ![held[r]] = "absent"]
       \/ /\ Cardinality(Forsaken) < MaxLeft
          /\ vm' = [vm EXCEPT ![held[r]] = "left"]
    /\ held' = [held EXCEPT ![r] = NoMachine]
    /\ UNCHANGED <<counters, m_idle_machines, m_stats, m_stop, signalled,
                   executor, cpc, spc>>

-----------------------------------------------------------------------------
(* The control thread.                                                     *)

control_stop ==
    /\ cpc = "top"
    /\ should_stop
    /\ m_stop' = TRUE
    /\ cpc' = "done"
    /\ UNCHANGED <<counters, m_idle_machines, m_stats, signalled, executor,
                   vm, held, rpc, spc>>

\* add_spawner up to the unlock in check_stats.
control_upscale ==
    /\ cpc = "top"
    /\ ~should_stop
    /\ want_upscale
    /\ warming' = Inc(warming)
    /\ cpc' = "put"
    /\ UNCHANGED <<acquiring, acquired, active, m_idle_machines>>
    /\ check_stats
    /\ UNCHANGED <<m_stop, signalled, executor, vm, held, rpc, spc>>

\* ThreadPoolExecutor::put wants one more on-demand worker.
NeedsWorker ==
    /\ queued + 1 > workers - busy
    /\ workers < MaxConcurrency

\* Mutant: the task is not submitted, though warming was counted.
control_put_loses ==
    /\ cpc = "put"
    /\ cpc' = "top"
    /\ UNCHANGED <<counters, m_idle_machines, m_stats, m_stop, signalled,
                   executor, vm, held, rpc, spc>>

control_put ==
    /\ cpc = "put"
    /\ queued' = queued + 1
    /\ workers' = IF NeedsWorker THEN workers + 1 ELSE workers
    /\ cpc' = "top"
    /\ UNCHANGED <<counters, m_idle_machines, m_stats, m_stop, signalled,
                   busy, returned, hollow, faults, throws, vm, held, rpc, spc>>

\* add_worker throws because no thread can be created: the task was pushed
\* before, and stays queued.
control_put_throws ==
    /\ cpc = "put"
    /\ NeedsWorker
    /\ faults < MaxFaults
    /\ faults' = faults + 1
    /\ queued' = queued + 1
    /\ warming' = Dec(warming)
    /\ cpc' = "backoff"
    /\ UNCHANGED <<acquiring, acquired, active, m_idle_machines>>
    /\ check_stats
    /\ UNCHANGED <<m_stop, signalled, busy, workers, returned, hollow, throws, vm,
                   held, rpc, spc>>

control_backoff ==
    /\ cpc = "backoff"
    /\ cpc' = "top"
    /\ UNCHANGED <<counters, m_idle_machines, m_stats, m_stop, signalled,
                   executor, vm, held, rpc, spc>>

-----------------------------------------------------------------------------
(* A worker of the executor runs spawn_one.                                *)

VmStep(m, from, to) == vm[m] \in from /\ vm' = [vm EXCEPT ![m] = to]

worker_take(m) ==
    /\ queued > 0
    /\ busy + returned < workers
    /\ spc \notin {"destroying", "done", "terminated"}
    /\ VmStep(m, {"absent"}, "creating")
    /\ queued' = queued - 1
    /\ busy' = busy + 1
    /\ UNCHANGED <<counters, m_idle_machines, m_stats, m_stop, signalled, workers,
                   returned, hollow, faults, throws, held, rpc, cpc, spc>>

\* spawn_machine: the backend creates the domain, then the machine boots
\* until its guest agent and its network answer.  After an error, a timeout or
\* the shutdown signal the domain is gone, or it is stranded: the backend fails
\* between virDomainCreateXML and the machine that would own the domain, or
\* the machine's destructor ignores that it cannot kill it.
spawn_machine(m) ==
    /\ spc # "terminated"
    /\ \/ VmStep(m, {"creating"}, "booting")
       \/ VmStep(m, {"booting"}, "ready")
       \/ VmStep(m, {"creating", "booting"}, "failed")
       \/ Cardinality(Forsaken) < MaxLeft /\ VmStep(m, {"booting"}, "stranded")
    /\ UNCHANGED <<counters, m_idle_machines, m_stats, m_stop, signalled,
                   executor, held, rpc, cpc, spc>>

spawn_one(m) ==
    /\ spc # "terminated"
    /\ \/ /\ VmStep(m, {"ready"}, "pooled")
          /\ m_idle_machines' = Append(m_idle_machines, m)
       \/ /\ VmStep(m, {"failed"}, "absent") \/ VmStep(m, {"stranded"}, "left")
          /\ UNCHANGED m_idle_machines
    /\ warming' = Dec(warming)
    /\ UNCHANGED <<acquiring, acquired, active>>
    /\ check_stats
    /\ UNCHANGED <<m_stop, signalled, executor, held, rpc, cpc, spc>>

\* The spawner throws before there is a domain (a template file that cannot be
\* read, backend.cpp): spawn_one ends before --warming, and the worker ignores
\* the exception.
spawn_throws(m) ==
    /\ spc # "terminated"
    /\ throws < MaxThrows
    /\ throws' = throws + 1
    /\ VmStep(m, {"creating"}, "absent")
    /\ UNCHANGED <<counters, m_idle_machines, m_stats, m_stop, signalled,
                   queued, busy, workers, returned, hollow, faults, held, rpc, cpc,
                   spc>>

Spawning == {m \in Machine : vm[m] \in Warm}

\* Mutant: a worker leaves after every task.
worker_done_leaves ==
    /\ spc # "terminated"
    /\ busy > Cardinality(Spawning)
    /\ busy' = busy - 1
    /\ workers' = workers - 1
    /\ hollow' = (hollow \/ spc = "draining")
    /\ UNCHANGED <<counters, m_idle_machines, m_stats, m_stop, signalled, queued,
                   returned, faults, throws, vm, held, rpc, cpc, spc>>

\* After the task, a worker that finds the queue empty moves its entry from
\* m_workers to m_dead_workers.
worker_done ==
    /\ spc # "terminated"
    /\ busy > Cardinality(Spawning)
    /\ busy' = busy - 1
    /\ workers' = IF queued = 0 THEN workers - 1 ELSE workers
    /\ hollow' = (hollow \/ (queued = 0 /\ spc = "draining"))
    /\ UNCHANGED <<counters, m_idle_machines, m_stats, m_stop, signalled, queued,
                   returned, faults, throws, vm, held, rpc, cpc, spc>>

\* A worker without a task finds m_stop set and nothing queued.  Its entry
\* stays in m_workers, its thread is the one stop() moved away.
worker_return ==
    /\ spc = "draining"
    /\ queued = 0
    /\ busy + returned < workers
    /\ returned' = returned + 1
    /\ UNCHANGED <<counters, m_idle_machines, m_stats, m_stop, signalled, queued,
                   busy, workers, hollow, faults, throws, vm, held, rpc, cpc, spc>>

\* A worker that has not yet waited reaps the dead first.  Joining a thread
\* that stop() moved away throws out of worker_fn: std::terminate.
worker_reaps_hollow ==
    /\ spc = "draining"
    /\ hollow
    /\ busy + returned < workers
    /\ spc' = "terminated"
    /\ UNCHANGED <<counters, m_idle_machines, m_stats, m_stop, signalled,
                   executor, vm, held, rpc, cpc>>

-----------------------------------------------------------------------------
(* Shutdown: the last runner thread drops the TemplateState, which stops   *)
(* the pool and destroys it; ~Impl stops it once more.                     *)

shutdown ==
    /\ ~signalled
    /\ signalled' = TRUE
    /\ UNCHANGED <<counters, m_idle_machines, m_stats, m_stop, executor,
                   vm, held, rpc, cpc, spc>>

stop_request ==
    /\ spc = "running"
    /\ \A r \in Runner : rpc[r] = "exited"
    /\ m_stop' = TRUE
    /\ spc' = "joining"
    /\ UNCHANGED <<counters, m_idle_machines, m_stats, signalled, executor,
                   vm, held, rpc, cpc>>

\* From here on m_workers is stopped too, and its threads are moved away.
stop_join_control ==
    /\ spc = "joining"
    /\ cpc = "done"
    /\ spc' = "draining"
    /\ UNCHANGED <<counters, m_idle_machines, m_stats, m_stop, signalled,
                   executor, vm, held, rpc, cpc>>

\* m_workers.stop() returns once every worker died or returned; with no
\* worker at all it leaves what is queued.
stop_join_workers ==
    /\ spc = "draining"
    /\ busy = 0
    /\ workers = returned
    /\ spc' = "destroying"
    /\ UNCHANGED <<counters, m_idle_machines, m_stats, m_stop, signalled,
                   executor, vm, held, rpc, cpc>>

\* ~Impl: the second stop joins the thread of every entry of m_workers; those
\* left by worker_return have none, and the exception ends the process.
stop_again_throws ==
    /\ spc = "destroying"
    /\ workers > 0
    /\ spc' = "terminated"
    /\ UNCHANGED <<counters, m_idle_machines, m_stats, m_stop, signalled,
                   executor, vm, held, rpc, cpc>>

\* Mutant: the members are destroyed before the workers were joined.
destroy_pool_hasty ==
    /\ spc \in {"draining", "destroying"}
    /\ vm' = [m \in Machine |-> IF m \in Idle THEN "absent" ELSE vm[m]]
    /\ m_idle_machines' = <<>>
    /\ spc' = "done"
    /\ UNCHANGED <<counters, m_stats, m_stop, signalled, executor,
                   held, rpc, cpc>>

\* The second stop has nothing to join.  The members of Impl are destroyed,
\* m_idle_machines among them; a domain that cannot be killed stays.
destroy_pool ==
    /\ spc = "destroying"
    /\ workers = 0
    /\ \E kept \in SUBSET Idle :
        /\ kept = {} \/ Cardinality(Forsaken) + Cardinality(kept) <= MaxLeft
        /\ vm' = [m \in Machine |-> IF m \in kept THEN "left"
                                   ELSE IF m \in Idle THEN "absent" ELSE vm[m]]
    /\ m_idle_machines' = <<>>
    /\ spc' = "done"
    /\ UNCHANGED <<counters, m_stats, m_stop, signalled, executor,
                   held, rpc, cpc>>

\* Nothing is left to do for this template, or the process was terminated.
ended == spc \in {"done", "terminated"} /\ UNCHANGED vars

-----------------------------------------------------------------------------
runner(r) ==
    \/ runner_exit(r) \/ acquire_enter(r) \/ acquire_fail(r) \/ acquire_pop(r)
    \/ activate(r) \/ deactivate(r) \/ release(r) \/ drop_machine(r)

control_loop ==
    \/ control_stop \/ control_upscale \/ control_put \/ control_put_throws
    \/ control_backoff

worker(m) ==
    worker_take(m) \/ spawn_machine(m) \/ spawn_one(m) \/ spawn_throws(m)

stop ==
    \/ stop_request \/ stop_join_control \/ stop_join_workers
    \/ stop_again_throws \/ destroy_pool

Next ==
    \/ \E r \in Runner : runner(r)
    \/ control_loop
    \/ \E m \in Machine : worker(m)
    \/ worker_done \/ worker_return \/ worker_reaps_hollow
    \/ shutdown
    \/ stop
    \/ ended

Spec == Init /\ [][Next]_vars

\* Every thread that can step does, except where it may wait for the outside
\* world: a runner waits for a task while it is not told to stop, a booting
\* machine may have no network for as long, and acquire may wait three hours.
\* That a task ends is assumed of the guest.
Fairness ==
    /\ WF_vars(control_loop)
    /\ \A r \in Runner :
        /\ WF_vars(runner(r) /\ rpc[r] \in {"loop", "active", "used", "released"})
        /\ WF_vars(acquire_pop(r) \/ (should_stop /\ acquire_fail(r)))
        /\ WF_vars(signalled /\ release(r))
    /\ WF_vars(\E m \in Machine : worker_take(m))
    /\ \A m \in Machine :
        /\ WF_vars(spawn_machine(m) /\ (signalled \/ vm[m] = "creating"))
        /\ WF_vars(spawn_one(m))
    /\ WF_vars(worker_done)
    /\ WF_vars(worker_return \/ worker_reaps_hollow)
    /\ WF_vars(stop)

FairSpec == Spec /\ Fairness
-----------------------------------------------------------------------------
(* Properties.                                                             *)

At(states) == {r \in Runner : rpc[r] \in states}
Put == IF cpc = "put" THEN 1 ELSE 0

\* Spawn tasks submitted or about to be, and not yet through with spawn_one.
SpawnTasks == queued + Cardinality(Spawning) + Put

\* What warming is to count: the spawn tasks, and those that ended with an
\* exception, which nobody subtracts.
Charge == SpawnTasks + throws

\* What the pool takes itself to have provisioned.
Provisioned == acquired + Len(m_idle_machines) + Charge

\* The machines the pool answers for: leased, idle, or on their way.
Slots == acquired + Len(m_idle_machines) + SpawnTasks

\* Machines for which a domain exists on the hypervisor.
Live ==
    {m \in Machine : vm[m] \in {"booting", "ready", "stranded", "pooled", "left"}}

\* Domains that no thread of the program knows of any more.
Left == {m \in Machine : vm[m] = "left"}

\* Whenever m_mutex is free, the counters of MachineCounters count what they
\* are named for, whatever the order in which the runners, the control thread
\* and the workers changed them.  warming is short by one for every spawn task
\* that put left in the queue when it threw, and wraps below zero; it is over
\* by one for every spawn that ended with an exception.
CountersExact ==
    /\ acquiring = Cardinality(At({"acquire"}))
    /\ acquired = Cardinality(At(Leasing))
    /\ active = Cardinality(At({"active"}))
    /\ warming = Wrap(Charge - faults)

\* The pool never provisions beyond max_concurrency (want_upscale), apart from
\* one machine for every time put threw after it had pushed the task.  A spawn
\* that ended with an exception costs the pool a slot for good.
SlotsBounded == Provisioned <= MaxConcurrency + faults

\* How many domains can exist at once: besides the slots, every runner that
\* has called release and not yet dropped its reference keeps one alive, and
\* so does every spawn that failed and every kill that failed unnoticed.
LiveBounded ==
    Cardinality(Live) <= MaxConcurrency + faults + Cardinality(At({"released"}))
                           + Cardinality(Left)

\* No machine is idle twice, idle and held, or held by two runners, and no
\* domain that passed spawn_one is without an owner who will destroy it.
MachineExclusive ==
    /\ \A i, j \in 1 .. Len(m_idle_machines) :
        m_idle_machines[i] = m_idle_machines[j] => i = j
    /\ \A r \in Runner :
        /\ rpc[r] \in Leasing \cup {"released"} <=> held[r] # NoMachine
        /\ held[r] \notin Idle
        /\ \A q \in Runner : held[q] = held[r] /\ held[r] # NoMachine => q = r
    /\ \A m \in Machine :
        vm[m] = "pooled" <=> m \in Idle \/ \E r \in Runner : held[r] = m

\* Every running spawn has a worker of its own, and there are never more
\* workers than machines the pool may have, however the end of a task
\* (spawn_one, then the worker's own bookkeeping) interleaves with put.
WorkersBounded ==
    /\ Cardinality(Spawning) <= busy
    /\ busy + returned <= workers
    /\ workers <= MaxConcurrency

\* The pool is taken down in the order ~TemplateState relies on: first the
\* runners are gone, then the control thread, then the spawn tasks; nothing
\* uses the pool's members once they are destroyed.
StopOrder ==
    /\ spc # "running" => \A r \in Runner : rpc[r] = "exited"
    /\ spc \in {"draining", "destroying", "done", "terminated"} => cpc = "done"
    /\ spc \in {"destroying", "done"} => busy = 0

\* What is on the hypervisor when the pool is gone.  After an orderly end only
\* the domains of failed spawns and failed kills, whatever was queued, booting,
\* idle or leased when the signal came.  When a join of a thread that was moved
\* away ends the process inside stop, the idle and the spawning machines stay
\* as well; those the runners had are gone all the same.
LeftAtExit ==
    /\ spc = "done" => Live = Left /\ Spawning = {}
    /\ spc = "terminated" => Live \subseteq Left \cup Idle \cup Spawning

\* The number of machines want_upscale aims at, under the maximum.
Target ==
    IF IdleTarget + active < MaxConcurrency THEN IdleTarget + active
    ELSE MaxConcurrency

\* "The number of currently active machines plus another" (machine_pool.cpp,
\* comment on want_upscale): again and again the machines leased, idle or on
\* their way reach that number, or the maximum, until the signal to shut down or
\* until the counters are off for the first time.  After a thread that could not
\* be created (warming is short and wraps) or a spawner that threw (warming is
\* over) the pool may stay below the target for good.
KeepsAnotherUntilMiscounted ==
    []<>(signalled \/ faults + throws > 0 \/ Slots >= Target)

\* After the signal all threads of the template end, or a join of a moved-away
\* thread ends the process: no runner, worker or control thread waits for
\* another for ever.
ShutdownCompletes == signalled ~> spc \in {"done", "terminated"}

\* "Maximum concurrent machines" (sample_config/config.yaml, max_concurrency).
LiveWithinMax == Cardinality(Live) <= MaxConcurrency

-----------------------------------------------------------------------------
(* The pool implements MachineLease.                                       *)

leasePhase == [m \in Machine |->
    IF vm[m] \in Warm THEN "warming"
    ELSE IF m \in Idle THEN "idle"
    ELSE IF \E r \in At(Leasing) : held[r] = m THEN "leased"
    ELSE IF vm[m] = "pooled" THEN "retired"
    ELSE IF vm[m] = "left" THEN "left"
    ELSE "none"]

leaseLessee == [m \in Machine |->
    IF \E r \in Runner : held[r] = m
    THEN CHOOSE r \in Runner : held[r] = m ELSE NoMachine]

Abstract == INSTANCE MachineLease WITH
    Nobody <- NoMachine, Limit <- MaxConcurrency + MaxFaults,
    phase <- leasePhase, lessee <- leaseLessee

\* The pool keeps the promise of MachineLease: a machine is leased once, to
\* one runner, is never offered again, and is destroyed afterwards or left.
LeaseRefined == Abstract!LeaseSpec

\* What the pool assumes of its executor is what ThreadPoolExecutor provides:
\* the pool's own steps on queued, busy and workers are steps of TaskExecutor.
Executor == INSTANCE TaskExecutor WITH
    MinSize <- 0, MaxSize <- MaxConcurrency, size <- workers

ExecutorRefined == Executor!CountSpec
=============================================================================
