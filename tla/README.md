# A TLA+ model of gar-virt

gar-virt runs the jobs of a Gitea server in virtual machines.  For every machine
template it keeps a pool of booted machines; a runner registers with Gitea only
once it has a machine, executes one task in it, and the machine is destroyed.
The daemon is a set of threads that share locks, condition variables, reference
counts and a shutdown flag, and that talk to two services which may fail at any
call: Gitea over HTTP, and libvirt.  This directory models that part of the
program, checks it with TLC on small instances, and proves its safety with TLAPS
for instances of any size.

Paths below are relative to `src/modules/` unless they begin with `src/`.

## Inventory

| Component | State | Operations | Talks to |
|---|---|---|---|
| machine pool, `virt/src/machine_pool.cpp` | four `size_t` counters, queue of idle machines, last statistics, stop flag | `acquire`, `activate`, `deactivate`, `release`, `stop`, control loop, `spawn_one` | executor (spawn tasks), runner threads, statistics callback |
| thread pool executor, `utility/src/concurrency/thread_pool_executor.cpp` | task queue, busy count, workers, dead workers, stop and cancel flags, condition variable | `put`, `cancel`, `stop`, `worker_fn` | its clients |
| runner loop, `app/src/core.cpp` | locals of each runner thread: machine, `Runner`, task | `runner_loop`, `runner_loop_iteration`, `fetch_task`, `execute_task_in_machine`, `spawn_machine` | pool, Gitea runner, machine |
| daemon command, `app/src/commands.cpp` | runner threads and one `TemplateState` per template, shared with the threads | start the threads, drop the states, join | pool, runner loop |
| command line and configuration, `app/src/app_main.cpp`, `app/src/config.cpp` | options and configuration, fixed at start | parse, load, resolve the token | daemon command |
| Gitea runner and clients, `gitea/src` | a registration, its token | `connect`, `fetch_task`, `set_task_failed`, destructor | Gitea, over HTTP |
| shutdown signal, `utility/src/shutdown_signal.cpp` | one flag under a mutex | `install`, `signal`, `is_signalled` | everyone; runs as a signal handler on top of any thread |
| libvirt event loop, `EventLoopImpl` in `virt/src/libvirt/libvirt.cpp` | weak pointer to the shared instance, run state, thread, time-out | `get`, `start`, `run_loop`, `stop_loop`, destructor | libvirt, hypervisors |
| libvirt machine, `ConnectionImpl`, `HypervisorImpl`, `MachineImpl` there, and `virt/src/libvirt/backend.cpp` | connection, handlers, map of tracked machines, `m_quit`, `m_ready`, the volume and domain on the host | connect, `spawn`, boot waits, `kill`, handlers, destructors | libvirt, the guest agent |
| guest side of a machine, `write_file` and `shell_exec` there | an open handle, an error, the command's pid | open, write, close, exec, poll for the status | the guest agent, and through it the command |
| Base64, `utility/include/utility/encoding/base64.hpp` | none | encode, decode | `write_file`, `shell_exec` |
| strings and paths, `utility/src/string.cpp` and small helpers elsewhere | none | trim, compare, split, replace, join paths, cut labels | configuration, templates, HTTP |
| streams, `utility/include/utility/io/stream.hpp` | position, window and state bits of a stream | read, seek, `read_line`, `read_stream_as_string` | files, HTTP bodies |
| logging, files, environment, time, identifiers, test driver | none, or fixed at start | system calls | not modelled, see the end |

What is hard here, and which properties it calls for:

* `check_stats` unlocks the pool's mutex in the middle of every operation, and
  the counters are unsigned.  They must count what they are named for in every
  interleaving (`CountersExact`), and the limit must hold although the decision
  to spawn and its effect are separated (`SlotsBounded`, `LiveBounded`).
* A machine goes through four owners (worker, pool, runner, nobody).  It must
  have exactly one at a time, serve once, and be destroyed (`MachineExclusive`,
  `LeaseRefined`, `FreshMachine`, `LeftAtExit`).
* Threads are created on demand, die by themselves, and are joined by each other
  (`NoSelfJoin`, `QueueCovered`, `BusyWithinWorkers`, `TaskStarts`,
  `StopReturns`).
* A call to Gitea may fail before or after it took effect, and the signal may
  come between any two steps (`ListenOnlyWhenReady`, `AssignedAccounted`,
  `SettledOrDropped`).
* libvirt's handlers run in a thread of their own while objects are destroyed
  and connections are lost (`NothingLeft`, `NewsOutOfTime`, the properties of
  `EventLoop`).
* A task reaches its machine through an agent whose answers can be lost, in a
  domain that can die at any command (`StartedOnWholeFiles`, `HandlesReturned`,
  `VerdictAgrees`), and the time-out given to `shell_exec` is not the
  command's (`OnlyCommandHolds`).
* `cmd_daemon` drops its references to the pools before it joins the threads that
  use them, and start-up can fail half-way (`StateOutlivesThreads`,
  `EndsOnlyWhenAsked`).
* The signal handler locks a mutex on top of the thread it interrupts
  (`StopsUnlessReentered`).
* A stream that keeps to a window of another one has boundaries at both ends
  (`StreamsDeliver`).
* Exceptions: a thread that cannot be created, a template that cannot be read.

`PROJECT.json` lists each hazard at its line.

## Modules

```
   TaskExecutor  (abstract)         MachineLease  (abstract)
     ^        ^                       ^         ^
     |        | implements            |         | EXTENDS
     |   ThreadPoolExecutor           |     RunnerLoop
     | its steps are such steps       |         ^ implements a part of it
   MachinePool  ------ implements ----+     GuestAgent

   EventLoop   LibvirtMachine   Daemon   Base64, Strings, Streams <- TextFunctions
```

Each of `MachinePool`, `ThreadPoolExecutor`, `RunnerLoop`, `GuestAgent`, `EventLoop`,
`LibvirtMachine`, `Daemon` and `TextFunctions` has a module of theorems on top of it,
with `Proofs` behind its name.

The pool is the middle of the system, and it is checked against both neighbours
through abstract specifications: what it asks of its executor is `TaskExecutor`,
which the real executor is shown to implement, and what it promises to runners
is `MachineLease`, on which `RunnerLoop` is built.  `RunnerLoop` in turn takes the
execution of a task as three steps, which `GuestAgent` takes apart.

**MachineLease** is the promise of a pool: a machine is spawned, offered, leased
once to one runner, retired and destroyed, with at most `Limit` machines warming,
idle or leased.  A domain whose spawn or whose kill failed may be `left`.

**TaskExecutor** is the executor as its client sees it: counts of queued tasks,
busy workers and workers, and how each may change.

**MachinePool** models `MachinePool::Impl`.  Its variables carry the names of
the code's members where there is one; `queued`, `busy` and `workers` are the
executor's counts; `vm` follows a machine through its spawn; `held` and `rpc` are
a runner's local variable and position; `cpc` is the control thread, `spc` the
thread that stops and destroys the pool.  One action is one critical section of
`m_mutex`, cut where `check_stats` unlocks.  The counters wrap at `Word`, as
`size_t` does at 2^64.  Two exceptions are modelled: `control_put_throws` (the
executor cannot create a thread, after it has pushed the task) and `spawn_throws`
(the spawner throws before `--warming`).  Domains may be left behind: a spawn that
fails after `virDomainCreateXML` has no machine yet that would kill the domain
(`stranded`, then `left`), and the destructor of a machine ignores that its kill
failed (`drop_machine`, `destroy_pool`).  The pool is stopped twice, by
`~TemplateState` and by `~Impl`.  The first stop moves the threads of the workers
away; a worker that dies then leaves a `hollow` entry, whose join by another worker
ends the process (`worker_reaps_hollow`), and one that returns leaves its entry in
`m_workers` (`returned`), whose join by the second stop does (`stop_again_throws`).
Both lead to `terminated`.  All waits are timed and look at their
condition again, so notifications affect latency only and are left out.

**ThreadPoolExecutor** models the executor itself.  Its condition variable is not
timed, so who sleeps, who was notified, and puts that have unlocked but not yet
notified are state.  Joining a thread that was moved away throws, and nobody
catches it: that is `terminated`.

**RunnerLoop** models the runner threads of one template and their calls to
Gitea on top of `MachineLease`.  `connect` is four calls (token, ping, register,
declare), each of which can fail alone.  Gitea is external: it keeps registrations
and tasks.  `Fails` is a call that fails from the runner's point of view, before or
after Gitea acted on it; a registration that nobody will remove is counted in
`orphans`, a task given up without a report is in `dropped`.

**GuestAgent** models `write_file` (three times) and `shell_exec` one agent command
at a time, from the fetched task to the destroyed machine.  `handle` and `error`
are `write_file`'s locals; `content`, `handles` and `cmd` are the guest's side:
what is on its disk, which files its agent has open, the command.  A command to
the agent fails before or after it took effect, and always once the domain is
gone, which may happen at any step; a write may be short, which its answer says and
the code does not read (`short`); the kill at the end may fail (`Left`).  The command reports to Gitea by itself, so
`verdict` (Gitea's view) and `concluded` (the host's) can differ.  The module is
mapped to `RunnerLoop`, with an operator for each of its variables (`loopPc`,
`loopPhase`, ...): every step is one of its steps or a stutter (`RunnerRefined`).

**Daemon** models the process from its command line to its exit code.  `refs[t]` are
the threads that hold t's `TemplateState`; whoever drops the last reference stops
the pool.  Of a pool only the control thread is here, of a runner only its loop.
`frames[th]` are the signal handlers running on top of thread th, which itself
stands still meanwhile; `mutex` is the one that `is_signalled` and the handlers lock.
Before `install` a signal ends the process.  `load_file` fails when a part of the
file is at fault (`fault`) or a number is negative (`safe_cast_int`).

**EventLoop** models the shared libvirt event loop: several users, several
incarnations of the loop, the weak pointer, the two condition variables (untimed,
so sleeping is a state) and failures of thread creation and of libvirt.

**LibvirtMachine** models one machine from `connect` to `disconnect`: the owner's
steps (`opc`), the event loop's thread that runs handlers (`hpc`), the host
(`volume`, `domain`), the references (`refs`: the hypervisor's map, the owner, a
running handler) and the connection with its loss and reopening.  The domain may
stop running without being gone (`domain_halts`: SHUTDOWN ahead of STOPPED,
PMSUSPENDED, SUSPENDED for an I/O error or by an operator) and run again; the
handler takes each such event for the end.  Every machine
has a hypervisor and a connection of its own, so one is enough.

**Streams** models the input streams over an external standard stream with its
position, end and failure bits; a byte is represented by its position.

**Base64** and **Strings** model pure functions as operators, loops as sets of
positions or recursive functions.  **TextFunctions** enumerates their inputs and
states what they compute: Base64 against the definition of the encoding, bit by
bit; comparisons against each other; splitting and replacement by undoing them;
streams by what a window of them must deliver.
Strings are ASCII, since `std::toupper` of other characters is undefined.

**MC...** modules add symmetry sets and the assumption that there are enough
identities; `MCMachinePool` also has the specification of the liveness run.

## Runs

| Run | Distinct states | What it shows |
|---|---|---|
| `pool_safety` | 39 799 (symmetry) | counters, limits, ownership and what is left at exit, with one refused thread, one throwing spawner and one domain that is left behind; the pool implements `MachineLease` and uses the executor within `TaskExecutor` |
| `pool_behaviour` | 279 866 | with one refused thread and one throwing spawner, the pool keeps reaching its target until the first of them, and after the signal shuts down or is ended by the second stop |
| `pool_max_race` | violation | `LiveWithinMax` |
| `executor` | 76 199 | the executor's books, reaping and drain; no lost wake-up; `stop` returns; it implements `TaskExecutor` |
| `runner` | 91 870 | registrations, leases and tasks of two runners; every assigned task is settled or accounted for; threads end |
| `runner_dropped` | violation | `AssignedIsSettled` |
| `guest` | 73 386 | a task in its guest when agent commands fail, writes are short, answers are lost or the domain dies: on which files the command is started, what Gitea is told, what can hold the runner; the steps are those of `RunnerLoop` |
| `daemon` | 60 941 | two templates, start-up failures and signals on any thread: nothing is used after its end, and a signal ends the process unless it interrupts the holder of the mutex |
| `event_loop` | 18 178 | the shared loop is never aborted, never handed out stopped, unique while owned, and its destruction returns |
| `machine` | 103 158 | who deletes volume and domain and when, handlers against destructors, news of a domain that halts, the agent wait and the shutdown end |
| `machine_ping` | violation | `PingEnds` |
| `text` | 118 701 | Base64 against its definition; comparison is a total order; trimming, splitting, replacement, paths and labels can be undone; streams deliver their window once and in order |

The violation runs state what a comment or a document of the repository says:

* `pool_max_race`: `release` gives the slot back while the runner still has the
  machine; the reference it resets is a copy.  The replacement and the old
  domain exist together, one more than `max_concurrency`.  `LiveBounded` states
  the bound that does hold.
* `runner_dropped`: a task whose answer arrives together with the signal is
  neither executed nor reported as failed.
* `machine_ping`: the time-out of the wait for the network subtracts in the wrong
  order and never expires.

Other deviations from what one would expect are written into the properties that
pass; each states exactly how far the code goes:

* `CountersExact`, `SlotsBounded`: when `put` throws it has already queued the task,
  so every such throw is worth one slot beyond the maximum and makes `warming`
  short by one, wrapping below zero; from zero, the pool then believes that it has
  more machines than it may and stops spawning.
* `KeepsAnotherUntilMiscounted`: the pool keeps to its target ("the number of
  currently active machines plus another") only until the first exception.  After a
  spawner has thrown, `warming` stays one too high for good; after a refused thread it
  may wrap.  In both cases the pool may never spawn again, so nothing is promised
  from there on.
* `NoSelfJoin`, last conjunct: after `stop` has moved the threads away, a reaping
  worker or a second `stop` can join a thread that is not joinable, which ends the
  process; before `stop` it cannot.
* `ShutdownCompletes`, `LeftAtExit`: the pool's destructor makes that second `stop`.
  With two workers, one of which is without a task when the pool is stopped, the
  shutdown ends in `std::terminate`, before the idle machines are destroyed: their
  domains stay.  It takes a second worker (`OneWorkerNeverTerminates`).
* `NothingLeft`, `LiveBounded`, `LeftAtExit`: when `spawn` fails after it created the
  domain, the domain and the volume stay on the host; a kill that fails is not
  noticed.  Such domains come on top of the bound, and outlive the pool.
* `NewsOutOfTime`: a domain that was suspended and resumed stays marked as decayed
  (`m_quit`) although it runs; a machine that was ready is leased all the same, since
  nobody looks at the mark any more.
* `StartedOnWholeFiles`: the error of a failed `guest-file-close` is set after the
  result was formed and is lost, and the count of a short `guest-file-write` is not
  read, so the command may start on a file that is not complete.
* `VerdictAgrees`: after a lost answer the task is reported as failed although its
  command runs or has succeeded.
* `OnlyCommandHolds`: a command that does not end holds its runner thread beyond
  the time-out of three hours, and beyond the shutdown signal.
* `EndsOnlyWhenAsked`: a failure to start a later template is reported, and the
  process ends, only after a signal, since unwinding joins the runners that run.
* `StopsUnlessReentered`: a signal that interrupts a thread between the lock and the
  unlock of `is_signalled`, or of the other signal's handler, waits for ever.
* `StreamsDeliver`: a `StdInputStream` over a stream that cannot seek delivers
  nothing, since looking for its size puts that stream into failure.
* `EditsReversible`: trimming a view of blanks alone returns it untrimmed, unlike
  the overload that works in place.

### Bounds and why they are enough

* Pool: two runners, `max_concurrency` 2, idle target 1.  Two is the least for
  which the target (`IdleTarget + active`) and the maximum differ and for which a
  machine can be released while another warms.  `MCMachinePool` assumes
  2 * `MaxConcurrency` + `MaxFaults` + `MaxLeft` identities, one for every slot,
  orphaned task, released machine and domain left behind, so no spawn is held up for
  want of a name.  `Word` is 65 536: far from every value reached but by wrapping.
  Refused threads and throwing spawners are bounded to one each, domains left behind
  (`MaxLeft`) to one; the theorems remove these bounds for safety.  The liveness run
  has no domain left behind: to the threads and the counters such a spawn or such a
  drop is like any other.
* Executor: one fixed worker and at most two threads, three tasks, one refused
  thread, two calls of `stop` (a client's and the destructor's).  Three tasks let
  an on-demand worker die, another be created, and reap it.  The pool's executor
  has no fixed worker; there `TaskStarts` needs threads to be created.
* Runners: two runners, two machines, two tasks, one failed call to Gitea: one
  runner can fail while the other works, and the order of the two is free.
* Guest: one runner, machine and task, since a lease is exclusive
  (`MachineExclusive`); two failed agent commands, so that the failure of a write
  and of the close after it can meet, and two failed calls to Gitea, so that the
  report and the removal can both be lost.  The end of the domain, a failed kill and
  short writes are not bounded.
* Daemon: two templates, `max_concurrency` from -1 (refused) to 2, at most two
  runner threads in all (one each, or two of one template), and each of the two
  signals once, so that a handler can interrupt the other.
* Event loop: three users and two incarnations, so that one can be destroyed
  while the next is being created and shared; two failures.
* Machine: two failures, so that a lost connection, a failed call or a halt of the
  domain can meet another;
  clocks of two units, where only "before" and "after the time-out" matter.
* Text: up to five of six bytes that exercise every bit position (all rests,
  with a full group before them), up to eight of four characters (a letter, the
  last character of the alphabet, padding, an invalid one), texts of up to six
  of blank, slash, colon and a letter in both cases, cut in all ways into the
  arguments of a function.  Streams have up to three bytes and any starting
  position and size; five calls (read one or two, tell, step back) reach behind
  both ends of every window; lines are of up to six of CR, LF and a letter.

Symmetry is used in `pool_safety` only, where every property is an invariant or the
safety of a refinement.  In `pool_behaviour`, where it would not be sound, a worker
takes one fixed choice of the identities that are not in use (`FirstUnused`); these
differ in nothing, so every behaviour of `FairSpec` is one of `MCFairSpec` with the
machines renamed.
Deadlock is checked in all runs; modules whose system may rightly stop have an
explicit step for the final state.

### Fairness

Weak fairness for threads that can run, and nothing for what the code only waits
for:

* Pool: control thread, workers, and the thread that stops; a runner may wait for
  a task as long as there is no signal, `acquire` may wait for hours, and a
  machine may boot for as long as there is no signal.  After the signal all of
  these poll the flag (`should_stop`, `is_signalled`), so they go on.  A task that
  was started ends: that is the guest's part, see the assumptions.
* Pool, stopping: a worker without a task returns or reaps; which of the two is free.
* Executor: every worker, a put that has still to notify, a `stop` that was
  called.  Nobody has to call anything.
* Runners: every step but waiting for a machine or a task; HTTP calls have
  time-outs.  After the signal, every step.
* Guest: the host alone (every agent command and every HTTP call returns).  Nothing
  is assumed of the command or the domain.
* Daemon: every thread, its handlers included.  Strong fairness for the handlers as
  a whole on the mutex: the threads that look at the flag all the time release it
  again and again, and some handler gets it in the end.  Start-up need not fail and
  signals need not come.
* Event loop: threads and destructors go on; a user may keep its loop.
* Machine: owner and event thread go on; the pool may keep a ready machine, but
  not after the signal.

### Assumptions about the outside

* Commands in a guest end: assumed in `RunnerLoop`, `MachinePool` and
  `LibvirtMachine`.  `OnlyCommandHolds`, which does not assume it, shows that this
  is the only thing to assume of the guest.
* The guest agent may buffer what it is given until `guest-file-close`; its open
  files go with the domain.  Gitea keeps the first result reported for a task, and
  takes reports of the command while the runner is registered.
* Streams of the standard library behave as the standard says of `read`, `seekg` and
  `tellg`.
* Deregistration of a libvirt handler waits for one that is running, and is local
  to the client.  Otherwise a handler could run on a hypervisor that is gone.
* A lost connection delivers the events it had received before its close event.
* Calls of libvirt return; identifiers of machines are unique.
* A signal is delivered on any thread that has started, at any moment; outside
  `Daemon` it is a flag that is raised at any moment.

## Proofs

Each theorem is for every value of the constants that its module's assumption
admits; bounds on failures, signals and tasks are arbitrary, so they bound nothing.

| Component | Theorem | States |
|---|---|---|
| pool | `PoolInvariant` | `PoolInv` is invariant |
| | `PoolTypeCorrect` | the types; the `size_t` counters stay in range |
| | `PoolCountersExact`, `PoolSlotsBounded`, `PoolLiveBounded`, `PoolMachineExclusive`, `PoolLeftAtExit` | `CountersExact`, `SlotsBounded`, `LiveBounded`, `MachineExclusive`, `LeftAtExit` |
| | `OneWorkerNeverTerminates` | with `max_concurrency` 1 no join ends the process |
| | `PoolUsesExecutor` | `ExecutorRefined`: its steps are `TaskExecutor`'s |
| | `PoolRefinesLease` | `LeaseRefined`: it implements `MachineLease` |
| executor | `ExecInvariant` | `ExecInv` is invariant |
| | `ExecBusyWithinWorkers`, `ExecNoSelfJoin`, `ExecQueueCovered`, `ExecTaskOnce` | the invariants of the run `executor` |
| | `ExecRefinesCounts` | `CountsRefined`: it implements `TaskExecutor` |
| runner loop | `LoopInvariant` | `LoopInv` is invariant |
| | `LoopListensOnlyWhenReady`, `LoopAssignedAccounted` | `ListenOnlyWhenReady`, `AssignedAccounted` |
| | `LoopFreshMachine` | the action property `FreshMachine` |
| | `LoopUsesLeases` | its steps are `MachineLease`'s |
| guest | `GuestInvariant` | `GuestInv` is invariant |
| | `GuestStartsOnWholeFiles`, `GuestHandlesReturned`, `GuestVerdictAgrees` | the invariants of the run `guest` |
| | `GuestRefinesRunnerLoop` | `RunnerRefined`: it implements its part of `RunnerLoop` |
| event loop | `EventLoopInvariant` | `EventLoopInv` is invariant |
| | `EventLoopNeverAborts`, `EventLoopSharedLoopRuns` | the invariants of the run `event_loop` |
| machine | `MachineInvariant` | `MachineInv` is invariant |
| | `MachineNothingLeft`, `MachineNewsOutOfTime` | the invariants of the run `machine` |
| daemon | `DaemonInvariant` | `DaemonInv` is invariant |
| | `DaemonStateOutlivesThreads`, `DaemonEndsOnlyWhenAsked` | the invariants of the run `daemon` |
| | `DaemonMutexOwned` | `HandlerInv` is invariant: who holds the mutex of the signal |
| | `DaemonReenteredStays` | `ReenteredStays`, the safety part of `StopsUnlessReentered` |
| texts | `TextInvariant` | an input is a sequence of the symbols of its kind |
| | `TextComparesConsistently`, `TextEditsReversible` | `ComparesConsistently`, `EditsReversible`, for texts of every length |
| Base64 | `TextBase64Reference` | `Base64Reference`, for bytes and characters of every length |
| streams | `TextStreamsDeliver` | `StreamsDeliver`, for any calls and lines |

Every invariant that a passing run checks is stated by a theorem here.

With these the two abstract specifications carry weight: the pool needs no more of
its executor than `TaskExecutor`, which the executor implements, and promises
`MachineLease`, which is all that the runner loop uses of it.

### Assumptions

* `PoolAssumption`: finite sets of runners and machines, as many runners as
  `max_concurrency`, a `size_t` wide enough not to wrap by mere counting upwards, and
  names for "no machine" that are nobody's.
* `ExecutorAssumption`: no more fixed workers than threads.  `MaxThreads` may be 0: a
  task put into an executor that may have no threads stays queued, which is why the
  last part of `TaskOnce` is for `MaxThreads > 0`.  The pool passes `max_concurrency`.
* `GuestAssumption`: one runner, one machine, one task.
* `MachineAssumption`: a time-out that is not 0 and a clock that gets past it.
* `DaemonAssumption`: at least one template.  `TextAssumption`: texts are ASCII.
* The others say only that sets are finite and that values which stand for nobody or
  nothing are no members.

### The inductive invariants, and why they are needed

An invariant of a run is seldom inductive: it says what is promised and not why.
Each component's proof module begins with the strengthening; all of these were
checked with TLC, on the instances of the runs or larger ones, before they were proved.

* `PoolInv`: `TypeOK`, `CountersExact`, `SlotsBounded`, `MachineExclusive`,
  `WorkersBounded`, `StopOrder` and `GoneIsEmpty`.  `TypeOK` needs `CountersExact` to
  know that a decrement does not leave the range, which needs `MachineExclusive` to
  know that the machine that leaves `warming` is not also elsewhere.  `SlotsBounded` is
  preserved by `control_upscale` because `want_upscale` compares the wrapped `warming`
  with the maximum, and `CountersExact` says what that is.  `LeftAtExit` follows
  from `StopOrder` and `WorkersBounded` (no spawn without a busy worker, and none is
  busy), from `MachineExclusive` (what passed `spawn_one` is idle or held) and from
  `GoneIsEmpty` (after the destruction the queue stays empty).
  `OneWorkerNeverTerminates` adds `NoSpare`: an only worker that died or returned has
  left nobody behind who could join it.  Counting is reduced to
  `OnePointStep`: a step moves one thread or machine, so two sets that agree but for one
  element differ in size by whether it is in them.  `LiveBounded` counts the live
  domains by their owners: spawns, the queue, holders, nobody.
* `ExecInv`: a worker passes the reaping loop only when nobody is dead, so the dead
  and the workers past the loop together stay within the limit (`WorkerInv`); dead
  workers are listed and reaped once (`DeadInv`); until `stop` moves the threads away
  everything that may be joined is joinable (`JoinInv`); `stop` has a thread for every
  live worker (`StopInv`).
* `LoopInv`: a runner leases exactly one machine inside the iteration and none outside
  (`LeaseInv`); a machine in which a task was started is with a runner past the start
  (`UsedInv`, from which `FreshMachine` follows); a task is given up at most once
  (`ParcelInv`), which is why the dropped ones can be counted against failed calls.
* `GuestInv`: the files before the present one are complete (`WritingInv`), an agent
  that is gone has nothing open (`HandleInv`), and a command given up while it runs was
  given up because a call failed (`VerdictInv`).
* `EventLoopInv`: the mutex of `get` is held while a loop is created, and then no other
  is in use (`OwnerInv`); the state of a loop follows the place of its thread
  (`StateInv`); a loop that somebody refers to is not being stopped (`UserInv`).
* `MachineInv`: in the queue of events nothing follows the loss of the connection, and
  the suspension of a paused start is ahead of the news of the guest agent
  (`EventInv`).  This order is why a machine that became ready can no longer be marked
  by that suspension.  A halt is recorded before it is reported, so a report of one
  that is queued or handled tells of a halt that happened.
* `DaemonInv`: a `TemplateState` without references is alive only while one thread, and
  no other, stops its pool (`LifeInv`); main knows at each place which states exist
  (`MainInv`).
* `HandlerInv`: a thread holds the mutex exactly while it is between lock and unlock, in
  `is_signalled` or in one of the handlers on top of it, never in two (`MutexInv`).  That
  needs `StartInv`: runner threads are started in order, so a thread that is started was
  not running before.
* Texts: that a set of numbers has a least element is derived from the
  well-foundedness of `<`, and with it what `Difference` finds; the order is then a
  matter of cases (`CompareCases`, `LessTransitive`).

### Texts, Base64 and streams: loops of any length

The invariant `TextInv` says only that an input is made of its symbols; what is
hard is what a fold, a filter or a recursive function computes of a sequence of any
length.  No induction theorem of the library can be used, so each loop is first
turned into a fact about its places, which least counterexamples (`LeastNumber`)
then prove.

* Base64: `FlattenRow` says of rows of one length at which place of the whole each
  of their places comes.  Groups of characters and of bytes are compared by their
  bits (`SixBitsSextets`, `FirstOctet`, `ThirdOctet`), so that `EncodesReference`
  and `DecodedReference` hold group by group, and the rest behind the full groups
  has lemmas of its own.  What passes `calc_decoded_length` and what is well-formed
  are both the strings with at most two pad characters, all at the end
  (`EncodedWellFormed`, `PassesEncoded`).
* Folds: `FoldRuns` gives a fold as the last value of a function with one value for
  each turn of the loop (`AfterRuns`, `AskedRuns`, `LineRuns`); an invariant of the
  turns then goes from each to the next.
* Streams: `OpenedIs` describes every way to open one.  Reads and tells keep the
  position and what was delivered in step (`ReadStep`, `TellStep`), so the window
  comes once and in order (`WindowIsRead`); whatever is sought in between, what comes
  lies inside it (`AnyCall`, `WindowIsKept`).  A turn of `read_line` is at a known
  place of the line (`LineTurn`), hence the line it ends with (`LineIsRead`).
* Trimming: what is kept is from the first to the last character that is not a
  blank (`TrimIs`).
* Splitting: separators are counted from the left (`Ranks`), which makes the cuts a
  sequence (`CutsAre`), and tokens with their separators put in a row are the text
  (`EndedRow`, `Splits`).
* Replacement: `string_replace` is solved from the end of the text (`TowardsTheEnd`,
  `ReplaceRuns`); replacing in what follows a place is going on with the search
  there (`ReplaceRest`).  With the first occurrence taken off, induction on what is
  left shows that no pattern remains and that undoing gives the text
  (`ReplaceReverses`).  Patterns of one character are a matter of each character
  alone (`ReplaceCharacter`), on which `TempPath` rests.

What the proofs showed of the model: `TaskOnce` did not hold of an executor that may
have no threads; the pool's refinement needs "no machine" to be no runner's name
either; and `LibvirtMachine` sends the events of one call to one handler
(`Send`), where it used to filter a sequence.  Of the text functions: two cases of
`line_step` overlapped, a carriage return being both the end of a line and a
character of it; the mark that stands in for a replaced pattern has to be outside
every text, which 0 is not; and the path for a Windows guest gives the other one
again only if no backslash was in the names.  Shifts are divisions by the entries of
a table of powers, and the pad characters are a set that is counted, since the
provers have no rules for `^` and for recursive counting.

### Only model-checked

* Every property with `~>` or `<>`: `KeepsAnotherUntilMiscounted`, `ShutdownCompletes`,
  `TaskStarts`, `StopReturns`, `SettledOrDropped`, `RunnersExit`, `OnlyCommandHolds`,
  `DestroyReturns`, `AgentWaitEnds`, `SignalEnds` and the first part of
  `StopsUnlessReentered`.  They rest on fairness, for which the prover has no rules.
* That mutants of the definitions are told apart: a theorem holds of the code as it
  is, a run shows that the property would not hold of a likely mistake.

## Not modelled

* Logging: formatting and output under a mutex of its own; nothing depends on it.
* Files, environment, time, identifiers: wrappers of the system.  An exception of
  `read_file` is `spawn_throws`.
* From which YAML node a field is read: the outcomes of `load_file` are in `Daemon`.
* Architecture tables: two tables without state.  Reading them shows that
  `Arch::from_name` maps the names of arm64 to `amd64` and that `to_name` ends names
  with a semicolon.
* HTTP payloads, headers, status codes and the cURL share: a call to Gitea succeeds,
  fails before it took effect, or after it.
* The expansion of XML templates, which replaces pattern by pattern in the order of
  an unordered map, and the loading of the libvirt library.
* Output streams, which pass on what they are given, and `string_istream`.
* `add_command_output_redirection`, whose result is not used, and
  `MachineImpl::wait`, which nobody calls.
* A signal while the process destroys its static objects after `main`.
* The conversions between encodings on Windows.
* The test driver.

## Plan

Done: leases, executor interface, pool, executor, runner loop, guest agent, daemon and
signal, event loop, libvirt machine, Base64, strings and streams; and the proofs of
all safety invariants, of the safety part of every refinement and of the action
properties.

What is left would be a wider model: the output streams and `string_istream`, the
temporary files, and the order in which XML templates are expanded.
