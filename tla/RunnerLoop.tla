----------------------------- MODULE RunnerLoop -----------------------------
(***************************************************************************)
(* The runner threads of one template (app/src/core.cpp) and their         *)
(* conversation with Gitea (gitea/src/runner.cpp), on top of the leases of *)
(* MachineLease.  Gitea itself is external: it keeps registrations and     *)
(* tasks, and any call to it may fail before or after it took effect.      *)
(*                                                                         *)
(* A step is one call to Gitea, to the pool or to the machine, or one look *)
(* at the shutdown signal, which may be raised between any two of them.    *)
(***************************************************************************)
EXTENDS MachineLease

CONSTANTS
    Task,           \* the tasks Gitea has for runners of this template
    NoTask,         \* no task
    MaxLost         \* bound on the calls to Gitea that fail

ASSUME RunnerLoopAssumption ==
    /\ NoTask \notin Task
    /\ MaxLost \in Nat

VARIABLES
    pc,             \* where runner r is in runner_loop
    parcel,         \* parcel[r]: the task r fetched
    signalled,      \* the ShutdownSignal
    registered,     \* runners with a registration they will remove
    orphans,        \* registrations at Gitea nobody will remove
    tstate,         \* Gitea's state of task t
    used,           \* machines a task was started in
    lost,           \* calls to Gitea that failed
    dropped         \* tasks assigned to a runner that gave them up unreported

giteaVars == <<registered, orphans, tstate, lost, dropped>>
vars == <<leaseVars, pc, parcel, signalled, giteaVars, used>>

RunnerState ==
    {"loop", "acquire", "leased", "connect", "ping", "register", "declare",
     "registered", "listen", "got", "fetched", "activated", "running", "failing", "unregister",
     "release", "drop", "exited"}

TypeOK ==
    /\ LeaseTypeOK
    /\ pc \in [Runner -> RunnerState]
    /\ parcel \in [Runner -> Task \cup {NoTask}]
    /\ signalled \in BOOLEAN
    /\ registered \subseteq Runner
    /\ orphans \in Nat
    /\ tstate \in [Task -> {"pending", "assigned", "executed", "failed"}]
    /\ used \subseteq Machine
    /\ lost \in 0 .. MaxLost
    /\ dropped \subseteq Task

Init ==
    /\ LeaseInit
    /\ pc = [r \in Runner |-> "loop"]
    /\ parcel = [r \in Runner |-> NoTask]
    /\ signalled = FALSE
    /\ registered = {}
    /\ orphans = 0
    /\ tstate = [t \in Task |-> "pending"]
    /\ used = {}
    /\ lost = 0
    /\ dropped = {}

Goto(r, from, to) == pc[r] = from /\ pc' = [pc EXCEPT ![r] = to]

\* r leases m.
Holds(r, m) == lessee[m] = r /\ phase[m] = "leased"

\* A call to Gitea fails, from the runner's point of view.
Fails == lost < MaxLost /\ lost' = lost + 1

-----------------------------------------------------------------------------
(* The pool's side, as promised by MachineLease.                           *)

pool_step(m) ==
    /\ \/ Spawn(m) /\ \E r \in Runner : pc[r] # "exited"
       \/ Abandon(m)
       \/ Offer(m)
    /\ UNCHANGED <<pc, parcel, signalled, giteaVars, used>>

pool_destroyed ==
    /\ \A r \in Runner : pc[r] = "exited"
    /\ Discard
    /\ UNCHANGED <<pc, parcel, signalled, giteaVars, used>>

shutdown ==
    /\ ~signalled
    /\ signalled' = TRUE
    /\ UNCHANGED <<leaseVars, pc, parcel, giteaVars, used>>

-----------------------------------------------------------------------------
(* runner_loop and runner_loop_iteration.                                  *)

\* Mutant: the loop does not look at the signal.
runner_loop_deaf(r) ==
    /\ Goto(r, "loop", "acquire")
    /\ UNCHANGED <<leaseVars, parcel, signalled, giteaVars, used>>

runner_loop(r) ==
    /\ IF signalled THEN Goto(r, "loop", "exited") ELSE Goto(r, "loop", "acquire")
    /\ UNCHANGED <<leaseVars, parcel, signalled, giteaVars, used>>

acquire(r) ==
    /\ ~signalled
    /\ Goto(r, "acquire", "leased")
    /\ \E m \in Machine : Lease(r, m)
    /\ UNCHANGED <<parcel, signalled, giteaVars, used>>

\* The pool is stopping, or acquire timed out.
acquire_fail(r) ==
    /\ Goto(r, "acquire", "loop")
    /\ UNCHANGED <<leaseVars, parcel, signalled, giteaVars, used>>

\* Mutant: shutting down after create_runner forgets the registration.
check_stop_forgets(r) ==
    /\ IF signalled
       THEN Goto(r, "leased", "release") \/ Goto(r, "registered", "release")
       ELSE Goto(r, "leased", "connect") \/ Goto(r, "registered", "listen")
    /\ UNCHANGED <<leaseVars, parcel, signalled, giteaVars, used>>

\* The two looks at the signal around create_runner.
check_stop(r) ==
    /\ IF signalled
       THEN Goto(r, "leased", "release") \/ Goto(r, "registered", "unregister")
       ELSE Goto(r, "leased", "connect") \/ Goto(r, "registered", "listen")
    /\ UNCHANGED <<leaseVars, parcel, signalled, giteaVars, used>>

\* Runner::connect: a registration token and a ping, which leave no trace at
\* Gitea, then register and, with the credentials it returned, declare.
connect_prepare(r) ==
    /\ Goto(r, "connect", "ping") \/ Goto(r, "ping", "register")
    /\ UNCHANGED <<leaseVars, parcel, signalled, giteaVars, used>>

connect_prepare_fail(r) ==
    /\ Goto(r, "connect", "release") \/ Goto(r, "ping", "release")
    /\ Fails
    /\ UNCHANGED <<leaseVars, parcel, signalled, registered, orphans, tstate, dropped, used>>

connect_register(r) ==
    /\ Goto(r, "register", "declare")
    /\ registered' = registered \cup {r}
    /\ UNCHANGED <<leaseVars, parcel, signalled, orphans, tstate, lost, dropped, used>>

\* The runner removes its registration only if connect returned a Runner, so
\* an answer lost after register leaves an orphan, as a failed declare does.
connect_fail(r) ==
    /\ Goto(r, "register", "release")
    /\ Fails
    /\ orphans' \in {orphans, orphans + 1}
    /\ UNCHANGED <<leaseVars, parcel, signalled, registered, tstate, dropped, used>>

declare(r) ==
    /\ Goto(r, "declare", "registered")
    /\ UNCHANGED <<leaseVars, parcel, signalled, giteaVars, used>>

declare_fail(r) ==
    /\ Goto(r, "declare", "release")
    /\ Fails
    /\ registered' = registered \ {r}
    /\ orphans' = orphans + 1
    /\ UNCHANGED <<leaseVars, parcel, signalled, tstate, dropped, used>>

\* fetch_task: poll until there is a task or the signal.
fetch_stop(r) ==
    /\ signalled
    /\ Goto(r, "listen", "unregister")
    /\ UNCHANGED <<leaseVars, parcel, signalled, giteaVars, used>>

fetch_task(r, t) ==
    /\ tstate[t] = "pending"
    /\ Goto(r, "listen", "got")
    /\ tstate' = [tstate EXCEPT ![t] = "assigned"]
    /\ parcel' = [parcel EXCEPT ![r] = t]
    /\ UNCHANGED <<leaseVars, signalled, registered, orphans, lost, dropped, used>>

\* The call failed; Gitea may have assigned a task all the same.
fetch_fail(r) ==
    /\ Goto(r, "listen", "unregister")
    /\ Fails
    /\ \/ UNCHANGED <<tstate, dropped>>
       \/ \E t \in Task :
            /\ tstate[t] = "pending"
            /\ tstate' = [tstate EXCEPT ![t] = "assigned"]
            /\ dropped' = dropped \cup {t}
    /\ UNCHANGED <<leaseVars, parcel, signalled, registered, orphans, used>>

\* After its loop fetch_task looks at the signal again, and drops the task.
fetch_return(r) ==
    /\ IF signalled
       THEN /\ Goto(r, "got", "unregister")
            /\ dropped' = dropped \cup {parcel[r]}
            /\ parcel' = [parcel EXCEPT ![r] = NoTask]
       ELSE Goto(r, "got", "fetched") /\ UNCHANGED <<dropped, parcel>>
    /\ UNCHANGED <<leaseVars, signalled, registered, orphans, tstate, lost, used>>

\* The last look at the signal before the machine is activated.
check_fetched(r) ==
    /\ IF signalled THEN Goto(r, "fetched", "failing")
                    ELSE Goto(r, "fetched", "activated")
    /\ UNCHANGED <<leaseVars, parcel, signalled, giteaVars, used>>

\* Mutant: a failed write is not reported to Gitea.
inject_unreported(r) ==
    /\ \/ /\ Goto(r, "activated", "running")
          /\ used' = used \cup {m \in Machine : lessee[m] = r}
       \/ Goto(r, "activated", "unregister") /\ UNCHANGED used
    /\ UNCHANGED <<leaseVars, parcel, signalled, giteaVars>>

\* execute_task_in_machine: the files are written and the runner executable
\* is started in the machine, or the first call that fails ends it; it may
\* have been started all the same.  GuestAgent has the calls.
inject(r) ==
    /\ \/ /\ Goto(r, "activated", "running")
          /\ used' = used \cup {m \in Machine : lessee[m] = r}
       \/ /\ Goto(r, "activated", "failing")
          /\ used' \in {used, used \cup {m \in Machine : lessee[m] = r}}
    /\ UNCHANGED <<leaseVars, parcel, signalled, giteaVars>>

\* The executable ended with code 0, having reported the task's result.
execute_ok(r) ==
    /\ Goto(r, "running", "unregister")
    /\ tstate' = [tstate EXCEPT ![parcel[r]] = "executed"]
    /\ parcel' = [parcel EXCEPT ![r] = NoTask]
    /\ UNCHANGED <<leaseVars, signalled, registered, orphans, lost, dropped, used>>

\* Mutant: a failed execution is not reported to Gitea.
execute_fail_unreported(r) ==
    /\ Goto(r, "running", "unregister")
    /\ parcel' = [parcel EXCEPT ![r] = NoTask]
    /\ UNCHANGED <<leaseVars, signalled, giteaVars, used>>

\* Another exit code, or the guest agent stopped answering.
execute_fail(r) ==
    /\ Goto(r, "running", "failing")
    /\ UNCHANGED <<leaseVars, parcel, signalled, giteaVars, used>>

\* set_task_failed; the answer is ignored, so losing it alone is no failure.
set_task_failed(r) ==
    /\ Goto(r, "failing", "unregister")
    /\ \/ /\ tstate' = [tstate EXCEPT ![parcel[r]] = "failed"]
          /\ UNCHANGED <<lost, dropped>>
       \/ Fails /\ dropped' = dropped \cup {parcel[r]} /\ UNCHANGED tstate
    /\ parcel' = [parcel EXCEPT ![r] = NoTask]
    /\ UNCHANGED <<leaseVars, signalled, registered, orphans, used>>

\* ~Runner; a failure is only logged.
unregister(r) ==
    /\ Goto(r, "unregister", "release")
    /\ registered' = registered \ {r}
    /\ \/ UNCHANGED <<orphans, lost>>
       \/ Fails /\ orphans' \in {orphans, orphans + 1}
    /\ UNCHANGED <<leaseVars, parcel, signalled, tstate, dropped, used>>

\* Mutant: release puts the machine back for the next runner.
release_reuses(r) ==
    /\ Goto(r, "release", "loop")
    /\ \E m \in Machine :
        /\ Holds(r, m)
        /\ phase' = [phase EXCEPT ![m] = "idle"]
        /\ lessee' = [lessee EXCEPT ![m] = Nobody]
    /\ UNCHANGED <<parcel, signalled, giteaVars, used>>

\* machine_releaser.
release(r) ==
    /\ Goto(r, "release", "drop")
    /\ \E m \in Machine : Retire(r, m)
    /\ UNCHANGED <<parcel, signalled, giteaVars, used>>

\* The runner's reference to the machine goes away, and with it the machine,
\* unless its domain cannot be killed.
drop_machine(r) ==
    /\ Goto(r, "drop", "loop")
    /\ \E m \in Machine :
        lessee[m] = r /\ Destroy(m) /\ used' = used \ {m}
    /\ UNCHANGED <<parcel, signalled, giteaVars>>

-----------------------------------------------------------------------------
runner(r) ==
    \/ runner_loop(r) \/ acquire(r) \/ acquire_fail(r) \/ check_stop(r)
    \/ connect_prepare(r) \/ connect_prepare_fail(r)
    \/ connect_register(r) \/ connect_fail(r) \/ declare(r) \/ declare_fail(r)
    \/ fetch_stop(r) \/ (\E t \in Task : fetch_task(r, t)) \/ fetch_fail(r)
    \/ fetch_return(r) \/ check_fetched(r) \/ inject(r)
    \/ execute_ok(r) \/ execute_fail(r) \/ set_task_failed(r)
    \/ unregister(r) \/ release(r) \/ drop_machine(r)

\* All threads of the template have ended and its machines are gone, but for
\* the domains that were left behind.
ended ==
    /\ \A r \in Runner : pc[r] = "exited"
    /\ \A m \in Machine : phase[m] \in {"none", "left"}
    /\ UNCHANGED vars

Next ==
    \/ \E r \in Runner : runner(r)
    \/ \E m \in Machine : pool_step(m)
    \/ pool_destroyed
    \/ shutdown
    \/ ended

Spec == Init /\ [][Next]_vars

\* A runner goes on unless it waits for a machine or a task; every call to
\* Gitea returns within its time-out; a task that was started ends.
Fairness == \A r \in Runner :
    /\ WF_vars(runner(r) /\ pc[r] \notin {"acquire", "listen"})
    /\ WF_vars(signalled /\ runner(r))

FairSpec == Spec /\ Fairness

-----------------------------------------------------------------------------
(* Properties.                                                             *)

\* "Runners only register and listen for tasks when a machine is ready to take
\* a task" (README.md): from registration to the end of ~Runner the runner
\* leases a machine, whichever way the iteration ends; and a registration
\* outlives its runner only when a call to Gitea failed, one per failed call.
ListenOnlyWhenReady ==
    /\ \A r \in registered :
        /\ \E m \in Machine : Holds(r, m)
        /\ pc[r] \notin {"loop", "exited"}
    /\ orphans <= lost

\* A task is started only in a machine in which none was started before, and
\* which its runner still holds.
FreshMachine ==
    [][\A r \in Runner : pc[r] # "running" /\ pc'[r] = "running" =>
        \E m \in Machine : Holds(r, m) /\ m \notin used]_vars

\* Every task Gitea considers assigned is in the hands of exactly one runner,
\* or was given up by one: on a failed call, or at shutdown.  (And the types.)
AssignedAccounted ==
    /\ TypeOK
    /\ \A t \in Task : tstate[t] = "assigned" <=>
        t \in dropped \/ \E r \in Runner : parcel[r] = t
    /\ \A r, q \in Runner : parcel[r] = parcel[q] /\ parcel[r] # NoTask => r = q
    /\ ~signalled => Cardinality(dropped) <= lost

\* A task that is assigned is executed, reported as failed, or given up in one
\* of the ways AssignedAccounted admits; no runner sits on it for ever.
SettledOrDropped ==
    \A t \in Task :
        tstate[t] = "assigned" ~> tstate[t] \in {"executed", "failed"} \/ t \in dropped

\* After the signal every runner thread ends.
RunnersExit == signalled ~> \A r \in Runner : pc[r] = "exited"

\* "Once a task is assigned, the ephemeral runner registration details and
\* assigned task are delegated to the Gitea Runner executable that'll execute
\* the workflow" (README.md), or the task is at least reported as failed.
AssignedIsSettled ==
    \A t \in Task : tstate[t] = "assigned" ~> tstate[t] \in {"executed", "failed"}
=============================================================================
