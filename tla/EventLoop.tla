------------------------------ MODULE EventLoop ------------------------------
(***************************************************************************)
(* EventLoopImpl of virt/src/libvirt/libvirt.cpp: the thread that runs     *)
(* libvirt's events, shared by all hypervisors of the process through a    *)
(* weak pointer, started by the first of them and stopped by the last.     *)
(*                                                                         *)
(* One action is one critical section of m_run_loop_state_mutex or of the  *)
(* mutex of get, one notification, or one call that blocks.  Both          *)
(* condition variables wait without a time-out, so a sleeping thread is a  *)
(* state of its own.                                                       *)
(***************************************************************************)
EXTENDS Naturals, FiniteSets

CONSTANTS
    User,           \* threads that create and destroy hypervisors
    Loop,           \* identities of EventLoopImpl objects, never used twice
    NoLoop,         \* a null pointer
    NoUser,         \* nobody
    MaxFaults       \* bound on the failures of the system and of libvirt

ASSUME LoopAssumption ==
    /\ IsFiniteSet(User) /\ IsFiniteSet(Loop)
    /\ NoLoop \notin Loop /\ NoUser \notin User
    /\ MaxFaults \in Nat

VARIABLES
    weak_instance,
    mutex,              \* who is inside get
    m_run_loop_state,
    thread,             \* thread[l]: where the thread of l is
    timer,              \* loops whose time-out is registered with libvirt
    fresh,              \* identities not used yet
    upc,                \* upc[u]: where user u is
    uses,               \* uses[u]: the loop u has a reference to, or destroys
    faults,             \* failures so far
    broken,             \* loops that ended because libvirt reported an error
    aborted             \* run_loop called std::abort

vars == <<weak_instance, mutex, m_run_loop_state, thread, timer, fresh, upc,
          uses, faults, broken, aborted>>

RunLoopState == {"stopped", "starting", "running", "stopping"}

\* User states in which the user's reference keeps its loop alive.
Referring == {"create", "publish", "using"}

TypeOK ==
    /\ weak_instance \in Loop \cup {NoLoop}
    /\ mutex \in User \cup {NoUser}
    /\ m_run_loop_state \in [Loop -> RunLoopState]
    /\ thread \in [Loop -> {"none", "begin", "started", "check", "poll", "end",
                            "ended", "exited"}]
    /\ timer \subseteq Loop /\ fresh \subseteq Loop /\ broken \subseteq Loop
    /\ upc \in [User -> Referring \cup {"idle", "stop", "sleep_start", "wait",
                                        "sleep_stop", "join"}]
    /\ uses \in [User -> Loop \cup {NoLoop}]
    /\ \A u \in User : uses[u] = NoLoop <=> upc[u] = "idle"
    /\ faults \in 0 .. MaxFaults
    /\ aborted \in BOOLEAN

Init ==
    /\ weak_instance = NoLoop
    /\ mutex = NoUser
    /\ m_run_loop_state = [l \in Loop |-> "stopped"]
    /\ thread = [l \in Loop |-> "none"]
    /\ timer = {} /\ fresh = Loop /\ broken = {}
    /\ upc = [u \in User |-> "idle"]
    /\ uses = [u \in User |-> NoLoop]
    /\ faults = 0
    /\ aborted = FALSE

Goto(u, from, to) == upc[u] = from /\ upc' = [upc EXCEPT ![u] = to]
Fails == faults < MaxFaults /\ faults' = faults + 1
SetState(l, s) == m_run_loop_state' = [m_run_loop_state EXCEPT ![l] = s]

\* The users that share ownership of l.
Owners(l) == {u \in User : uses[u] = l /\ upc[u] \in Referring}

-----------------------------------------------------------------------------
(* EventLoopImpl::get and create.                                          *)

\* weak_instance.lock() succeeds.
get_shared(u) ==
    /\ mutex = NoUser
    /\ Owners(weak_instance) # {}
    /\ Goto(u, "idle", "using")
    /\ uses' = [uses EXCEPT ![u] = weak_instance]
    /\ UNCHANGED <<weak_instance, mutex, m_run_loop_state, thread, timer, fresh,
                   faults, broken, aborted>>

\* Mutant: get does not lock its mutex.
get_create_unlocked(u) ==
    /\ Owners(weak_instance) = {}
    /\ Goto(u, "idle", "create")
    /\ \E l \in fresh :
        /\ fresh' = fresh \ {l}
        /\ uses' = [uses EXCEPT ![u] = l]
        /\ timer' = timer \cup {l}
        /\ SetState(l, "starting")
    /\ mutex' = u
    /\ UNCHANGED <<weak_instance, thread, faults, broken, aborted>>

\* create: a new object, its time-out, and the first half of start.
get_create(u) ==
    /\ mutex = NoUser
    /\ Owners(weak_instance) = {}
    /\ Goto(u, "idle", "create")
    /\ \E l \in fresh :
        /\ fresh' = fresh \ {l}
        /\ uses' = [uses EXCEPT ![u] = l]
        /\ timer' = timer \cup {l}
        /\ SetState(l, "starting")
    /\ mutex' = u
    /\ UNCHANGED <<weak_instance, thread, faults, broken, aborted>>

\* register_event_handlers fails: the new object is destroyed unstarted.
get_fail_register(u) ==
    /\ mutex = NoUser
    /\ Owners(weak_instance) = {}
    /\ upc[u] = "idle"
    /\ Fails
    /\ \E l \in fresh : fresh' = fresh \ {l}
    /\ UNCHANGED <<weak_instance, mutex, m_run_loop_state, thread, timer, upc,
                   uses, broken, aborted>>

\* start creates the thread.
start(u) ==
    /\ Goto(u, "create", "publish")
    /\ thread' = [thread EXCEPT ![uses[u]] = "begin"]
    /\ UNCHANGED <<weak_instance, mutex, m_run_loop_state, timer, fresh, uses,
                   faults, broken, aborted>>

\* The thread cannot be created: stop_loop returns at once, and the time-out
\* is removed.
start_fails(u) ==
    /\ Goto(u, "create", "idle")
    /\ Fails
    /\ SetState(uses[u], "stopped")
    /\ timer' = timer \ {uses[u]}
    /\ uses' = [uses EXCEPT ![u] = NoLoop]
    /\ mutex' = NoUser
    /\ UNCHANGED <<weak_instance, thread, fresh, broken, aborted>>

publish(u) ==
    /\ Goto(u, "publish", "using")
    /\ weak_instance' = uses[u]
    /\ mutex' = NoUser
    /\ UNCHANGED <<m_run_loop_state, thread, timer, fresh, uses, faults, broken,
                   aborted>>

-----------------------------------------------------------------------------
(* ~EventLoopImpl, run by the user that drops the last reference.          *)

drop(u) ==
    /\ upc[u] = "using"
    /\ IF Owners(uses[u]) = {u}
       THEN Goto(u, "using", "stop") /\ UNCHANGED uses
       ELSE Goto(u, "using", "idle") /\ uses' = [uses EXCEPT ![u] = NoLoop]
    /\ UNCHANGED <<weak_instance, mutex, m_run_loop_state, thread, timer, fresh,
                   faults, broken, aborted>>

\* Mutant: stop_loop does not wait for the thread to start.
stop_loop_hasty(u) ==
    /\ upc[u] = "stop"
    /\ IF m_run_loop_state[uses[u]] = "stopped"
       THEN Goto(u, "stop", "join") /\ UNCHANGED m_run_loop_state
       ELSE Goto(u, "stop", "wait") /\ SetState(uses[u], "stopping")
    /\ UNCHANGED <<weak_instance, mutex, thread, timer, fresh, uses, faults,
                   broken, aborted>>

\* stop_loop until it has asked the loop to stop.
stop_loop(u) ==
    /\ upc[u] = "stop"
    /\ CASE m_run_loop_state[uses[u]] = "starting" ->
                Goto(u, "stop", "sleep_start") /\ UNCHANGED m_run_loop_state
         [] m_run_loop_state[uses[u]] = "stopped" ->
                Goto(u, "stop", "join") /\ UNCHANGED m_run_loop_state
         [] OTHER ->
                Goto(u, "stop", "wait") /\ SetState(uses[u], "stopping")
    /\ UNCHANGED <<weak_instance, mutex, thread, timer, fresh, uses, faults,
                   broken, aborted>>

\* Its second critical section: wait until the loop has stopped.
stop_loop_wait(u) ==
    /\ upc[u] = "wait"
    /\ IF m_run_loop_state[uses[u]] = "stopped"
       THEN Goto(u, "wait", "join")
       ELSE Goto(u, "wait", "sleep_stop")
    /\ UNCHANGED <<weak_instance, mutex, m_run_loop_state, thread, timer, fresh,
                   uses, faults, broken, aborted>>

\* Join the thread, then remove the time-out; the object is gone.
join(u) ==
    /\ Goto(u, "join", "idle")
    /\ thread[uses[u]] = "exited"
    /\ timer' = timer \ {uses[u]}
    /\ uses' = [uses EXCEPT ![u] = NoLoop]
    /\ UNCHANGED <<weak_instance, mutex, m_run_loop_state, thread, fresh, faults,
                   broken, aborted>>

-----------------------------------------------------------------------------
(* run_loop.                                                               *)

ThreadTo(l, from, to) == thread[l] = from /\ thread' = [thread EXCEPT ![l] = to]

\* Those that sleep on a condition variable of l look again.
Wake(l, sleeping, awake) ==
    upc' = [u \in User |-> IF uses[u] = l /\ upc[u] = sleeping THEN awake ELSE upc[u]]

run_begin(l) ==
    /\ thread[l] = "begin"
    /\ IF m_run_loop_state[l] = "starting"
       THEN ThreadTo(l, "begin", "started") /\ SetState(l, "running")
            /\ UNCHANGED aborted
       ELSE aborted' = TRUE /\ UNCHANGED <<thread, m_run_loop_state>>
    /\ UNCHANGED <<weak_instance, mutex, timer, fresh, upc, uses, faults, broken>>

run_started(l) ==
    /\ ThreadTo(l, "started", "check")
    /\ Wake(l, "sleep_start", "stop")
    /\ UNCHANGED <<weak_instance, mutex, m_run_loop_state, timer, fresh, uses,
                   faults, broken, aborted>>

\* Mutant: the loop does not look at its state again.
run_check_deaf(l) ==
    /\ ThreadTo(l, "check", "poll")
    /\ UNCHANGED <<weak_instance, mutex, m_run_loop_state, timer, fresh, upc, uses,
                   faults, broken, aborted>>

run_check(l) ==
    /\ IF m_run_loop_state[l] = "running"
       THEN ThreadTo(l, "check", "poll")
       ELSE ThreadTo(l, "check", "end")
    /\ UNCHANGED <<weak_instance, mutex, m_run_loop_state, timer, fresh, upc, uses,
                   faults, broken, aborted>>

\* virEventRunDefaultImpl returns when something happens; a registered
\* time-out is what makes sure that something does.
run_poll(l) ==
    /\ timer # {}
    /\ ThreadTo(l, "poll", "check")
    /\ UNCHANGED <<weak_instance, mutex, m_run_loop_state, timer, fresh, upc, uses,
                   faults, broken, aborted>>

run_poll_error(l) ==
    /\ ThreadTo(l, "poll", "end")
    /\ Fails
    /\ broken' = broken \cup {l}
    /\ UNCHANGED <<weak_instance, mutex, m_run_loop_state, timer, fresh, upc, uses,
                   aborted>>

run_end(l) ==
    /\ ThreadTo(l, "end", "ended")
    /\ SetState(l, "stopped")
    /\ UNCHANGED <<weak_instance, mutex, timer, fresh, upc, uses, faults, broken,
                   aborted>>

run_ended(l) ==
    /\ ThreadTo(l, "ended", "exited")
    /\ Wake(l, "sleep_stop", "wait")
    /\ UNCHANGED <<weak_instance, mutex, m_run_loop_state, timer, fresh, uses,
                   faults, broken, aborted>>

-----------------------------------------------------------------------------
get(u) ==
    \/ get_shared(u) \/ get_create(u) \/ get_fail_register(u)
    \/ start(u) \/ start_fails(u) \/ publish(u)

destroy(u) == stop_loop(u) \/ stop_loop_wait(u) \/ join(u)

run_loop(l) ==
    \/ run_begin(l) \/ run_started(l) \/ run_check(l) \/ run_poll(l)
    \/ run_poll_error(l) \/ run_end(l) \/ run_ended(l)

\* No identity is left for another loop: the bound of the model.
exhausted ==
    /\ fresh = {}
    /\ \A u \in User : upc[u] = "idle"
    /\ UNCHANGED vars

Next ==
    \/ \E u \in User : get(u) \/ drop(u) \/ destroy(u)
    \/ \E l \in Loop : run_loop(l)
    \/ exhausted

Spec == Init /\ [][Next]_vars

\* Threads go on where they can; a user may keep its hypervisor for ever.
Fairness ==
    /\ \A u \in User : WF_vars(destroy(u)) /\ WF_vars(start(u) \/ publish(u))
    /\ \A l \in Loop : WF_vars(run_loop(l))

FairSpec == Spec /\ Fairness
-----------------------------------------------------------------------------
(* Properties.                                                             *)

\* The std::abort in run_loop is never reached: nobody changes the state of a
\* loop between start and the first step of its thread, however early the
\* loop is dropped again.  Nor does the thread ever outlive the object it works
\* on, and the time-out that makes it look at its state is there for as long as
\* it runs.
NeverAborts ==
    /\ ~aborted
    /\ \A l \in Loop : thread[l] \notin {"none", "exited"} =>
        l \in timer /\ \E u \in User : uses[u] = l

\* Hypervisors that exist at the same time share one loop, although the next
\* may be created while the last one is still being stopped; and that loop
\* runs, or will once its thread has started, unless libvirt itself gave up:
\* a reference is never obtained to a loop that is being stopped.
SharedLoopRuns ==
    /\ TypeOK
    /\ \A u, v \in User :
        upc[u] \in Referring /\ upc[v] \in Referring => uses[u] = uses[v]
    /\ \A u \in User : upc[u] = "using" =>
        \/ m_run_loop_state[uses[u]] \in {"starting", "running"}
        \/ uses[u] \in broken

\* Whoever drops the last reference gets out of ~EventLoopImpl: neither
\* notification is missed.
DestroyReturns == \A u \in User : upc[u] = "stop" ~> upc[u] = "idle"
=============================================================================
