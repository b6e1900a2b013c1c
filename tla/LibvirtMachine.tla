---------------------------- MODULE LibvirtMachine ----------------------------
(***************************************************************************)
(* The life of one machine on a libvirt host: LibvirtBackend::Impl::spawn, *)
(* the waits of spawn_machine, ~LibvirtMachine::Impl, and under them       *)
(* HypervisorImpl, ConnectionImpl and MachineImpl of libvirt.cpp.          *)
(*                                                                         *)
(* Every machine has a hypervisor and a connection of its own, so one      *)
(* machine is the whole story.  Three actors take part: the owner (the     *)
(* worker that spawns the machine, then whoever the pool leases it to),    *)
(* the thread of the event loop, and the host.  A machine is shared by     *)
(* the map of its hypervisor, the owner, and a handler while it runs;      *)
(* whoever drops the last reference deletes the volume.                    *)
(***************************************************************************)
EXTENDS Integers, Sequences, FiniteSets

CONSTANTS
    MaxFaults,      \* bound on failed calls, lost connections and halts of the domain
    Timeout,        \* of both waits, in units of their sleep
    MaxTime         \* where the clock of the waits stops

ASSUME MachineAssumption ==
    /\ MaxFaults \in Nat
    /\ Timeout \in Nat \ {0}
    /\ MaxTime \in Nat /\ Timeout < MaxTime

VARIABLES
    opc,            \* where the owner is
    conn,           \* the connection the owner has a raw pointer into
    now,            \* time since the wait of the owner began
    m_conn,         \* the pointer of ConnectionImpl: null, open, or to a lost one
    link,           \* how many connections were opened
    faults,         \* failures so far
    failed,         \* the steps that met one, and the halts
    events,         \* received from the host, not dispatched yet
    hpc,            \* where the thread of the event loop is
    event,          \* what it handles
    registered,     \* handlers libvirt knows for the current connection
    refs,           \* who shares the machine
    m_quit, m_ready,
    volume, domain, \* what exists on the host
    agent,          \* the guest agent has connected
    signal          \* the shutdown signal

owner == <<opc, conn, now>>
calls == <<m_conn, link, faults, failed>>
loop == <<events, hpc, event, registered>>
machine == <<refs, m_quit, m_ready>>
host == <<volume, domain, agent>>
vars == <<owner, calls, loop, machine, host, signal>>

Handlers == {"lifecycle", "agent"}

\* STARTED and RESUMED are one kind, which the handler ignores.  It takes all
\* others for the end; apart here are the suspension of a paused start, what a
\* domain reports that stops running without being gone, and STOPPED.
LifecycleEvent == {"started", "suspended", "halted", "stopped"}
Event == LifecycleEvent \cup {"agent", "close"}
HandlerOf(e) == IF e \in LifecycleEvent THEN "lifecycle" ELSE "agent"

\* Steps of the owner, in the order of a life without failure.
OwnerState == {"connect", "spawn", "volume", "domain", "lifecycle", "emplace",
               "resume", "agent_wait", "ping", "exec", "ready", "terminate",
               "drop", "unregister", "map", "disconnect", "done"}

TypeOK ==
    /\ opc \in OwnerState
    /\ link \in 0 .. MaxFaults + 1 /\ conn \in 0 .. link
    /\ now \in 0 .. MaxTime
    /\ m_conn \in {"null", "open", "lost"}
    /\ faults \in 0 .. MaxFaults /\ failed \subseteq OwnerState \cup {"delete", "halt"}
    /\ events \in Seq(Event) /\ event \in Event
    /\ hpc \in {"idle", "enter", "drop"}
    /\ registered \subseteq Handlers
    /\ registered # {} => m_conn # "null"
    /\ refs \subseteq {"map", "owner", "handler"}
    /\ "handler" \in refs <=> hpc = "drop"
    /\ m_quit \in BOOLEAN /\ m_ready \in BOOLEAN
    /\ volume \in {"none", "present", "deleted"}
    /\ domain \in {"none", "paused", "running", "halted", "gone"}
    /\ agent \in BOOLEAN /\ signal \in BOOLEAN

Init ==
    /\ opc = "connect" /\ conn = 0 /\ now = 0
    /\ m_conn = "null" /\ link = 0 /\ faults = 0 /\ failed = {}
    /\ events = <<>> /\ hpc = "idle" /\ event = "started" /\ registered = {}
    /\ refs = {} /\ m_quit = FALSE /\ m_ready = FALSE
    /\ volume = "none" /\ domain = "none" /\ agent = FALSE
    /\ signal = FALSE

-----------------------------------------------------------------------------
(* Calls to libvirt.                                                       *)

Fault == faults < MaxFaults /\ faults' = faults + 1

\* ConnectionImpl::get connects again after the close handler reset m_conn;
\* nobody registers the handlers of the hypervisor again.
Get ==
    IF m_conn = "null"
    THEN m_conn' = "open" /\ link' = link + 1
    ELSE UNCHANGED <<m_conn, link>>

\* A call on what get returns.
CallOk == m_conn # "lost" /\ Get /\ UNCHANGED <<faults, failed>>
CallFails(step) ==
    /\ failed' = failed \cup {step}
    /\ \/ m_conn = "lost" /\ UNCHANGED <<m_conn, link, faults>>
       \/ Fault /\ (Get \/ UNCHANGED <<m_conn, link>>)

\* A call on a connection obtained earlier.
RawUsable == conn = link /\ m_conn = "open"
RawOk == RawUsable /\ UNCHANGED calls
RawFails ==
    /\ failed' = failed \cup {opc}
    /\ \/ ~RawUsable /\ UNCHANGED faults
       \/ Fault
    /\ UNCHANGED <<m_conn, link>>

\* The host tells the handler of the current connection, if it is registered.
Send(handler, es) ==
    events' = IF m_conn = "open" /\ handler \in registered THEN events \o es ELSE events

\* Mutant: a machine that decayed keeps its volume.
Release_unless_quit(who) ==
    /\ refs' = refs \ {who}
    /\ IF refs = {who} /\ ~m_quit
       THEN \/ CallOk /\ volume' = "deleted"
            \/ CallFails("delete") /\ UNCHANGED volume
       ELSE UNCHANGED <<calls, volume>>

\* A reference goes away; with the last one ~MachineImpl deletes the volume.
Release(who) ==
    /\ refs' = refs \ {who}
    /\ IF refs = {who}
       THEN \/ CallOk /\ volume' = "deleted"
            \/ CallFails("delete") /\ UNCHANGED volume
       ELSE UNCHANGED <<calls, volume>>

OwnerTo(from, to) == opc = from /\ opc' = to

-----------------------------------------------------------------------------
(* HypervisorImpl::create and spawn.                                       *)

register_event_handlers ==
    /\ OwnerTo("connect", "spawn")
    /\ CallOk
    /\ registered' = Handlers
    /\ UNCHANGED <<conn, now, events, hpc, event, machine, host, signal>>

\* One of the two registrations, or the connection itself, fails.
register_fails ==
    /\ OwnerTo("connect", "unregister")
    /\ CallFails(opc)
    /\ registered' \in IF m_conn' = "open" THEN {{}, {"lifecycle"}} ELSE {{}}
    /\ UNCHANGED <<conn, now, events, hpc, event, machine, host, signal>>

\* The first get of spawn; its pointer is used again by create_domain.
spawn ==
    /\ OwnerTo("spawn", "volume")
    /\ CallOk
    /\ conn' = link'
    /\ UNCHANGED <<now, loop, machine, host, signal>>

\* Also when read_file throws before spawn is entered.
spawn_fails ==
    /\ OwnerTo("spawn", "unregister")
    /\ CallFails(opc)
    /\ UNCHANGED <<conn, now, loop, machine, host, signal>>

create_volume ==
    /\ OwnerTo("volume", "domain")
    /\ CallOk
    /\ volume' = "present"
    /\ UNCHANGED <<conn, now, loop, machine, domain, agent, signal>>

\* No volume, or a volume whose key cannot be had.
create_volume_fails ==
    /\ OwnerTo("volume", "unregister")
    /\ CallFails(opc)
    /\ volume' \in {"none", "present"}
    /\ UNCHANGED <<conn, now, loop, machine, domain, agent, signal>>

\* VIR_DOMAIN_START_PAUSED: the host reports a start and a suspension.
create_domain ==
    /\ OwnerTo("domain", "lifecycle")
    /\ RawOk
    /\ domain' = "paused"
    /\ Send("lifecycle", <<"started", "suspended">>)
    /\ UNCHANGED <<conn, now, hpc, event, registered, machine, volume, agent,
                   signal>>

create_domain_fails ==
    /\ OwnerTo("domain", "unregister")
    /\ RawFails
    /\ UNCHANGED <<conn, now, loop, machine, host, signal>>

\* The connection is lost after the domain was created.
create_domain_reply_lost ==
    /\ OwnerTo("domain", "unregister")
    /\ RawUsable
    /\ Fault
    /\ failed' = failed \cup {opc}
    /\ domain' = "paused"
    /\ m_conn' = "lost"
    /\ events' = Append(events, "close")
    /\ UNCHANGED <<conn, now, link, hpc, event, registered, machine, volume,
                   agent, signal>>

set_lifecycle_action ==
    /\ OwnerTo("lifecycle", "emplace")
    /\ RawOk
    /\ UNCHANGED <<conn, now, loop, machine, host, signal>>

\* spawn returns and leaves the volume and the domain behind.
set_lifecycle_action_fails ==
    /\ OwnerTo("lifecycle", "unregister")
    /\ RawFails
    /\ UNCHANGED <<conn, now, loop, machine, host, signal>>

emplace ==
    /\ OwnerTo("emplace", "resume")
    /\ refs' = {"map", "owner"}
    /\ UNCHANGED <<conn, now, calls, loop, m_quit, m_ready, host, signal>>

resume ==
    /\ OwnerTo("resume", "agent_wait")
    /\ CallOk
    /\ domain' = "running"
    /\ Send("lifecycle", <<"started">>)
    /\ now' = 0
    /\ UNCHANGED <<conn, hpc, event, registered, machine, volume, agent, signal>>

\* There is no LibvirtMachine yet, so nothing terminates the domain.
resume_fails ==
    /\ OwnerTo("resume", "drop")
    /\ CallFails(opc)
    /\ UNCHANGED <<conn, now, loop, machine, host, signal>>

-----------------------------------------------------------------------------
(* LibvirtMachine::Impl::wait_for_guest_agent.                             *)

\* Mutant: the waits do not look at the signal.
is_signalled_deaf == FALSE

is_signalled == signal

Later == now' = IF now < MaxTime THEN now + 1 ELSE now

\* Mutant: the start of the wait minus the present.
AgentTimedOut_reversed == 0 - now >= Timeout

\* The start of the wait is time 0.
AgentTimedOut == now - 0 >= Timeout

agent_wait_ready ==
    /\ OwnerTo("agent_wait", "ping")
    /\ ~is_signalled /\ ~m_quit /\ m_ready
    /\ now' = 0
    /\ UNCHANGED <<conn, calls, loop, machine, host, signal>>

\* The wait ends for the signal, a decayed machine or the time-out, in this
\* order, and the machine is destroyed.
agent_wait_fails ==
    /\ OwnerTo("agent_wait", "terminate")
    /\ is_signalled \/ m_quit \/ (~m_ready /\ AgentTimedOut)
    /\ UNCHANGED <<conn, now, calls, loop, machine, host, signal>>

agent_wait_sleep ==
    /\ opc = "agent_wait"
    /\ ~is_signalled /\ ~m_quit /\ ~m_ready /\ ~AgentTimedOut
    /\ Later
    /\ UNCHANGED <<opc, conn, calls, loop, machine, host, signal>>

-----------------------------------------------------------------------------
(* wait_until_gitea_instance_available, over MachineImpl::shell_exec.      *)

\* The loop goes on while the start minus the present is below the time-out.
PingInTime == 0 - now < Timeout

ping_stop ==
    /\ OwnerTo("ping", "terminate")
    /\ is_signalled \/ ~PingInTime
    /\ UNCHANGED <<conn, now, calls, loop, machine, host, signal>>

\* guest-exec; shell_exec keeps the domain it looked up until it returns.
ping ==
    /\ OwnerTo("ping", "exec")
    /\ ~is_signalled /\ PingInTime
    /\ domain = "running"
    /\ CallOk
    /\ conn' = link'
    /\ UNCHANGED <<now, loop, machine, host, signal>>

ping_fails ==
    /\ OwnerTo("ping", "terminate")
    /\ ~is_signalled /\ PingInTime
    /\ CallFails(opc) \/ (domain \in {"halted", "gone"} /\ CallOk)
    /\ UNCHANGED <<conn, now, loop, machine, host, signal>>

\* guest-exec-status reports, after any number of polls, that the command
\* has ended: the host answers, or it does not and the machine waits.
exec_exits ==
    /\ opc = "exec"
    /\ domain = "running"
    /\ RawOk
    /\ \/ opc' = "ready" /\ UNCHANGED now
       \/ opc' = "ping" /\ Later
    /\ UNCHANGED <<conn, loop, machine, host, signal>>

exec_fails ==
    /\ OwnerTo("exec", "terminate")
    /\ RawFails \/ (domain \in {"halted", "gone"} /\ RawOk)
    /\ UNCHANGED <<conn, now, loop, machine, host, signal>>

-----------------------------------------------------------------------------
(* ~LibvirtMachine::Impl and ~HypervisorImpl.                              *)

\* The last lease is over, or the pool stops.
destroy ==
    /\ OwnerTo("ready", "terminate")
    /\ UNCHANGED <<conn, now, calls, loop, machine, host, signal>>

\* Mutant: nobody terminates the domain.
terminate_skipped ==
    /\ OwnerTo("terminate", "drop")
    /\ UNCHANGED <<conn, now, calls, loop, machine, host, signal>>

\* kill; its result is ignored.
terminate ==
    /\ OwnerTo("terminate", "drop")
    /\ \/ CallOk /\ domain' = "gone"
          /\ IF domain = "gone" THEN UNCHANGED events ELSE Send("lifecycle", <<"stopped">>)
       \/ CallFails(opc) /\ UNCHANGED <<domain, events>>
    /\ UNCHANGED <<conn, now, hpc, event, registered, machine, volume, agent,
                   signal>>

drop_machine ==
    /\ OwnerTo("drop", "unregister")
    /\ Release("owner")
    /\ UNCHANGED <<conn, now, loop, m_quit, m_ready, domain, agent, signal>>

\* ~HypervisorImpl.  Deregistration is assumed to wait for a handler that
\* runs; it is local, so that a lost connection does not prevent it.
unregister_event_handlers ==
    /\ OwnerTo("unregister", "map")
    /\ hpc = "idle"
    /\ CallOk \/ CallFails(opc)
    /\ registered' = {}
    /\ UNCHANGED <<conn, now, events, hpc, event, machine, host, signal>>

\* The map of the hypervisor goes away.
clear_map ==
    /\ OwnerTo("map", "disconnect")
    /\ IF "map" \in refs THEN Release("map") ELSE UNCHANGED <<refs, calls, volume>>
    /\ UNCHANGED <<conn, now, loop, m_quit, m_ready, domain, agent, signal>>

\* ~ConnectionImpl.
disconnect ==
    /\ OwnerTo("disconnect", "done")
    /\ m_conn' = "null"
    /\ events' = <<>>
    /\ UNCHANGED <<conn, now, link, faults, failed, hpc, event, registered, machine,
                   host, signal>>

-----------------------------------------------------------------------------
(* The thread of the event loop.                                           *)

\* virEventRunDefaultImpl calls the handler of the next event, if it is
\* still registered.
dispatch ==
    /\ hpc = "idle" /\ events # <<>> /\ Head(events) # "close"
    /\ events' = Tail(events)
    /\ IF HandlerOf(Head(events)) \in registered
       THEN hpc' = "enter" /\ event' = Head(events)
       ELSE UNCHANGED <<hpc, event>>
    /\ UNCHANGED <<owner, calls, registered, machine, host, signal>>

\* Anything but a start or a resumption is the end of a tracked machine.
lifecycle_event_handler ==
    /\ hpc = "enter" /\ event \in LifecycleEvent
    /\ IF event # "started" /\ "map" \in refs
       THEN /\ m_quit' = TRUE
            /\ refs' = (refs \ {"map"}) \cup {"handler"}
            /\ hpc' = "drop"
       ELSE hpc' = "idle" /\ UNCHANGED <<m_quit, refs>>
    /\ UNCHANGED <<owner, calls, events, event, registered, m_ready, host, signal>>

agent_lifecycle_event_handler ==
    /\ hpc = "enter" /\ event = "agent"
    /\ IF "map" \in refs
       THEN /\ m_ready' = TRUE
            /\ refs' = refs \cup {"handler"}
            /\ hpc' = "drop"
       ELSE hpc' = "idle" /\ UNCHANGED <<m_ready, refs>>
    /\ UNCHANGED <<owner, calls, events, event, registered, m_quit, host, signal>>

\* The handler's own reference goes away.
handler_returns ==
    /\ hpc = "drop" /\ hpc' = "idle"
    /\ Release("handler")
    /\ UNCHANGED <<owner, events, event, registered, m_quit, m_ready, domain, agent,
                   signal>>

close_event_handler ==
    /\ hpc = "idle" /\ events # <<>> /\ Head(events) = "close"
    /\ events' = Tail(events)
    /\ m_conn' = "null"
    /\ registered' = {}
    /\ UNCHANGED <<owner, link, faults, failed, hpc, event, machine, host, signal>>

-----------------------------------------------------------------------------
(* The host and the guest.                                                 *)

agent_connects ==
    /\ domain = "running" /\ ~agent
    /\ agent' = TRUE
    /\ Send("agent", <<"agent">>)
    /\ UNCHANGED <<owner, calls, hpc, event, registered, machine, volume, domain,
                   signal>>

\* The domain stops running and is not gone: the guest shuts down or sleeps, or
\* the host suspends it for an I/O error or an operator.  SHUTDOWN, PMSUSPENDED
\* or SUSPENDED is reported.
domain_halts ==
    /\ domain = "running"
    /\ Fault
    /\ domain' = "halted"
    /\ failed' = failed \cup {"halt"}
    /\ Send("lifecycle", <<"halted">>)
    /\ UNCHANGED <<owner, m_conn, link, hpc, event, registered, machine, volume,
                   agent, signal>>

\* It is woken or resumed.
domain_resumes ==
    /\ domain = "halted"
    /\ domain' = "running"
    /\ Send("lifecycle", <<"started">>)
    /\ UNCHANGED <<owner, calls, hpc, event, registered, machine, volume, agent,
                   signal>>

\* The guest has powered off, reboots or crashes; each destroys the domain.
domain_ends ==
    /\ domain \in {"running", "halted"}
    /\ domain' = "gone"
    /\ Send("lifecycle", <<"stopped">>)
    /\ UNCHANGED <<owner, calls, hpc, event, registered, machine, volume, agent,
                   signal>>

\* Events that were not received yet are lost too.
connection_lost ==
    /\ m_conn = "open" /\ opc # "done"
    /\ Fault
    /\ m_conn' = "lost"
    /\ \E n \in 0 .. Len(events) : events' = Append(SubSeq(events, 1, n), "close")
    /\ UNCHANGED <<owner, link, failed, hpc, event, registered, machine, host,
                   signal>>

shutdown_signalled ==
    /\ ~signal /\ signal' = TRUE
    /\ UNCHANGED <<owner, calls, loop, machine, host>>

finished == opc = "done" /\ UNCHANGED vars

-----------------------------------------------------------------------------
Spawning ==
    \/ register_event_handlers \/ register_fails \/ spawn \/ spawn_fails
    \/ create_volume \/ create_volume_fails
    \/ create_domain \/ create_domain_fails \/ create_domain_reply_lost
    \/ set_lifecycle_action \/ set_lifecycle_action_fails
    \/ emplace \/ resume \/ resume_fails

Booting ==
    \/ agent_wait_ready \/ agent_wait_fails \/ agent_wait_sleep
    \/ ping_stop \/ ping \/ ping_fails \/ exec_exits \/ exec_fails

Destroying ==
    terminate \/ drop_machine \/ unregister_event_handlers \/ clear_map \/ disconnect

Handling ==
    \/ dispatch \/ lifecycle_event_handler \/ agent_lifecycle_event_handler
    \/ handler_returns \/ close_event_handler

Host ==
    \/ agent_connects \/ domain_halts \/ domain_resumes \/ domain_ends
    \/ connection_lost

Next ==
    \/ Spawning \/ Booting \/ destroy \/ Destroying
    \/ Handling \/ Host \/ shutdown_signalled \/ finished

Spec == Init /\ [][Next]_vars

\* The owner goes on where it can, and so does the thread of the event loop.
\* A command in a guest ends.  The pool keeps a machine as long as it likes,
\* but not after the signal.
Fairness ==
    /\ WF_vars(Spawning \/ Booting \/ Destroying)
    /\ WF_vars(signal /\ destroy)
    /\ WF_vars(Handling)

FairSpec == Spec /\ Fairness
-----------------------------------------------------------------------------
(* Properties.                                                             *)

\* When a machine is over, its domain and its volume are gone, whoever held
\* the last reference, unless the call that should have removed them failed,
\* or spawn gave up between the creation of one and the end of spawn.  (And
\* the types.)
NothingLeft ==
    /\ TypeOK
    /\ opc = "done" =>
        /\ domain \in {"none", "gone"}
           \/ failed \cap {"domain", "lifecycle", "resume", "terminate"} # {}
        /\ volume \in {"none", "deleted"}
           \/ failed \cap {"volume", "domain", "lifecycle", "delete"} # {}

\* News of a domain that comes early or late does no harm to a healthy machine.
\* It takes the machine out of the map, never away from its owner: the volume is
\* not deleted under a domain that still exists, unless the domain could not be
\* resumed or killed.  And a machine that was ready is marked as decayed only if
\* its domain is gone or was once halted (the handler never looks whether it is
\* running again): the suspension that comes with every paused start can reach
\* the handler when the machine is in the map already, and such a machine is
\* given up, but it can never have become ready.
NewsOutOfTime ==
    /\ volume = "deleted" /\ domain \in {"paused", "running", "halted"}
        => failed \cap {"resume", "terminate"} # {}
    /\ m_quit /\ m_ready => domain = "gone" \/ "halt" \in failed

\* Whatever news is lost, the wait for the guest agent ends.
AgentWaitEnds == opc = "agent_wait" ~> opc # "agent_wait"

\* After the signal every machine is destroyed, wherever in its life it is.
SignalEnds == signal ~> opc = "done"

\* The wait for the network of the guest ends.
PingEnds == opc = "ping" ~> opc \notin {"ping", "exec"}
=============================================================================
