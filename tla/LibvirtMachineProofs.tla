------------------------ MODULE LibvirtMachineProofs ------------------------
(***************************************************************************)
(* The invariants of LibvirtMachine, for every number of failed calls,     *)
(* lost connections and halted domains and every time-out.                 *)
(***************************************************************************)
EXTENDS LibvirtMachine, SequenceTheorems, TLAPS

-----------------------------------------------------------------------------
(* The inductive invariant.                                                *)

\* Before the machine is shared; while its owner has it; after that.
Early == {"connect", "spawn", "volume", "domain", "lifecycle", "emplace"}
Owning == {"resume", "agent_wait", "ping", "exec", "ready", "terminate", "drop"}
Ending == {"unregister", "map", "disconnect", "done"}

\* Another connection is opened only after one was lost.
LinkInv ==
    /\ link <= faults + 1
    /\ opc # "done" /\ m_conn # "open" => link <= faults

\* Nothing comes after the news that the connection is gone; news of the end of
\* the domain is true; and the suspension that comes with every start is ahead
\* of the news of the guest agent, in the queue and in what was handled.
InOrder(q, c, d, a) == \A i \in 1 .. Len(q) :
    /\ q[i] = "close" => c = "lost" /\ i = Len(q)
    /\ q[i] = "stopped" => d = "gone"
    /\ q[i] = "agent" => a = TRUE /\ \A j \in i .. Len(q) : q[j] # "suspended"

Suspends(q) == \E i \in 1 .. Len(q) : q[i] = "suspended"
Halts(q) == \E i \in 1 .. Len(q) : q[i] = "halted"

EventInv ==
    /\ InOrder(events, m_conn, domain, agent)
    /\ m_ready \/ (hpc # "idle" /\ event = "agent") => agent /\ ~Suspends(events)
    /\ hpc # "idle" /\ event = "stopped" => domain = "gone"
    /\ hpc = "enter" /\ event = "suspended" => ~m_ready
    /\ agent => domain \in {"running", "halted", "gone"}
    /\ domain = "halted" => "halt" \in failed
    /\ Halts(events) \/ (hpc # "idle" /\ event = "halted") => "halt" \in failed

\* Who shares the machine, and what that says of it.
LifeInv ==
    /\ opc \in {"connect", "spawn", "volume", "domain"} => domain = "none"
    /\ opc \in {"lifecycle", "emplace", "resume"} => domain = "paused"
    /\ opc \in Early => refs = {} /\ ~m_quit
    /\ "owner" \in refs <=> opc \in Owning
    /\ "map" \in refs => ~m_quit
    /\ opc \in {"map", "disconnect", "done"} => hpc = "idle" /\ registered = {}
    /\ opc \in {"disconnect", "done"} => refs = {}
    /\ m_quit /\ m_ready => domain = "gone" \/ "halt" \in failed

\* The domain was terminated, or the call that should have done so failed.
Terminated == domain = "gone" \/ failed \cap {"resume", "terminate"} # {}

\* What is left of the machine once its owner is through with it.
OverInv ==
    /\ opc = "drop" => Terminated
    /\ refs # {} /\ "owner" \notin refs => Terminated
    /\ volume = "deleted" => Terminated /\ opc \in Ending /\ refs = {}
    /\ opc \in {"connect", "spawn", "volume"} => volume = "none"
    /\ opc \in Ending =>
        domain \in {"none", "gone"}
        \/ failed \cap {"domain", "lifecycle", "resume", "terminate"} # {}
    /\ opc \in Ending /\ refs = {} =>
        volume \in {"none", "deleted"}
        \/ failed \cap {"volume", "domain", "lifecycle", "delete"} # {}

MachineInv == TypeOK /\ LinkInv /\ EventInv /\ LifeInv /\ OverInv

-----------------------------------------------------------------------------
(* The queue of events.                                                    *)

\* The host sends more to a connection that is open.
LEMMA QueueGrows ==
    ASSUME NEW q \in Seq(Event), NEW es \in Seq(Event), NEW c, NEW d, NEW a,
           NEW dd, NEW aa,
           InOrder(q, c, d, a), InOrder(es, c, dd, aa),
           c = "open", d = "gone" => dd = "gone", a = TRUE => aa = TRUE,
           Suspends(es) => a = FALSE
    PROVE  /\ q \o es \in Seq(Event)
           /\ InOrder(q \o es, c, dd, aa)
           /\ Suspends(q \o es) => Suspends(q) \/ Suspends(es)
           /\ Halts(q \o es) => Halts(q) \/ Halts(es)
<1> DEFINE qq == q \o es
<1>1. /\ qq \in Seq(Event) /\ Len(q) \in Nat /\ Len(es) \in Nat
      /\ Len(qq) = Len(q) + Len(es)
      /\ \A i \in 1 .. Len(q) : qq[i] = q[i]
      /\ \A i \in 1 .. Len(qq) : i > Len(q) => i - Len(q) \in 1 .. Len(es) /\ qq[i] = es[i - Len(q)]
  OBVIOUS
<1> HIDE DEF qq
<1>2. \A i \in 1 .. Len(qq) : i \in 1 .. Len(q) \/ i > Len(q)
  BY <1>1
<1>3. ASSUME NEW i \in 1 .. Len(qq)
      PROVE  /\ qq[i] # "close"
             /\ qq[i] = "stopped" => dd = "gone"
             /\ qq[i] = "agent" => aa = TRUE
  BY <1>1, <1>2 DEF InOrder
<1>4. ASSUME NEW i \in 1 .. Len(qq), NEW j \in i .. Len(qq), qq[i] = "agent", qq[j] = "suspended"
      PROVE  FALSE
  <2>1. CASE i \in 1 .. Len(q)
    <3>1. a = TRUE
      BY <1>1, <1>4, <2>1 DEF InOrder
    <3>2. j \in i .. Len(q) \/ (j \in 1 .. Len(qq) /\ j > Len(q))
      BY <1>1, <2>1
    <3>3. CASE j \in i .. Len(q)
      <4>1. j \in 1 .. Len(q)
        BY <1>1, <2>1, <3>3
      <4> QED
        BY <1>1, <1>4, <2>1, <3>3, <4>1 DEF InOrder
    <3>4. CASE j \in 1 .. Len(qq) /\ j > Len(q)
      BY <1>1, <1>4, <3>1, <3>4 DEF Suspends
    <3> QED
      BY <3>2, <3>3, <3>4
  <2>2. CASE i > Len(q)
    <3>1. j \in 1 .. Len(qq) /\ j > Len(q) /\ j - Len(q) \in (i - Len(q)) .. Len(es)
      BY <1>1, <2>2
    <3> QED
      BY <1>1, <1>4, <2>2, <3>1 DEF InOrder
  <2> QED
    BY <1>2, <2>1, <2>2
<1>5. InOrder(qq, c, dd, aa)
  BY <1>3, <1>4 DEF InOrder
<1>6. Suspends(qq) => Suspends(q) \/ Suspends(es)
  BY <1>1, <1>2 DEF Suspends
<1>7. Halts(qq) => Halts(q) \/ Halts(es)
  BY <1>1, <1>2 DEF Halts
<1> QED
  BY <1>1, <1>5, <1>6, <1>7 DEF qq

\* The thread of the event loop takes the next event; nothing follows a close.
LEMMA QueueShrinks ==
    ASSUME NEW q \in Seq(Event), NEW c, NEW d, NEW a, InOrder(q, c, d, a), q # <<>>
    PROVE  /\ Tail(q) \in Seq(Event) /\ Head(q) \in Event
           /\ InOrder(Tail(q), c, d, a)
           /\ Suspends(Tail(q)) => Suspends(q)
           /\ Head(q) = "suspended" => Suspends(q)
           /\ Halts(Tail(q)) \/ Head(q) = "halted" => Halts(q)
           /\ Head(q) = "stopped" => d = "gone"
           /\ Head(q) = "agent" => a = TRUE /\ ~Suspends(Tail(q))
           /\ Head(q) = "close" => c = "lost" /\ Tail(q) = <<>>
<1> DEFINE t == Tail(q)
<1>a. Head(q) \in Event /\ Head(q) = q[1] /\ Len(q) \in Nat /\ Len(q) >= 1
  OBVIOUS
<1>b. /\ t \in Seq(Event) /\ Len(t) = Len(q) - 1
      /\ \A i \in 1 .. Len(t) : t[i] = q[i + 1] /\ i + 1 \in 1 .. Len(q)
  OBVIOUS
<1>c. Len(t) = 0 => t = <<>>
  BY <1>b, EmptySeq
<1>1. /\ t \in Seq(Event) /\ Head(q) \in Event /\ Head(q) = q[1] /\ Len(q) \in Nat /\ Len(q) >= 1
      /\ Len(t) = Len(q) - 1
      /\ \A i \in 1 .. Len(t) : t[i] = q[i + 1] /\ i + 1 \in 1 .. Len(q)
      /\ Len(t) = 0 => t = <<>>
  BY <1>a, <1>b, <1>c
<1> HIDE DEF t
<1>2. InOrder(t, c, d, a)
  BY <1>1 DEF InOrder
<1>3. Suspends(t) => \E i \in 2 .. Len(q) : q[i] = "suspended"
  BY <1>1 DEF Suspends
<1>4. 1 \in 1 .. Len(q) /\ \A i \in 2 .. Len(q) : i \in 1 .. Len(q)
  BY <1>1
<1>5. Head(q) = "close" => c = "lost" /\ t = <<>>
  BY <1>1, <1>4 DEF InOrder
<1>6. Head(q) = "agent" => a = TRUE /\ ~Suspends(t)
  BY <1>1, <1>3, <1>4 DEF InOrder
<1>7. /\ Head(q) = "stopped" => d = "gone"
      /\ Head(q) = "suspended" => Suspends(q)
      /\ Suspends(t) => Suspends(q)
  BY <1>1, <1>3, <1>4 DEF InOrder, Suspends
<1>8. Halts(t) \/ Head(q) = "halted" => Halts(q)
  BY <1>1, <1>4 DEF Halts
<1> QED
  BY <1>1, <1>2, <1>5, <1>6, <1>7, <1>8 DEF t

\* The connection is lost, and with it what was not received yet.
LEMMA QueueCut ==
    ASSUME NEW q \in Seq(Event), NEW c, NEW d, NEW a, NEW n \in 0 .. Len(q),
           InOrder(q, c, d, a), c # "lost"
    PROVE  LET qq == Append(SubSeq(q, 1, n), "close") IN
           /\ qq \in Seq(Event)
           /\ InOrder(qq, "lost", d, a)
           /\ Suspends(qq) => Suspends(q)
           /\ Halts(qq) => Halts(q)
<1> DEFINE b == SubSeq(q, 1, n)
           qq == Append(b, "close")
<1>1. /\ Len(q) \in Nat /\ n \in Nat /\ n <= Len(q)
      /\ b \in Seq(Event) /\ Len(b) = n /\ \A i \in 1 .. n : b[i] = q[i]
  OBVIOUS
<1> HIDE DEF b
<1>2. /\ qq \in Seq(Event) /\ Len(qq) = n + 1 /\ qq[n + 1] = "close"
      /\ \A i \in 1 .. n : qq[i] = q[i] /\ i \in 1 .. Len(q)
  BY <1>1 DEF Event
<1> HIDE DEF qq
<1>3. \A i \in 1 .. Len(qq) : i \in 1 .. n \/ i = n + 1
  BY <1>1, <1>2
<1>4. InOrder(qq, "lost", d, a)
  <2> SUFFICES ASSUME NEW i \in 1 .. Len(qq)
               PROVE  /\ qq[i] = "close" => i = Len(qq)
                      /\ qq[i] = "stopped" => d = "gone"
                      /\ qq[i] = "agent" => a = TRUE /\ \A j \in i .. Len(qq) : qq[j] # "suspended"
    BY DEF InOrder
  <2>1. CASE i \in 1 .. n
    <3>1. \A j \in i .. Len(qq) : j = n + 1 \/ (j \in 1 .. n /\ j \in i .. Len(q))
      BY <1>1, <1>2, <2>1
    <3> QED
      BY <1>2, <2>1, <3>1 DEF InOrder
  <2>2. CASE i = n + 1
    BY <1>1, <1>2, <2>2
  <2> QED
    BY <1>3, <2>1, <2>2
<1>5. Suspends(qq) => Suspends(q)
  BY <1>2, <1>3 DEF Suspends
<1>6. Halts(qq) => Halts(q)
  BY <1>2, <1>3 DEF Halts
<1> QED
  BY <1>2, <1>4, <1>5, <1>6 DEF qq, b

-----------------------------------------------------------------------------
(* Calls to libvirt.                                                       *)

\* What a call may do to the connection and to the record of failures.
Called ==
    /\ link' \in 0 .. MaxFaults + 1 /\ link <= link'
    /\ faults' \in 0 .. MaxFaults
    /\ m_conn' \in {"null", "open", "lost"}
    /\ m_conn # "null" => m_conn' = m_conn
    /\ failed \subseteq failed' /\ failed' \subseteq OwnerState \cup {"delete", "halt"}
    /\ link' <= faults' + 1
    /\ m_conn' # "open" => link' <= faults'

\* Every form of call does that while there is a hypervisor.
LEMMA CallStep ==
    ASSUME TypeOK, LinkInv, opc # "done", NEW step \in OwnerState \cup {"delete", "halt"},
           CallOk \/ CallFails(step) \/ RawOk \/ RawFails \/ UNCHANGED calls
    PROVE  Called
<1> USE MachineAssumption DEF TypeOK, LinkInv, Called, calls
<1>1. CASE UNCHANGED calls \/ RawOk
  BY <1>1 DEF RawOk
<1>2. CASE CallOk
  BY <1>2 DEF CallOk, Get
<1>3. CASE CallFails(step)
  <2>1. failed' = failed \cup {step}
    BY <1>3 DEF CallFails
  <2>2. CASE m_conn = "lost" /\ UNCHANGED <<m_conn, link, faults>>
    BY <2>1, <2>2
  <2>3. CASE Fault /\ (Get \/ UNCHANGED <<m_conn, link>>)
    BY <2>1, <2>3 DEF Fault, Get
  <2> QED
    BY <1>3, <2>2, <2>3 DEF CallFails
<1>4. CASE RawFails
  BY <1>4 DEF RawFails, Fault
<1> QED
  BY <1>1, <1>2, <1>3, <1>4

\* A reference that goes away: the volume goes with the last one.
LEMMA ReleaseStep ==
    ASSUME TypeOK, LinkInv, opc # "done", NEW who, Release(who)
    PROVE  /\ Called
           /\ refs' = refs \ {who}
           /\ refs # {who} => volume' = volume
           /\ refs = {who} => volume' = "deleted" \/ (volume' = volume /\ "delete" \in failed')
<1>1. CASE refs = {who}
  <2>1. \/ CallOk /\ volume' = "deleted"
        \/ CallFails("delete") /\ UNCHANGED volume
    BY <1>1 DEF Release
  <2>2. Called
    BY <2>1, CallStep
  <2>3. CallFails("delete") => "delete" \in failed'
    BY DEF CallFails
  <2> QED
    BY <1>1, <2>1, <2>2, <2>3 DEF Release
<1>2. CASE refs # {who}
  <2>1. UNCHANGED calls /\ UNCHANGED volume /\ refs' = refs \ {who}
    BY <1>2 DEF Release, calls
  <2>2. Called
    BY <2>1, CallStep
  <2> QED
    BY <1>2, <2>1, <2>2
<1> QED
  BY <1>1, <1>2

\* A step that neither sends nor handles keeps the order of the events.
LEMMA EventFrame ==
    ASSUME EventInv, UNCHANGED <<events, hpc, event, agent, m_ready>>,
           m_conn = "lost" => m_conn' = "lost",
           domain = "gone" => domain' = "gone",
           agent => domain' \in {"running", "halted", "gone"},
           failed \subseteq failed', domain' = "halted" => "halt" \in failed'
    PROVE  EventInv'
BY DEF EventInv, InOrder, Suspends, Halts

\* A step that sends es, or finds nobody who listens.
LEMMA SendStep ==
    ASSUME TypeOK, EventInv, NEW handler, NEW es \in Seq(Event), Send(handler, es),
           InOrder(es, "open", domain', agent'),
           Suspends(es) => ~agent /\ ~m_ready,
           UNCHANGED <<hpc, event, m_ready>>, agent' \in BOOLEAN, agent => agent',
           domain = "gone" => domain' = "gone",
           agent' => domain' \in {"running", "halted", "gone"},
           failed \subseteq failed',
           domain' = "halted" \/ Halts(es) => "halt" \in failed',
           m_conn # "null" => m_conn' = m_conn
    PROVE  EventInv' /\ events' \in Seq(Event)
<1>1. InOrder(events, m_conn', domain', agent')
  BY DEF EventInv, InOrder, TypeOK
<1>2. CASE events' = events
  BY <1>1, <1>2 DEF EventInv, Suspends, Halts, TypeOK
<1>3. CASE m_conn = "open" /\ events' = events \o es
  <2>1. /\ events' \in Seq(Event) /\ InOrder(events', m_conn', domain', agent')
        /\ Suspends(events') => Suspends(events) \/ Suspends(es)
        /\ Halts(events') => Halts(events) \/ Halts(es)
    <3>1. agent = FALSE \/ agent = TRUE
      BY DEF TypeOK
    <3>2. InOrder(events, "open", domain, agent) /\ events \in Seq(Event)
      BY <1>3 DEF EventInv, TypeOK
    <3>3. Suspends(es) => agent = FALSE
      BY <3>1
    <3>4. agent = TRUE => agent' = TRUE
      OBVIOUS
    <3> DEFINE c == "open"
    <3>5. /\ events \o es \in Seq(Event)
          /\ InOrder(events \o es, c, domain', agent')
          /\ Suspends(events \o es) => Suspends(events) \/ Suspends(es)
          /\ Halts(events \o es) => Halts(events) \/ Halts(es)
      <4> HIDE DEF c
      <4>1. c = "open"
        BY DEF c
      <4> QED
        BY <4>1, <3>2, <3>3, <3>4, QueueGrows
    <3> QED
      BY <1>3, <3>5
  <2> QED
    BY <2>1 DEF EventInv, Suspends, Halts
<1> QED
  BY <1>2, <1>3 DEF Send

\* The connection is lost after n of the events were received.
LEMMA LostStep ==
    ASSUME TypeOK, EventInv, m_conn = "open", m_conn' = "lost", NEW n \in 0 .. Len(events),
           events' = Append(SubSeq(events, 1, n), "close"),
           UNCHANGED <<hpc, event, m_ready, agent>>,
           domain = "gone" => domain' = "gone",
           agent => domain' \in {"running", "halted", "gone"},
           failed \subseteq failed', domain' = "halted" => "halt" \in failed'
    PROVE  EventInv' /\ events' \in Seq(Event)
<1>1. events \in Seq(Event) /\ InOrder(events, m_conn, domain', agent')
  BY DEF EventInv, InOrder, TypeOK
<1>2. /\ events' \in Seq(Event) /\ InOrder(events', "lost", domain', agent')
      /\ Suspends(events') => Suspends(events)
      /\ Halts(events') => Halts(events)
  BY <1>1, QueueCut
<1> QED
  BY <1>2 DEF EventInv, Suspends, Halts

\* What the host sends about the start of a domain.
LEMMA StartedEvents ==
    ASSUME NEW d, NEW a
    PROVE  /\ <<"started">> \in Seq(Event) /\ <<"started", "suspended">> \in Seq(Event)
           /\ InOrder(<<"started">>, "open", d, a)
           /\ InOrder(<<"started", "suspended">>, "open", d, a)
           /\ ~Suspends(<<"started">>)
           /\ ~Halts(<<"started">>) /\ ~Halts(<<"started", "suspended">>)
BY DEF Event, LifecycleEvent, InOrder, Suspends, Halts

\* Every step of spawn keeps the invariant.
LEMMA SpawningStep ==
    ASSUME MachineInv, Spawning
    PROVE  MachineInv'
<1>1. CASE register_event_handlers
  <2> USE <1>1 DEF register_event_handlers, OwnerTo
  <2>1. Called
    BY CallStep DEF MachineInv, OwnerState
  <2>2. EventInv'
    BY <2>1, EventFrame DEF MachineInv, Called, EventInv, LifeInv, loop, machine, host, Early
  <2>3. TypeOK'
    BY <2>1, <2>2, MachineAssumption DEF MachineInv, TypeOK, Called, LifeInv, owner, calls, loop, machine, host, OwnerState, Handlers, Early, CallOk, Get
  <2>4. LinkInv' /\ LifeInv'
    BY <2>1 DEF MachineInv, TypeOK, LinkInv, LifeInv, Called, owner, calls, loop, machine, host, Early, Owning
  <2>5. OverInv'
    BY <2>1 DEF MachineInv, TypeOK, LifeInv, OverInv, Called, CallFails, RawFails, owner, calls, loop, machine, host, Early, Owning, Ending, Terminated
  <2> QED
    BY <2>2, <2>3, <2>4, <2>5 DEF MachineInv
<1>2. CASE register_fails
  <2> USE <1>2 DEF register_fails, OwnerTo
  <2>1. Called
    BY CallStep DEF MachineInv, OwnerState
  <2>2. EventInv'
    BY <2>1, EventFrame DEF MachineInv, Called, EventInv, LifeInv, loop, machine, host, Early
  <2>3. TypeOK'
    BY <2>1, <2>2, MachineAssumption DEF MachineInv, TypeOK, Called, LifeInv, owner, calls, loop, machine, host, OwnerState, Handlers, Early
  <2>4. LinkInv' /\ LifeInv'
    BY <2>1 DEF MachineInv, TypeOK, LinkInv, LifeInv, Called, owner, calls, loop, machine, host, Early, Owning
  <2>5. OverInv'
    BY <2>1 DEF MachineInv, TypeOK, LifeInv, OverInv, Called, CallFails, RawFails, owner, calls, loop, machine, host, Early, Owning, Ending, Terminated
  <2> QED
    BY <2>2, <2>3, <2>4, <2>5 DEF MachineInv
<1>3. CASE spawn
  <2> USE <1>3 DEF spawn, OwnerTo
  <2>1. Called
    BY CallStep DEF MachineInv, OwnerState
  <2>2. EventInv'
    BY <2>1, EventFrame DEF MachineInv, Called, EventInv, LifeInv, loop, machine, host, Early
  <2>3. TypeOK'
    BY <2>1, <2>2, MachineAssumption DEF MachineInv, TypeOK, Called, LifeInv, owner, calls, loop, machine, host, OwnerState, Handlers, Early
  <2>4. LinkInv' /\ LifeInv'
    BY <2>1 DEF MachineInv, TypeOK, LinkInv, LifeInv, Called, owner, calls, loop, machine, host, Early, Owning
  <2>5. OverInv'
    BY <2>1 DEF MachineInv, TypeOK, LifeInv, OverInv, Called, CallFails, RawFails, owner, calls, loop, machine, host, Early, Owning, Ending, Terminated
  <2> QED
    BY <2>2, <2>3, <2>4, <2>5 DEF MachineInv
<1>4. CASE spawn_fails
  <2> USE <1>4 DEF spawn_fails, OwnerTo
  <2>1. Called
    BY CallStep DEF MachineInv, OwnerState
  <2>2. EventInv'
    BY <2>1, EventFrame DEF MachineInv, Called, EventInv, LifeInv, loop, machine, host, Early
  <2>3. TypeOK'
    BY <2>1, <2>2, MachineAssumption DEF MachineInv, TypeOK, Called, LifeInv, owner, calls, loop, machine, host, OwnerState, Handlers, Early
  <2>4. LinkInv' /\ LifeInv'
    BY <2>1 DEF MachineInv, TypeOK, LinkInv, LifeInv, Called, owner, calls, loop, machine, host, Early, Owning
  <2>5. OverInv'
    BY <2>1 DEF MachineInv, TypeOK, LifeInv, OverInv, Called, CallFails, RawFails, owner, calls, loop, machine, host, Early, Owning, Ending, Terminated
  <2> QED
    BY <2>2, <2>3, <2>4, <2>5 DEF MachineInv
<1>5. CASE create_volume
  <2> USE <1>5 DEF create_volume, OwnerTo
  <2>1. Called
    BY CallStep DEF MachineInv, OwnerState
  <2>2. EventInv'
    BY <2>1, EventFrame DEF MachineInv, Called, EventInv, LifeInv, loop, machine, host, Early
  <2>3. TypeOK'
    BY <2>1, <2>2, MachineAssumption DEF MachineInv, TypeOK, Called, LifeInv, owner, calls, loop, machine, host, OwnerState, Handlers, Early
  <2>4. LinkInv' /\ LifeInv'
    BY <2>1 DEF MachineInv, TypeOK, LinkInv, LifeInv, Called, owner, calls, loop, machine, host, Early, Owning
  <2>5. OverInv'
    BY <2>1 DEF MachineInv, TypeOK, LifeInv, OverInv, Called, CallFails, RawFails, owner, calls, loop, machine, host, Early, Owning, Ending, Terminated
  <2> QED
    BY <2>2, <2>3, <2>4, <2>5 DEF MachineInv
<1>6. CASE create_volume_fails
  <2> USE <1>6 DEF create_volume_fails, OwnerTo
  <2>1. Called
    BY CallStep DEF MachineInv, OwnerState
  <2>2. EventInv'
    BY <2>1, EventFrame DEF MachineInv, Called, EventInv, LifeInv, loop, machine, host, Early
  <2>3. TypeOK'
    BY <2>1, <2>2, MachineAssumption DEF MachineInv, TypeOK, Called, LifeInv, owner, calls, loop, machine, host, OwnerState, Handlers, Early
  <2>4. LinkInv' /\ LifeInv'
    BY <2>1 DEF MachineInv, TypeOK, LinkInv, LifeInv, Called, owner, calls, loop, machine, host, Early, Owning
  <2>5. OverInv'
    BY <2>1 DEF MachineInv, TypeOK, LifeInv, OverInv, Called, CallFails, RawFails, owner, calls, loop, machine, host, Early, Owning, Ending, Terminated
  <2> QED
    BY <2>2, <2>3, <2>4, <2>5 DEF MachineInv
<1>7. CASE create_domain
  <2> USE <1>7 DEF create_domain, OwnerTo
  <2>1. Called
    BY CallStep DEF MachineInv, OwnerState
  <2>2. EventInv' /\ events' \in Seq(Event)
    <3>1. domain' = "paused" /\ ~agent /\ ~m_ready /\ domain # "gone"
      BY DEF MachineInv, LifeInv, EventInv, Early
    <3> DEFINE es == <<"started", "suspended">>
    <3>2. es \in Seq(Event) /\ InOrder(es, "open", domain', agent') /\ ~Halts(es)
      BY StartedEvents
    <3>3. Send("lifecycle", es)
      OBVIOUS
    <3>4. TypeOK /\ EventInv /\ UNCHANGED <<hpc, event, m_ready, agent>> /\ agent \in BOOLEAN
      BY DEF MachineInv, machine, TypeOK
    <3>5. (m_conn # "null" => m_conn' = m_conn) /\ failed \subseteq failed'
      BY <2>1 DEF Called
    <3> HIDE DEF es
    <3> QED
      BY <3>1, <3>2, <3>3, <3>4, <3>5, SendStep
  <2>3. TypeOK'
    BY <2>1, <2>2, MachineAssumption DEF MachineInv, TypeOK, Called, LifeInv, owner, calls, loop, machine, host, OwnerState, Handlers, Early
  <2>4. LinkInv' /\ LifeInv'
    BY <2>1 DEF MachineInv, TypeOK, LinkInv, LifeInv, Called, owner, calls, loop, machine, host, Early, Owning
  <2>5. OverInv'
    BY <2>1 DEF MachineInv, TypeOK, LifeInv, OverInv, Called, CallFails, RawFails, owner, calls, loop, machine, host, Early, Owning, Ending, Terminated
  <2> QED
    BY <2>2, <2>3, <2>4, <2>5 DEF MachineInv
<1>8. CASE create_domain_fails
  <2> USE <1>8 DEF create_domain_fails, OwnerTo
  <2>1. Called
    BY CallStep DEF MachineInv, OwnerState
  <2>2. EventInv'
    BY <2>1, EventFrame DEF MachineInv, Called, EventInv, LifeInv, loop, machine, host, Early
  <2>3. TypeOK'
    BY <2>1, <2>2, MachineAssumption DEF MachineInv, TypeOK, Called, LifeInv, owner, calls, loop, machine, host, OwnerState, Handlers, Early
  <2>4. LinkInv' /\ LifeInv'
    BY <2>1 DEF MachineInv, TypeOK, LinkInv, LifeInv, Called, owner, calls, loop, machine, host, Early, Owning
  <2>5. OverInv'
    BY <2>1 DEF MachineInv, TypeOK, LifeInv, OverInv, Called, CallFails, RawFails, owner, calls, loop, machine, host, Early, Owning, Ending, Terminated
  <2> QED
    BY <2>2, <2>3, <2>4, <2>5 DEF MachineInv
<1>9. CASE create_domain_reply_lost
  <2> USE <1>9 DEF create_domain_reply_lost, OwnerTo
  <2>1. /\ m_conn = "open" /\ m_conn' = "lost" /\ link' = link /\ faults' = faults + 1
        /\ faults' \in 0 .. MaxFaults /\ failed' = failed \cup {"domain"}
    BY MachineAssumption DEF MachineInv, TypeOK, RawUsable, Fault
  <2>2. EventInv' /\ events' \in Seq(Event)
    <3>1. Len(events) \in 0 .. Len(events) /\ SubSeq(events, 1, Len(events)) = events
      BY DEF MachineInv, TypeOK
    <3>2. ~agent /\ domain = "none"
      BY DEF MachineInv, LifeInv, EventInv
    <3> QED
      BY <2>1, <3>1, <3>2, LostStep DEF MachineInv, machine
  <2>3. TypeOK'
    BY <2>1, <2>2, MachineAssumption DEF MachineInv, TypeOK, Called, LifeInv, owner, calls, loop, machine, host, OwnerState, Handlers, Early
  <2>4. LinkInv' /\ LifeInv'
    BY <2>1 DEF MachineInv, TypeOK, LinkInv, LifeInv, Called, owner, calls, loop, machine, host, Early, Owning
  <2>5. OverInv'
    BY <2>1 DEF MachineInv, TypeOK, LifeInv, OverInv, Called, CallFails, RawFails, owner, calls, loop, machine, host, Early, Owning, Ending, Terminated
  <2> QED
    BY <2>2, <2>3, <2>4, <2>5 DEF MachineInv
<1>10. CASE set_lifecycle_action
  <2> USE <1>10 DEF set_lifecycle_action, OwnerTo
  <2>1. Called
    BY CallStep DEF MachineInv, OwnerState
  <2>2. EventInv'
    BY <2>1, EventFrame DEF MachineInv, Called, EventInv, LifeInv, loop, machine, host, Early
  <2>3. TypeOK'
    BY <2>1, <2>2, MachineAssumption DEF MachineInv, TypeOK, Called, LifeInv, owner, calls, loop, machine, host, OwnerState, Handlers, Early
  <2>4. LinkInv' /\ LifeInv'
    BY <2>1 DEF MachineInv, TypeOK, LinkInv, LifeInv, Called, owner, calls, loop, machine, host, Early, Owning
  <2>5. OverInv'
    BY <2>1 DEF MachineInv, TypeOK, LifeInv, OverInv, Called, CallFails, RawFails, owner, calls, loop, machine, host, Early, Owning, Ending, Terminated
  <2> QED
    BY <2>2, <2>3, <2>4, <2>5 DEF MachineInv
<1>11. CASE set_lifecycle_action_fails
  <2> USE <1>11 DEF set_lifecycle_action_fails, OwnerTo
  <2>1. Called
    BY CallStep DEF MachineInv, OwnerState
  <2>2. EventInv'
    BY <2>1, EventFrame DEF MachineInv, Called, EventInv, LifeInv, loop, machine, host, Early
  <2>3. TypeOK'
    BY <2>1, <2>2, MachineAssumption DEF MachineInv, TypeOK, Called, LifeInv, owner, calls, loop, machine, host, OwnerState, Handlers, Early
  <2>4. LinkInv' /\ LifeInv'
    BY <2>1 DEF MachineInv, TypeOK, LinkInv, LifeInv, Called, owner, calls, loop, machine, host, Early, Owning
  <2>5. OverInv'
    BY <2>1 DEF MachineInv, TypeOK, LifeInv, OverInv, Called, CallFails, RawFails, owner, calls, loop, machine, host, Early, Owning, Ending, Terminated
  <2> QED
    BY <2>2, <2>3, <2>4, <2>5 DEF MachineInv
<1>12. CASE emplace
  <2> USE <1>12 DEF emplace, OwnerTo
  <2>1. Called
    BY CallStep DEF MachineInv, OwnerState
  <2>2. EventInv'
    BY <2>1, EventFrame DEF MachineInv, Called, EventInv, LifeInv, loop, machine, host, Early
  <2>3. TypeOK'
    BY <2>1, <2>2, MachineAssumption DEF MachineInv, TypeOK, Called, LifeInv, owner, calls, loop, machine, host, OwnerState, Handlers, Early
  <2>4. LinkInv' /\ LifeInv'
    BY <2>1 DEF MachineInv, TypeOK, LinkInv, LifeInv, Called, owner, calls, loop, machine, host, Early, Owning
  <2>5. OverInv'
    BY <2>1 DEF MachineInv, TypeOK, LifeInv, OverInv, Called, CallFails, RawFails, owner, calls, loop, machine, host, Early, Owning, Ending, Terminated
  <2> QED
    BY <2>2, <2>3, <2>4, <2>5 DEF MachineInv
<1>13. CASE resume
  <2> USE <1>13 DEF resume, OwnerTo
  <2>1. Called
    BY CallStep DEF MachineInv, OwnerState
  <2>2. EventInv' /\ events' \in Seq(Event)
    <3>1. domain' = "running" /\ ~agent /\ ~m_ready /\ domain # "gone"
      BY DEF MachineInv, LifeInv, EventInv, Early
    <3> DEFINE es == <<"started">>
    <3>2. es \in Seq(Event) /\ InOrder(es, "open", domain', agent') /\ ~Halts(es)
      BY StartedEvents
    <3>3. Send("lifecycle", es)
      OBVIOUS
    <3>4. TypeOK /\ EventInv /\ UNCHANGED <<hpc, event, m_ready, agent>> /\ agent \in BOOLEAN
      BY DEF MachineInv, machine, TypeOK
    <3>5. (m_conn # "null" => m_conn' = m_conn) /\ failed \subseteq failed'
      BY <2>1 DEF Called
    <3> HIDE DEF es
    <3> QED
      BY <3>1, <3>2, <3>3, <3>4, <3>5, SendStep
  <2>3. TypeOK'
    BY <2>1, <2>2, MachineAssumption DEF MachineInv, TypeOK, Called, LifeInv, owner, calls, loop, machine, host, OwnerState, Handlers, Early
  <2>4. LinkInv' /\ LifeInv'
    BY <2>1 DEF MachineInv, TypeOK, LinkInv, LifeInv, Called, owner, calls, loop, machine, host, Early, Owning
  <2>5. OverInv'
    BY <2>1 DEF MachineInv, TypeOK, LifeInv, OverInv, Called, CallFails, RawFails, owner, calls, loop, machine, host, Early, Owning, Ending, Terminated
  <2> QED
    BY <2>2, <2>3, <2>4, <2>5 DEF MachineInv
<1>14. CASE resume_fails
  <2> USE <1>14 DEF resume_fails, OwnerTo
  <2>1. Called
    BY CallStep DEF MachineInv, OwnerState
  <2>2. EventInv'
    BY <2>1, EventFrame DEF MachineInv, Called, EventInv, LifeInv, loop, machine, host, Early
  <2>3. TypeOK'
    BY <2>1, <2>2, MachineAssumption DEF MachineInv, TypeOK, Called, LifeInv, owner, calls, loop, machine, host, OwnerState, Handlers, Early
  <2>4. LinkInv' /\ LifeInv'
    BY <2>1 DEF MachineInv, TypeOK, LinkInv, LifeInv, Called, owner, calls, loop, machine, host, Early, Owning
  <2>5. OverInv'
    BY <2>1 DEF MachineInv, TypeOK, LifeInv, OverInv, Called, CallFails, RawFails, owner, calls, loop, machine, host, Early, Owning, Ending, Terminated
  <2> QED
    BY <2>2, <2>3, <2>4, <2>5 DEF MachineInv
<1> QED
  BY <1>1, <1>2, <1>3, <1>4, <1>5, <1>6, <1>7, <1>8, <1>9, <1>10, <1>11, <1>12, <1>13, <1>14 DEF Spawning

\* Every step of the two waits keeps the invariant.
LEMMA BootingStep ==
    ASSUME MachineInv, Booting
    PROVE  MachineInv'
<1>1. CASE agent_wait_ready
  <2> USE <1>1 DEF agent_wait_ready, OwnerTo
  <2>1. Called
    BY CallStep DEF MachineInv, OwnerState
  <2>2. EventInv'
    BY <2>1, EventFrame DEF MachineInv, Called, EventInv, LifeInv, loop, machine, host, Early
  <2>3. TypeOK'
    BY <2>1, <2>2, MachineAssumption DEF MachineInv, TypeOK, Called, LifeInv, owner, calls, loop, machine, host, OwnerState, Handlers, Early
  <2>4. LinkInv' /\ LifeInv'
    BY <2>1 DEF MachineInv, TypeOK, LinkInv, LifeInv, Called, owner, calls, loop, machine, host, Early, Owning
  <2>5. OverInv'
    BY <2>1 DEF MachineInv, TypeOK, LifeInv, OverInv, Called, CallFails, RawFails, owner, calls, loop, machine, host, Early, Owning, Ending, Terminated
  <2> QED
    BY <2>2, <2>3, <2>4, <2>5 DEF MachineInv
<1>2. CASE agent_wait_fails
  <2> USE <1>2 DEF agent_wait_fails, OwnerTo
  <2>1. Called
    BY CallStep DEF MachineInv, OwnerState
  <2>2. EventInv'
    BY <2>1, EventFrame DEF MachineInv, Called, EventInv, LifeInv, loop, machine, host, Early
  <2>3. TypeOK'
    BY <2>1, <2>2, MachineAssumption DEF MachineInv, TypeOK, Called, LifeInv, owner, calls, loop, machine, host, OwnerState, Handlers, Early
  <2>4. LinkInv' /\ LifeInv'
    BY <2>1 DEF MachineInv, TypeOK, LinkInv, LifeInv, Called, owner, calls, loop, machine, host, Early, Owning
  <2>5. OverInv'
    BY <2>1 DEF MachineInv, TypeOK, LifeInv, OverInv, Called, CallFails, RawFails, owner, calls, loop, machine, host, Early, Owning, Ending, Terminated
  <2> QED
    BY <2>2, <2>3, <2>4, <2>5 DEF MachineInv
<1>3. CASE agent_wait_sleep
  <2> USE <1>3 DEF agent_wait_sleep, OwnerTo, Later
  <2>1. Called
    BY CallStep DEF MachineInv, OwnerState
  <2>2. EventInv'
    BY <2>1, EventFrame DEF MachineInv, Called, EventInv, LifeInv, loop, machine, host, Early
  <2>3. TypeOK'
    BY <2>1, <2>2, MachineAssumption DEF MachineInv, TypeOK, Called, LifeInv, owner, calls, loop, machine, host, OwnerState, Handlers, Early
  <2>4. LinkInv' /\ LifeInv'
    BY <2>1 DEF MachineInv, TypeOK, LinkInv, LifeInv, Called, owner, calls, loop, machine, host, Early, Owning
  <2>5. OverInv'
    BY <2>1 DEF MachineInv, TypeOK, LifeInv, OverInv, Called, CallFails, RawFails, owner, calls, loop, machine, host, Early, Owning, Ending, Terminated
  <2> QED
    BY <2>2, <2>3, <2>4, <2>5 DEF MachineInv
<1>4. CASE ping_stop
  <2> USE <1>4 DEF ping_stop, OwnerTo
  <2>1. Called
    BY CallStep DEF MachineInv, OwnerState
  <2>2. EventInv'
    BY <2>1, EventFrame DEF MachineInv, Called, EventInv, LifeInv, loop, machine, host, Early
  <2>3. TypeOK'
    BY <2>1, <2>2, MachineAssumption DEF MachineInv, TypeOK, Called, LifeInv, owner, calls, loop, machine, host, OwnerState, Handlers, Early
  <2>4. LinkInv' /\ LifeInv'
    BY <2>1 DEF MachineInv, TypeOK, LinkInv, LifeInv, Called, owner, calls, loop, machine, host, Early, Owning
  <2>5. OverInv'
    BY <2>1 DEF MachineInv, TypeOK, LifeInv, OverInv, Called, CallFails, RawFails, owner, calls, loop, machine, host, Early, Owning, Ending, Terminated
  <2> QED
    BY <2>2, <2>3, <2>4, <2>5 DEF MachineInv
<1>5. CASE ping
  <2> USE <1>5 DEF ping, OwnerTo
  <2>1. Called
    BY CallStep DEF MachineInv, OwnerState
  <2>2. EventInv'
    BY <2>1, EventFrame DEF MachineInv, Called, EventInv, LifeInv, loop, machine, host, Early
  <2>3. TypeOK'
    BY <2>1, <2>2, MachineAssumption DEF MachineInv, TypeOK, Called, LifeInv, owner, calls, loop, machine, host, OwnerState, Handlers, Early
  <2>4. LinkInv' /\ LifeInv'
    BY <2>1 DEF MachineInv, TypeOK, LinkInv, LifeInv, Called, owner, calls, loop, machine, host, Early, Owning
  <2>5. OverInv'
    BY <2>1 DEF MachineInv, TypeOK, LifeInv, OverInv, Called, CallFails, RawFails, owner, calls, loop, machine, host, Early, Owning, Ending, Terminated
  <2> QED
    BY <2>2, <2>3, <2>4, <2>5 DEF MachineInv
<1>6. CASE ping_fails
  <2> USE <1>6 DEF ping_fails, OwnerTo
  <2>1. Called
    BY CallStep DEF MachineInv, OwnerState
  <2>2. EventInv'
    BY <2>1, EventFrame DEF MachineInv, Called, EventInv, LifeInv, loop, machine, host, Early
  <2>3. TypeOK'
    BY <2>1, <2>2, MachineAssumption DEF MachineInv, TypeOK, Called, LifeInv, owner, calls, loop, machine, host, OwnerState, Handlers, Early
  <2>4. LinkInv' /\ LifeInv'
    BY <2>1 DEF MachineInv, TypeOK, LinkInv, LifeInv, Called, owner, calls, loop, machine, host, Early, Owning
  <2>5. OverInv'
    BY <2>1 DEF MachineInv, TypeOK, LifeInv, OverInv, Called, CallFails, RawFails, owner, calls, loop, machine, host, Early, Owning, Ending, Terminated
  <2> QED
    BY <2>2, <2>3, <2>4, <2>5 DEF MachineInv
<1>7. CASE exec_exits
  <2> USE <1>7 DEF exec_exits, OwnerTo, Later
  <2>1. Called
    BY CallStep DEF MachineInv, OwnerState
  <2>2. EventInv'
    BY <2>1, EventFrame DEF MachineInv, Called, EventInv, LifeInv, loop, machine, host, Early
  <2>3. TypeOK'
    BY <2>1, <2>2, MachineAssumption DEF MachineInv, TypeOK, Called, LifeInv, owner, calls, loop, machine, host, OwnerState, Handlers, Early
  <2>4. LinkInv' /\ LifeInv'
    BY <2>1 DEF MachineInv, TypeOK, LinkInv, LifeInv, Called, owner, calls, loop, machine, host, Early, Owning
  <2>5. OverInv'
    BY <2>1 DEF MachineInv, TypeOK, LifeInv, OverInv, Called, CallFails, RawFails, owner, calls, loop, machine, host, Early, Owning, Ending, Terminated
  <2> QED
    BY <2>2, <2>3, <2>4, <2>5 DEF MachineInv
<1>8. CASE exec_fails
  <2> USE <1>8 DEF exec_fails, OwnerTo
  <2>1. Called
    BY CallStep DEF MachineInv, OwnerState
  <2>2. EventInv'
    BY <2>1, EventFrame DEF MachineInv, Called, EventInv, LifeInv, loop, machine, host, Early
  <2>3. TypeOK'
    BY <2>1, <2>2, MachineAssumption DEF MachineInv, TypeOK, Called, LifeInv, owner, calls, loop, machine, host, OwnerState, Handlers, Early
  <2>4. LinkInv' /\ LifeInv'
    BY <2>1 DEF MachineInv, TypeOK, LinkInv, LifeInv, Called, owner, calls, loop, machine, host, Early, Owning
  <2>5. OverInv'
    BY <2>1 DEF MachineInv, TypeOK, LifeInv, OverInv, Called, CallFails, RawFails, owner, calls, loop, machine, host, Early, Owning, Ending, Terminated
  <2> QED
    BY <2>2, <2>3, <2>4, <2>5 DEF MachineInv
<1> QED
  BY <1>1, <1>2, <1>3, <1>4, <1>5, <1>6, <1>7, <1>8 DEF Booting

\* What the host sends about the end or a halt of a domain and the guest agent.
LEMMA LaterEvents ==
    ASSUME NEW d, NEW a
    PROVE  /\ <<"stopped">> \in Seq(Event) /\ <<"agent">> \in Seq(Event)
           /\ <<"halted">> \in Seq(Event) /\ InOrder(<<"halted">>, "open", d, a)
           /\ d = "gone" => InOrder(<<"stopped">>, "open", d, a)
           /\ a = TRUE => InOrder(<<"agent">>, "open", d, a)
           /\ ~Suspends(<<"stopped">>) /\ ~Suspends(<<"agent">>) /\ ~Suspends(<<"halted">>)
           /\ ~Halts(<<"stopped">>) /\ ~Halts(<<"agent">>)
BY DEF Event, LifecycleEvent, InOrder, Suspends, Halts

\* Every step of the destructors keeps the invariant.
LEMMA DestroyingStep ==
    ASSUME MachineInv, Destroying
    PROVE  MachineInv'
<1>1. CASE terminate
  <2> USE <1>1 DEF terminate, OwnerTo
  <2>1. Called
    BY CallStep DEF MachineInv, OwnerState
  <2>2. EventInv' /\ events' \in Seq(Event)
    <3>1. /\ TypeOK /\ EventInv /\ UNCHANGED <<hpc, event, m_ready, agent>> /\ agent \in BOOLEAN
          /\ events \in Seq(Event) /\ (m_conn # "null" => m_conn' = m_conn)
          /\ agent => domain \in {"running", "halted", "gone"}
          /\ failed \subseteq failed' /\ (domain = "halted" => "halt" \in failed)
      BY <2>1 DEF MachineInv, EventInv, machine, TypeOK, Called
    <3>2. CASE domain' = "gone" /\ Send("lifecycle", <<"stopped">>)
      <4> DEFINE es == <<"stopped">>
      <4>1. /\ es \in Seq(Event) /\ InOrder(es, "open", domain', agent') /\ ~Suspends(es)
            /\ ~Halts(es)
        BY <3>2, LaterEvents
      <4>2. Send("lifecycle", es)
        BY <3>2
      <4> HIDE DEF es
      <4> QED
        BY <3>1, <3>2, <4>1, <4>2, SendStep
    <3>3. CASE domain' \in {"gone", domain} /\ UNCHANGED events
      BY <3>1, <3>3, EventFrame
    <3> QED
      BY <3>2, <3>3
  <2>3. TypeOK'
    BY <2>1, <2>2, MachineAssumption DEF MachineInv, TypeOK, Called, OwnerState, machine
  <2>4. LinkInv' /\ LifeInv'
    BY <2>1 DEF MachineInv, TypeOK, LinkInv, LifeInv, Called, machine, Early, Owning
  <2>5. OverInv'
    BY <2>1 DEF MachineInv, TypeOK, LifeInv, OverInv, Called, CallFails, machine, Early, Owning,
                Ending, Terminated
  <2> QED
    BY <2>2, <2>3, <2>4, <2>5 DEF MachineInv
<1>2. CASE drop_machine
  <2> USE <1>2 DEF drop_machine, OwnerTo
  <2>1. /\ Called /\ refs' = refs \ {"owner"}
        /\ refs # {"owner"} => volume' = volume
        /\ refs = {"owner"} => volume' = "deleted" \/ (volume' = volume /\ "delete" \in failed')
    BY ReleaseStep DEF MachineInv
  <2>2. EventInv'
    BY <2>1, EventFrame DEF MachineInv, Called, EventInv, loop
  <2>3. TypeOK'
    BY <2>1, MachineAssumption DEF MachineInv, TypeOK, Called, OwnerState, loop
  <2>4. LinkInv' /\ LifeInv'
    BY <2>1 DEF MachineInv, TypeOK, LinkInv, LifeInv, Called, loop, Early, Owning
  <2>5. OverInv'
    BY <2>1 DEF MachineInv, TypeOK, LifeInv, OverInv, Called, loop, Early, Owning, Ending, Terminated
  <2> QED
    BY <2>2, <2>3, <2>4, <2>5 DEF MachineInv
<1>3. CASE unregister_event_handlers
  <2> USE <1>3 DEF unregister_event_handlers, OwnerTo
  <2>1. Called
    BY CallStep DEF MachineInv, OwnerState
  <2>2. EventInv'
    BY <2>1, EventFrame DEF MachineInv, Called, EventInv, machine, host
  <2>3. TypeOK'
    BY <2>1, MachineAssumption DEF MachineInv, TypeOK, Called, OwnerState, machine, host
  <2>4. LinkInv' /\ LifeInv'
    BY <2>1 DEF MachineInv, TypeOK, LinkInv, LifeInv, Called, machine, host, Early, Owning
  <2>5. OverInv'
    BY <2>1 DEF MachineInv, TypeOK, LifeInv, OverInv, Called, machine, host, Early, Owning, Ending,
                Terminated
  <2> QED
    BY <2>2, <2>3, <2>4, <2>5 DEF MachineInv
<1>4. CASE clear_map
  <2> USE <1>4 DEF clear_map, OwnerTo
  <2>1. refs = {} \/ refs = {"map"}
    BY DEF MachineInv, TypeOK, LifeInv, Owning
  <2>2. /\ Called /\ refs' = {}
        /\ refs = {} => volume' = volume
        /\ refs = {"map"} => volume' = "deleted" \/ (volume' = volume /\ "delete" \in failed')
    <3>1. CASE refs = {}
      BY <3>1, CallStep DEF MachineInv
    <3>2. CASE refs = {"map"}
      BY <3>2, ReleaseStep DEF MachineInv
    <3> QED
      BY <2>1, <3>1, <3>2
  <2>3. EventInv'
    BY <2>2, EventFrame DEF MachineInv, Called, EventInv, loop
  <2>4. TypeOK'
    <3>1. volume' \in {"none", "present", "deleted"} /\ refs' = {} /\ hpc' = "idle"
      BY <2>1, <2>2 DEF MachineInv, TypeOK, LifeInv, loop
    <3>2. UNCHANGED <<loop, conn, now, m_quit, m_ready, domain, agent, signal>> /\ opc' \in OwnerState
      BY DEF OwnerState
    <3> QED
      BY <2>2, <3>1, <3>2, MachineAssumption DEF MachineInv, TypeOK, Called, loop
  <2>5. LinkInv' /\ LifeInv'
    BY <2>2 DEF MachineInv, TypeOK, LinkInv, LifeInv, Called, loop, Early, Owning
  <2>6. OverInv'
    BY <2>1, <2>2 DEF MachineInv, TypeOK, LifeInv, OverInv, Called, loop, Early, Owning, Ending, Terminated
  <2> QED
    BY <2>3, <2>4, <2>5, <2>6 DEF MachineInv
<1>5. CASE disconnect
  <2> USE <1>5 DEF disconnect, OwnerTo
  <2>1. EventInv' /\ events' \in Seq(Event)
    BY DEF MachineInv, EventInv, InOrder, Suspends, Halts, machine, host
  <2>2. TypeOK'
    BY <2>1 DEF MachineInv, TypeOK, LifeInv, OwnerState, machine, host
  <2>3. LinkInv' /\ LifeInv'
    BY DEF MachineInv, TypeOK, LinkInv, LifeInv, machine, host, Early, Owning
  <2>4. OverInv'
    BY DEF MachineInv, TypeOK, LifeInv, OverInv, machine, host, Early, Owning, Ending, Terminated
  <2> QED
    BY <2>1, <2>2, <2>3, <2>4 DEF MachineInv
<1> QED
  BY <1>1, <1>2, <1>3, <1>4, <1>5 DEF Destroying

\* Every step of the thread of the event loop keeps the invariant.
LEMMA HandlingStep ==
    ASSUME MachineInv, Handling
    PROVE  MachineInv'
<1>1. CASE dispatch
  <2> USE <1>1 DEF dispatch
  <2>1. /\ Tail(events) \in Seq(Event) /\ Head(events) \in Event
        /\ InOrder(Tail(events), m_conn, domain, agent)
        /\ Suspends(Tail(events)) => Suspends(events)
        /\ Head(events) = "suspended" => Suspends(events)
        /\ Halts(Tail(events)) \/ Head(events) = "halted" => Halts(events)
        /\ Head(events) = "stopped" => domain = "gone"
        /\ Head(events) = "agent" => agent = TRUE /\ ~Suspends(Tail(events))
    BY QueueShrinks DEF MachineInv, TypeOK, EventInv
  <2>2. EventInv'
    <3>1. /\ InOrder(events', m_conn', domain', agent') /\ (Suspends(events)' => Suspends(events))
          /\ Halts(events)' => Halts(events)
      BY <2>1 DEF calls, host, Suspends, Halts
    <3>2. Head(events) = "agent" => ~Suspends(events)'
      BY <2>1 DEF Suspends
    <3>3. CASE hpc' = "enter" /\ event' = Head(events)
      BY <2>1, <3>1, <3>2, <3>3 DEF MachineInv, EventInv, machine, host, calls
    <3>4. CASE UNCHANGED <<hpc, event>>
      BY <3>1, <3>4 DEF MachineInv, EventInv, machine, host, calls
    <3> QED
      BY <3>3, <3>4
  <2>3. TypeOK'
    BY <2>1 DEF MachineInv, TypeOK, owner, calls, machine, host
  <2>4. LinkInv' /\ LifeInv'
    BY DEF MachineInv, TypeOK, LinkInv, LifeInv, owner, calls, machine, host
  <2>5. OverInv'
    BY DEF MachineInv, OverInv, owner, calls, machine, host, Terminated
  <2> QED
    BY <2>2, <2>3, <2>4, <2>5 DEF MachineInv
<1>2. CASE lifecycle_event_handler
  <2> USE <1>2 DEF lifecycle_event_handler
  <2>1. EventInv'
    BY DEF MachineInv, EventInv, InOrder, Suspends, Halts, calls, host
  <2>2. TypeOK'
    BY DEF MachineInv, TypeOK, owner, calls, host
  <2>3. LinkInv' /\ LifeInv'
    <3>1. event # "started" /\ m_ready => domain = "gone" \/ "halt" \in failed
      BY DEF MachineInv, EventInv, LifecycleEvent
    <3>2. UNCHANGED <<opc, m_conn, link, faults, failed, registered, domain, m_ready>>
      BY DEF owner, calls, host
    <3>3. LinkInv'
      BY <3>2 DEF MachineInv, LinkInv
    <3>4. "map" \in refs => opc \notin Early /\ opc \notin {"map", "disconnect", "done"}
      BY DEF MachineInv, LifeInv
    <3>5. CASE event # "started" /\ "map" \in refs
      <4>1. m_quit' = TRUE /\ refs' = (refs \ {"map"}) \cup {"handler"}
        BY <3>5
      <4>2. "map" \notin refs' /\ ("owner" \in refs' <=> "owner" \in refs)
        BY <4>1
      <4> QED
        BY <3>1, <3>2, <3>3, <3>4, <3>5, <4>1, <4>2 DEF MachineInv, LifeInv, Early, Owning
    <3>6. CASE ~(event # "started" /\ "map" \in refs)
      <4>1. UNCHANGED <<m_quit, refs>> /\ hpc' = "idle"
        BY <3>6
      <4> QED
        BY <3>2, <3>3, <4>1 DEF MachineInv, LifeInv
    <3> QED
      BY <3>3, <3>5, <3>6
  <2>4. OverInv'
    BY DEF MachineInv, TypeOK, LifeInv, OverInv, owner, calls, host, Terminated, Early, Owning, Ending
  <2> QED
    BY <2>1, <2>2, <2>3, <2>4 DEF MachineInv
<1>3. CASE agent_lifecycle_event_handler
  <2> USE <1>3 DEF agent_lifecycle_event_handler
  <2>1. EventInv'
    BY DEF MachineInv, EventInv, InOrder, Suspends, Halts, calls, host
  <2>2. TypeOK'
    BY DEF MachineInv, TypeOK, owner, calls, host
  <2>3. LinkInv' /\ LifeInv'
    BY DEF MachineInv, TypeOK, LinkInv, LifeInv, EventInv, owner, calls, host, Early, Owning
  <2>4. OverInv'
    BY DEF MachineInv, TypeOK, LifeInv, OverInv, owner, calls, host, Terminated, Early, Owning, Ending
  <2> QED
    BY <2>1, <2>2, <2>3, <2>4 DEF MachineInv
<1>4. CASE handler_returns
  <2> USE <1>4 DEF handler_returns
  <2>1. opc # "done" /\ opc \notin Early /\ "handler" \in refs
    BY DEF MachineInv, TypeOK, LifeInv
  <2>2. /\ Called /\ refs' = refs \ {"handler"}
        /\ refs # {"handler"} => volume' = volume
        /\ refs = {"handler"} => volume' = "deleted" \/ (volume' = volume /\ "delete" \in failed')
    BY <2>1, ReleaseStep DEF MachineInv
  <2>3. EventInv'
    BY <2>2 DEF MachineInv, EventInv, InOrder, Suspends, Halts, Called
  <2>4. TypeOK'
    BY <2>2, MachineAssumption DEF MachineInv, TypeOK, Called, owner
  <2>5. LinkInv' /\ LifeInv'
    BY <2>1, <2>2 DEF MachineInv, TypeOK, LinkInv, LifeInv, Called, owner, Early, Owning
  <2>6. OverInv'
    BY <2>1, <2>2 DEF MachineInv, TypeOK, LifeInv, OverInv, Called, owner, Terminated, Early, Owning,
                      Ending, OwnerState
  <2> QED
    BY <2>3, <2>4, <2>5, <2>6 DEF MachineInv
<1>5. CASE close_event_handler
  <2> USE <1>5 DEF close_event_handler
  <2>1. m_conn = "lost" /\ events' = <<>>
    BY QueueShrinks DEF MachineInv, TypeOK, EventInv
  <2>2. EventInv'
    BY <2>1 DEF MachineInv, EventInv, InOrder, Suspends, Halts, machine, host
  <2>3. TypeOK'
    BY <2>1 DEF MachineInv, TypeOK, owner, machine, host
  <2>4. LinkInv' /\ LifeInv'
    BY <2>1 DEF MachineInv, TypeOK, LinkInv, LifeInv, owner, machine, host, Early, Owning
  <2>5. OverInv'
    BY DEF MachineInv, OverInv, owner, machine, host, Terminated
  <2> QED
    BY <2>2, <2>3, <2>4, <2>5 DEF MachineInv
<1> QED
  BY <1>1, <1>2, <1>3, <1>4, <1>5 DEF Handling

\* What the host and the guest do keeps the invariant.
LEMMA HostStep ==
    ASSUME MachineInv, Host
    PROVE  MachineInv'
<1>1. CASE agent_connects \/ domain_halts \/ domain_resumes \/ domain_ends
  <2>1. /\ UNCHANGED <<owner, m_conn, link, hpc, event, registered, machine, volume, signal>>
        /\ faults' \in 0 .. MaxFaults /\ faults <= faults'
        /\ failed \subseteq failed' /\ failed' \subseteq OwnerState \cup {"delete", "halt"}
        /\ agent' \in BOOLEAN /\ (agent => agent')
        /\ domain \in {"running", "halted"} /\ domain' \in {"running", "halted", "gone"}
        /\ domain' = "halted" => "halt" \in failed'
    <3>1. CASE agent_connects \/ domain_resumes \/ domain_ends
      <4>1. /\ UNCHANGED <<owner, calls, hpc, event, registered, machine, volume, signal>>
            /\ agent' = TRUE \/ agent' = agent
            /\ domain \in {"running", "halted"} /\ domain' \in {"running", "gone"}
        BY <3>1 DEF agent_connects, domain_resumes, domain_ends
      <4>2. agent \in BOOLEAN /\ faults \in 0 .. MaxFaults
            /\ failed \subseteq OwnerState \cup {"delete", "halt"}
        BY DEF MachineInv, TypeOK
      <4>3. agent' \in BOOLEAN /\ (agent => agent')
        BY <4>1, <4>2, Zenon
      <4> QED
        BY <4>1, <4>2, <4>3, MachineAssumption DEF calls
    <3>2. CASE domain_halts
      BY <3>2, MachineAssumption DEF domain_halts, Fault, MachineInv, TypeOK
    <3> QED
      BY <1>1, <3>1, <3>2
  <2>2. EventInv' /\ events' \in Seq(Event)
    <3>1. PICK handler \in {"agent", "lifecycle"}, es \in Seq(Event) :
            /\ Send(handler, es) /\ InOrder(es, "open", domain', agent') /\ ~Suspends(es)
            /\ Halts(es) => "halt" \in failed'
      <4>1. CASE agent_connects
        BY <4>1, LaterEvents DEF agent_connects
      <4>2. CASE domain_halts
        BY <4>2, LaterEvents DEF domain_halts
      <4>3. CASE domain_resumes
        BY <4>3, StartedEvents DEF domain_resumes
      <4>4. CASE domain_ends
        BY <4>4, LaterEvents DEF domain_ends
      <4> QED
        BY <1>1, <4>1, <4>2, <4>3, <4>4
    <3> QED
      BY <2>1, <3>1, SendStep DEF MachineInv, machine
  <2>3. TypeOK'
    BY <2>1, <2>2 DEF MachineInv, TypeOK, owner, machine
  <2>4. LinkInv'
    <3>1. opc' = opc /\ m_conn' = m_conn /\ link' = link
      BY <2>1 DEF owner
    <3>2. link \in Nat /\ faults \in Nat /\ faults' \in Nat
      BY <2>1, MachineAssumption DEF MachineInv, TypeOK
    <3>3. faults <= faults'
      BY <2>1
    <3>4. \A k, m, n \in Nat : m <= n => (k <= m + 1 => k <= n + 1) /\ (k <= m => k <= n)
      OBVIOUS
    <3>5. (link <= faults + 1 => link <= faults' + 1) /\ (link <= faults => link <= faults')
      BY <3>2, <3>3, <3>4, Zenon
    <3> QED
      BY <3>1, <3>5, Zenon DEF MachineInv, LinkInv
  <2>5. LifeInv'
    BY <2>1 DEF MachineInv, LifeInv, owner, machine
  <2>6. OverInv'
    BY <2>1 DEF MachineInv, OverInv, owner, machine, Terminated
  <2> QED
    BY <2>2, <2>3, <2>4, <2>5, <2>6 DEF MachineInv
<1>2. CASE connection_lost
  <2> USE <1>2 DEF connection_lost
  <2>1. /\ m_conn = "open" /\ m_conn' = "lost" /\ link' = link /\ faults' = faults + 1
        /\ faults' \in 0 .. MaxFaults
    BY MachineAssumption DEF MachineInv, TypeOK, Fault
  <2>2. EventInv' /\ events' \in Seq(Event)
    <3>1. PICK n \in 0 .. Len(events) : events' = Append(SubSeq(events, 1, n), "close")
      OBVIOUS
    <3>2. TypeOK /\ EventInv /\ UNCHANGED <<hpc, event, m_ready, agent, domain>>
      BY DEF MachineInv, machine, host
    <3>3. /\ agent => domain' \in {"running", "halted", "gone"}
          /\ domain' = "halted" => "halt" \in failed'
          /\ failed \subseteq failed'
      BY <3>2 DEF EventInv
    <3> QED
      BY <2>1, <3>1, <3>2, <3>3, LostStep
  <2>3. TypeOK'
    BY <2>1, <2>2 DEF MachineInv, TypeOK, owner, machine, host
  <2>4. LinkInv' /\ LifeInv'
    BY <2>1 DEF MachineInv, TypeOK, LinkInv, LifeInv, owner, machine, host
  <2>5. OverInv'
    BY DEF MachineInv, OverInv, owner, machine, host, Terminated
  <2> QED
    BY <2>2, <2>3, <2>4, <2>5 DEF MachineInv
<1> QED
  BY <1>1, <1>2 DEF Host

-----------------------------------------------------------------------------
(* Theorems.                                                               *)

\* Whatever fails and in whatever order news arrives, the invariant holds.
THEOREM MachineInvariant == Spec => []MachineInv
<1>1. Init => MachineInv
  <2> SUFFICES ASSUME Init PROVE MachineInv
    OBVIOUS
  <2>1. TypeOK
    <3>1. 0 \in 0 .. MaxFaults + 1 /\ 0 \in 0 .. MaxFaults /\ 0 \in 0 .. MaxTime /\ 0 \in 0 .. 0
      BY MachineAssumption
    <3>2. events \in Seq(Event) /\ event \in Event
      BY DEF Init, Event, LifecycleEvent
    <3> QED
      BY <3>1, <3>2 DEF Init, TypeOK, OwnerState
  <2>2. LinkInv /\ EventInv
    BY DEF Init, LinkInv, EventInv, InOrder, Suspends, Halts
  <2> QED
    BY <2>1, <2>2 DEF Init, MachineInv, LifeInv, OverInv, Early, Owning, Ending
<1>2. MachineInv /\ [Next]_vars => MachineInv'
  <2> SUFFICES ASSUME MachineInv, [Next]_vars PROVE MachineInv'
    OBVIOUS
  <2>1. CASE destroy
    BY <2>1 DEF destroy, OwnerTo, MachineInv, TypeOK, LinkInv, EventInv, InOrder, Suspends, Halts, LifeInv,
                OverInv, Terminated, owner, calls, loop, machine, host, OwnerState, Early, Owning, Ending
  <2>2. CASE shutdown_signalled \/ UNCHANGED vars
    <3>1. UNCHANGED <<owner, calls, loop, machine, host>> /\ signal' \in BOOLEAN
      BY <2>2 DEF shutdown_signalled, vars, MachineInv, TypeOK
    <3> USE <3>1 DEF owner, calls, loop, machine, host
    <3>2. TypeOK'
      BY DEF MachineInv, TypeOK
    <3>3. LinkInv' /\ LifeInv' /\ OverInv'
      BY DEF MachineInv, LinkInv, LifeInv, OverInv, Terminated
    <3>4. EventInv'
      BY DEF MachineInv, EventInv, InOrder, Suspends, Halts
    <3> QED
      BY <3>2, <3>3, <3>4 DEF MachineInv
  <2> QED
    BY <2>1, <2>2, SpawningStep, BootingStep, DestroyingStep, HandlingStep, HostStep DEF Next, finished
<1> QED
  BY <1>1, <1>2, PTL DEF Spec

\* When a machine is over nothing of it is left on the host, but what a failed
\* call left there.
THEOREM MachineNothingLeft == Spec => []NothingLeft
<1>1. MachineInv => NothingLeft
  BY DEF MachineInv, LifeInv, OverInv, NothingLeft, Ending
<1> QED
  BY <1>1, MachineInvariant, PTL

\* No news that comes early or late takes a volume from under a living domain,
\* or marks a machine that was ready as decayed while its domain lives, unless
\* the host reported of that domain that it stopped running.
THEOREM MachineNewsOutOfTime == Spec => []NewsOutOfTime
<1>1. MachineInv => NewsOutOfTime
  BY DEF MachineInv, LifeInv, OverInv, Terminated, NewsOutOfTime
<1> QED
  BY <1>1, MachineInvariant, PTL
=============================================================================
