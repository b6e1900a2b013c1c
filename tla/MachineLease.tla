---------------------------- MODULE MachineLease ----------------------------
(***************************************************************************)
(* What a machine pool promises its runners, with no counters, threads or  *)
(* locks: every virtual machine is spawned within a limit, offered, leased *)
(* once and to one runner, retired when that runner is through with it,    *)
(* and destroyed.  A domain whose spawn or whose destruction failed may be *)
(* left on the hypervisor; nobody has its identity any more.  MachinePool  *)
(* implements this module; RunnerLoop is built on top of it.               *)
(***************************************************************************)
EXTENDS Naturals, FiniteSets

CONSTANTS
    Runner,     \* the threads that lease machines
    Machine,    \* identities of virtual machines
    Nobody,     \* the lessee of a machine that is not leased
    Limit       \* how many machines may be warming, idle or leased at once

ASSUME LeaseAssumption ==
    /\ IsFiniteSet(Machine)
    /\ Nobody \notin Runner
    /\ Limit \in Nat

VARIABLES
    phase,      \* phase[m]: where m is in its life
    lessee      \* lessee[m]: the runner that leased m, until m is destroyed

leaseVars == <<phase, lessee>>

Phase == {"none", "warming", "idle", "leased", "retired", "left"}

LeaseTypeOK ==
    /\ phase \in [Machine -> Phase]
    /\ lessee \in [Machine -> Runner \cup {Nobody}]

LeaseInit ==
    /\ phase = [m \in Machine |-> "none"]
    /\ lessee = [m \in Machine |-> Nobody]

In(ph) == {m \in Machine : phase[m] = ph}

\* The machines that count against the limit.
Charged == In("warming") \cup In("idle") \cup In("leased")

\* A spawn starts on a fresh identity.
Spawn(m) ==
    /\ phase[m] = "none"
    /\ Cardinality(Charged) < Limit
    /\ phase' = [phase EXCEPT ![m] = "warming"]
    /\ UNCHANGED lessee

\* The spawn failed; its domain may stay.
Abandon(m) ==
    /\ phase[m] = "warming"
    /\ \E gone \in {"none", "left"} : phase' = [phase EXCEPT ![m] = gone]
    /\ UNCHANGED lessee

\* The machine is ready to be leased.
Offer(m) ==
    /\ phase[m] = "warming"
    /\ phase' = [phase EXCEPT ![m] = "idle"]
    /\ UNCHANGED lessee

\* r takes m; a runner has at most one machine at a time.
Lease(r, m) ==
    /\ phase[m] = "idle"
    /\ \A n \in Machine : lessee[n] # r
    /\ phase' = [phase EXCEPT ![m] = "leased"]
    /\ lessee' = [lessee EXCEPT ![m] = r]

\* r gives m back; m is never offered again.
Retire(r, m) ==
    /\ phase[m] = "leased"
    /\ lessee[m] = r
    /\ phase' = [phase EXCEPT ![m] = "retired"]
    /\ UNCHANGED lessee

\* The last reference is dropped; the kill may fail unnoticed.
Destroy(m) ==
    /\ phase[m] = "retired"
    /\ \E gone \in {"none", "left"} : phase' = [phase EXCEPT ![m] = gone]
    /\ lessee' = [lessee EXCEPT ![m] = Nobody]

\* Idle machines are thrown away unused only when no other machine is left.
Discard ==
    /\ \A m \in Machine : phase[m] \in {"none", "idle", "left"}
    /\ \E kept \in SUBSET In("idle") :
        phase' = [m \in Machine |-> IF m \in kept \cup In("left") THEN "left"
                                   ELSE "none"]
    /\ UNCHANGED lessee

LeaseNext ==
    \/ \E m \in Machine :
        \/ Spawn(m) \/ Abandon(m) \/ Offer(m) \/ Destroy(m)
        \/ \E r \in Runner : Lease(r, m) \/ Retire(r, m)
    \/ Discard

LeaseSpec == LeaseInit /\ [][LeaseNext]_leaseVars
=============================================================================
