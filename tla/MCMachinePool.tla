--------------------------- MODULE MCMachinePool ---------------------------
(* MachinePool with model values for the runners and the machines.         *)
EXTENDS MachinePool, TLC

\* A fresh identity is available whenever a worker takes a task: every slot,
\* orphaned task, released machine and domain left behind can have its own.
ASSUME EnoughMachines ==
    Cardinality(Machine) >= 2 * MaxConcurrency + MaxFaults + MaxLeft

\* Runners and machines are interchangeable; used by runs of safety only.
Symmetry == Permutations(Runner) \cup Permutations(Machine)

\* For runs of liveness, where symmetry is unsound: of the unused identities,
\* which are all alike, a worker takes one fixed choice.
FirstUnused ==
    \A m \in Machine :
        vm[m] = "absent" /\ vm'[m] = "creating" =>
            m = CHOOSE n \in Machine : vm[n] = "absent"

MCFairSpec == Init /\ [][Next /\ FirstUnused]_vars /\ Fairness
=============================================================================
