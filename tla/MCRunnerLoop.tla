---------------------------- MODULE MCRunnerLoop ----------------------------
(* RunnerLoop with model values for the runners, machines and tasks.       *)
EXTENDS RunnerLoop, TLC

\* Machines and tasks are interchangeable; for runs of safety only.
Symmetry == Permutations(Machine) \cup Permutations(Task) \cup Permutations(Runner)
=============================================================================
