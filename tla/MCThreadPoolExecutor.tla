------------------------ MODULE MCThreadPoolExecutor ------------------------
(* ThreadPoolExecutor with model values for the tasks and the workers.     *)
EXTENDS ThreadPoolExecutor, TLC

\* An identity is left for every worker the tasks can call for.
ASSUME EnoughWorkers ==
    Cardinality(Worker) >= Cardinality(Task) + Cardinality(Fixed)

\* On-demand workers and tasks are interchangeable; for runs of safety only.
Symmetry == Permutations(Worker \ Fixed) \cup Permutations(Task)
=============================================================================
