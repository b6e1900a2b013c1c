----------------------------- MODULE MCEventLoop -----------------------------
(* EventLoop with model values for the users and the loops.                *)
EXTENDS EventLoop, TLC

\* Users and loops are interchangeable; for runs of safety only.
Symmetry == Permutations(User) \cup Permutations(Loop)
=============================================================================
