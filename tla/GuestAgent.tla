----------------------------- MODULE GuestAgent -----------------------------
(***************************************************************************)
(* How one task gets into a machine and runs there: the three calls of     *)
(* write_file and the call of shell_exec (virt/src/libvirt/libvirt.cpp)    *)
(* that execute_task_in_machine (app/src/core.cpp) makes, up to the        *)
(* destruction of the machine.  It refines the steps that RunnerLoop takes *)
(* as one: writing the files, the execution, the report of a failure.      *)
(*                                                                         *)
(* A step is one command to the guest agent, one call to Gitea, or a step  *)
(* of the guest.  External and modelled by use: the agent (a command may   *)
(* fail before or after it took effect, and fails once the domain is gone; *)
(* a write may be short, which its answer tells and nobody reads; a file   *)
(* is sure to be on the disk only after guest-file-close), the host (a     *)
(* domain may refuse to be killed), the command, which may report its      *)
(* result to Gitea itself, and Gitea, which keeps the first result         *)
(* reported for a task.                                                    *)
(***************************************************************************)
EXTENDS Naturals, FiniteSets

CONSTANTS
    Runner,         \* the runner thread
    Machine,        \* its machine
    Task,           \* its task
    Nobody,         \* no runner
    NoTask,         \* no task
    MaxFaults,      \* bound on the agent commands that fail in a live domain
    MaxLost         \* bound on the calls to Gitea that fail

ASSUME GuestAssumption ==
    /\ \A s \in {Runner, Machine, Task} : \E x \in s : s = {x}
    /\ Nobody \notin Runner /\ NoTask \notin Task
    /\ MaxFaults \in Nat
    /\ MaxLost \in Nat

VARIABLES
    pc,             \* where the runner thread is
    n,              \* the file write_file is at
    handle,         \* write_file knows a file_handle
    error,          \* write_file has an error
    content,        \* content[f]: what the guest's file f holds
    handles,        \* files the guest agent has open
    unanswered,     \* files whose guest-file-open or guest-file-close failed
    short,          \* files whose guest-file-write wrote less than asked for
    cmd,            \* the command in the guest
    alive,          \* the domain exists
    verdict,        \* Gitea's state of the task
    concluded,      \* what the host made of the execution
    registered,     \* Gitea has the runner's registration
    faults,         \* agent commands that failed in a live domain
    lost            \* calls to Gitea that failed

fileVars == <<n, handle, error, content, handles, unanswered, short>>
giteaVars == <<verdict, concluded, registered, lost>>
vars == <<pc, fileVars, cmd, alive, giteaVars, faults>>

\* inject_runner_files: runner_config.yml, .runner and runner_task, in turn.
File == 1 .. 3

TypeOK ==
    /\ pc \in {"open", "write", "close", "exec", "status", "sleep", "failing",
               "unregister", "release", "drop", "gone"}
    /\ n \in File
    /\ handle \in BOOLEAN
    /\ error \in BOOLEAN
    /\ content \in [File -> {"absent", "partial", "buffered", "whole"}]
    /\ handles \subseteq File
    /\ unanswered \subseteq File
    /\ short \subseteq File
    /\ cmd \in {"none", "running", "exit0", "exit1", "abnormal", "killed"}
    /\ alive \in BOOLEAN
    /\ verdict \in {"assigned", "executed", "failed"}
    /\ concluded \in {"no", "ok", "failed", "lost"}
    /\ registered \in BOOLEAN
    /\ faults \in 0 .. MaxFaults
    /\ lost \in 0 .. MaxLost

\* A task was fetched and its machine activated.
Init ==
    /\ pc = "open"
    /\ n = 1
    /\ handle = FALSE
    /\ error = FALSE
    /\ content = [f \in File |-> "absent"]
    /\ handles = {}
    /\ unanswered = {}
    /\ short = {}
    /\ cmd = "none"
    /\ alive = TRUE
    /\ verdict = "assigned"
    /\ concluded = "no"
    /\ registered = TRUE
    /\ faults = 0
    /\ lost = 0

Goto(from, to) == pc = from /\ pc' = to

\* virDomainQemuAgentCommand or get_domain fails, or the answer is malformed.
CallFails ==
    IF alive THEN faults < MaxFaults /\ faults' = faults + 1
             ELSE UNCHANGED faults

Answered == alive /\ UNCHANGED faults

-----------------------------------------------------------------------------
(* write_file.                                                             *)

Truncated == [content EXCEPT ![n] = "partial"]

file_open ==
    /\ Goto("open", "write")
    /\ Answered
    /\ handle' = TRUE
    /\ content' = Truncated
    /\ handles' = handles \cup {n}
    /\ UNCHANGED <<n, error, unanswered, short, cmd, alive, giteaVars>>

\* Without an answer the handle of a file that was opened is not known.
file_open_fail ==
    /\ Goto("open", "close")
    /\ CallFails
    /\ error' = TRUE
    /\ \/ UNCHANGED <<content, handles>>
       \/ alive /\ content' = Truncated /\ handles' = handles \cup {n}
    /\ unanswered' = unanswered \cup {n}
    /\ UNCHANGED <<n, handle, short, cmd, alive, giteaVars>>

\* The count in the answer is not looked at: a short write passes for a whole.
file_write ==
    /\ Goto("write", "close")
    /\ Answered
    /\ \/ /\ \E c \in {"buffered", "whole"} : content' = [content EXCEPT ![n] = c]
          /\ UNCHANGED short
       \/ content' = Truncated /\ short' = short \cup {n}
    /\ UNCHANGED <<n, handle, error, handles, unanswered, cmd, alive, giteaVars>>

\* Mutant: returns without the closer.
file_write_fail_keeps ==
    /\ Goto("write", "failing")
    /\ CallFails
    /\ error' = TRUE
    /\ handle' = FALSE
    /\ UNCHANGED <<n, content, handles, unanswered, short, cmd, alive, giteaVars>>

file_write_fail ==
    /\ Goto("write", "close")
    /\ CallFails
    /\ error' = TRUE
    /\ \/ UNCHANGED content
       \/ alive /\ \E c \in {"buffered", "whole"} : content' = [content EXCEPT ![n] = c]
    /\ UNCHANGED <<n, handle, handles, unanswered, short, cmd, alive, giteaVars>>

\* Mutant: the next file, or the command, whether or not there was an error.
Written_blind ==
    /\ pc' = IF n = Cardinality(File) THEN "exec" ELSE "open"
    /\ n' = IF n = Cardinality(File) THEN n ELSE n + 1

\* The result was formed before the closer ran: an error ends the injection,
\* otherwise the next file or the command follows.
Written ==
    /\ pc' = IF error THEN "failing"
             ELSE IF n = Cardinality(File) THEN "exec" ELSE "open"
    /\ n' = IF error \/ n = Cardinality(File) THEN n ELSE n + 1

Flushed ==
    [content EXCEPT ![n] = IF @ = "buffered" THEN "whole" ELSE @]

\* file_closer, with no handle to close, or with one.
file_close ==
    /\ pc = "close"
    /\ Written
    /\ \/ ~handle /\ UNCHANGED <<content, handles, faults>>
       \/ /\ handle
          /\ Answered
          /\ content' = Flushed
          /\ handles' = handles \ {n}
    /\ handle' = FALSE
    /\ UNCHANGED <<error, unanswered, short, cmd, alive, giteaVars>>

\* The error the closer sets is not looked at any more.
file_close_fail ==
    /\ pc = "close"
    /\ handle
    /\ Written
    /\ CallFails
    /\ unanswered' = unanswered \cup {n}
    /\ \/ UNCHANGED <<content, handles>>
       \/ alive /\ content' = Flushed /\ handles' = handles \ {n}
    /\ handle' = FALSE
    /\ UNCHANGED <<error, short, cmd, alive, giteaVars>>

-----------------------------------------------------------------------------
(* shell_exec.                                                             *)

guest_exec ==
    /\ Goto("exec", "status")
    /\ Answered
    /\ cmd' = "running"
    /\ UNCHANGED <<fileVars, alive, giteaVars>>

guest_exec_fail ==
    /\ Goto("exec", "failing")
    /\ CallFails
    /\ (alive /\ cmd' = "running") \/ UNCHANGED cmd
    /\ UNCHANGED <<fileVars, alive, giteaVars>>

\* guest-exec-status: not exited.
status_running ==
    /\ Goto("status", "sleep")
    /\ Answered
    /\ cmd = "running"
    /\ UNCHANGED <<fileVars, cmd, alive, giteaVars>>

\* 250 ms; the time-out of shell_exec is for guest-exec alone.
poll_again ==
    /\ Goto("sleep", "status")
    /\ UNCHANGED <<fileVars, cmd, alive, giteaVars, faults>>

\* Mutant: the exit code is not looked at.
status_exited_lax ==
    /\ Goto("status", "unregister")
    /\ Answered
    /\ cmd \in {"exit0", "exit1", "abnormal"}
    /\ concluded' = "ok"
    /\ UNCHANGED <<fileVars, cmd, alive, verdict, registered, lost>>

\* Exited; no exit code and a non-zero one are errors.
status_exited ==
    /\ Answered
    /\ \/ Goto("status", "unregister") /\ cmd = "exit0" /\ concluded' = "ok"
       \/ /\ Goto("status", "failing")
          /\ cmd \in {"exit1", "abnormal"}
          /\ UNCHANGED concluded
    /\ UNCHANGED <<fileVars, cmd, alive, verdict, registered, lost>>

\* Mutant: a status that cannot be had is asked for again.
status_fail_retries ==
    /\ Goto("status", "sleep")
    /\ CallFails
    /\ UNCHANGED <<fileVars, cmd, alive, giteaVars>>

\* The command is given up, though it may go on in the guest.
status_fail ==
    /\ Goto("status", "failing")
    /\ CallFails
    /\ UNCHANGED <<fileVars, cmd, alive, giteaVars>>

-----------------------------------------------------------------------------
(* The end of runner_loop_iteration.                                       *)

\* The first result reported stays.
Reported(result) == verdict' = IF verdict = "assigned" THEN result ELSE verdict

set_task_failed ==
    /\ Goto("failing", "unregister")
    /\ \/ Reported("failed") /\ concluded' = "failed" /\ UNCHANGED lost
       \/ /\ lost < MaxLost
          /\ lost' = lost + 1
          /\ concluded' = "lost"
          /\ UNCHANGED verdict
    /\ UNCHANGED <<fileVars, cmd, alive, registered, faults>>

\* Mutant: the machine is not given back to the pool.
unregister_keeps ==
    /\ Goto("unregister", "drop")
    /\ \/ registered' = FALSE /\ UNCHANGED lost
       \/ lost < MaxLost /\ lost' = lost + 1 /\ registered' \in BOOLEAN
    /\ UNCHANGED <<fileVars, cmd, alive, verdict, concluded, faults>>

\* ~Runner; a failure is only logged.
unregister ==
    /\ Goto("unregister", "release")
    /\ \/ registered' = FALSE /\ UNCHANGED lost
       \/ lost < MaxLost /\ lost' = lost + 1 /\ registered' \in BOOLEAN
    /\ UNCHANGED <<fileVars, cmd, alive, verdict, concluded, faults>>

\* machine_releaser.
release ==
    /\ Goto("release", "drop")
    /\ UNCHANGED <<fileVars, cmd, alive, giteaVars, faults>>

Ended ==
    /\ alive' = FALSE
    /\ handles' = {}
    /\ cmd' = IF cmd = "running" THEN "killed" ELSE cmd

\* The last reference to the machine; terminate kills the domain, or fails
\* unnoticed, and the domain goes on.
drop_machine ==
    /\ Goto("drop", "gone")
    /\ Ended \/ UNCHANGED <<alive, handles, cmd>>
    /\ UNCHANGED <<n, handle, error, content, unanswered, short, giteaVars, faults>>

-----------------------------------------------------------------------------
(* The guest.                                                              *)

\* The command reports the task's result, while its credentials are good.
command_reports ==
    /\ cmd = "running"
    /\ registered
    /\ Reported("executed")
    /\ UNCHANGED <<pc, fileVars, cmd, alive, concluded, registered, lost, faults>>

\* It ends with 0 only after it reported.
command_exits ==
    /\ cmd = "running"
    /\ \/ verdict # "assigned" /\ cmd' = "exit0"
       \/ cmd' \in {"exit1", "abnormal"}
    /\ UNCHANGED <<pc, fileVars, alive, giteaVars, faults>>

\* The domain shuts down or crashes; one that was left behind is not followed.
domain_ends ==
    /\ alive
    /\ pc # "gone"
    /\ Ended
    /\ UNCHANGED <<pc, n, handle, error, content, unanswered, short, giteaVars, faults>>

done == pc = "gone" /\ UNCHANGED vars

write_file ==
    \/ file_open \/ file_open_fail \/ file_write \/ file_write_fail
    \/ file_close \/ file_close_fail

shell_exec ==
    \/ guest_exec \/ guest_exec_fail \/ status_running \/ poll_again
    \/ status_exited \/ status_fail

host ==
    \/ write_file \/ shell_exec
    \/ set_task_failed \/ unregister \/ release \/ drop_machine

Next == host \/ command_reports \/ command_exits \/ domain_ends \/ done

Spec == Init /\ [][Next]_vars

\* Every agent command and every call to Gitea returns; nothing is assumed of
\* the command or of the domain.
FairSpec == Spec /\ WF_vars(host)

-----------------------------------------------------------------------------
(* Properties.                                                             *)

\* The command is started only when the three files are complete on the
\* guest's disk; the two ways around it are a guest-file-close that failed,
\* whose error write_file loses, and a guest-file-write that was short, whose
\* count write_file does not read.  (And the types.)
StartedOnWholeFiles ==
    /\ TypeOK
    /\ pc = "exec" \/ cmd # "none" =>
        \A f \in File : content[f] = "whole" \/ f \in unanswered \cup short

\* Between two write_file calls the agent has a file open only if its answer
\* to the open or the close of that file was lost: file_closer runs on every
\* path, with the handle of its file.
HandlesReturned ==
    /\ handle => pc \in {"write", "close"} /\ (n \in handles \/ ~alive)
    /\ ~handle => handles \subseteq unanswered

\* The host and Gitea agree on the outcome: exit code 0 is never taken for a
\* failure nor the reverse, a task is reported as failed while its command
\* still runs or succeeded only after an agent command failed, and when the
\* iteration is over Gitea has a result unless the report was lost.
VerdictAgrees ==
    /\ concluded = "ok" => verdict = "executed" /\ cmd = "exit0"
    /\ verdict = "failed" /\ cmd \in {"running", "exit0"} => faults > 0
    /\ pc \in {"unregister", "release", "drop", "gone"} =>
        verdict # "assigned" \/ concluded = "lost"

\* The runner thread gets through, whatever the agent, Gitea and the domain
\* do, unless the command runs for ever in a live domain: shell_exec polls it
\* with no regard to its time-out of three hours or to the shutdown signal.
OnlyCommandHolds ==
    <>(pc = "gone") \/ <>[](alive /\ cmd = "running" /\ pc \in {"status", "sleep"})

-----------------------------------------------------------------------------
(* RunnerLoop's view of these steps: one runner, machine and task, the     *)
(* files, the guest and the registration as the host knows them.           *)

LoopState ==
    CASE pc \in {"open", "write", "close", "exec"} -> "activated"
      [] pc \in {"status", "sleep"} -> "running"
      [] pc = "gone" -> "loop"
      [] OTHER -> pc

\* Nobody has the machine any more, and its domain was not killed.
Left == pc = "gone" /\ alive

\* ~Runner has run.
Unregistered == pc \in {"release", "drop", "gone"}

loopPc == [r \in Runner |-> LoopState]
loopPhase ==
    [m \in Machine |-> CASE Left -> "left"
                         [] pc = "gone" /\ ~alive -> "none"
                         [] pc = "drop" -> "retired"
                         [] OTHER -> "leased"]
loopLessee ==
    [m \in Machine |-> IF pc = "gone" THEN Nobody ELSE CHOOSE r \in Runner : TRUE]
loopParcel ==
    [r \in Runner |-> IF concluded = "no" THEN CHOOSE t \in Task : TRUE ELSE NoTask]
loopTask ==
    [t \in Task |-> CASE concluded = "ok" -> "executed"
                      [] concluded = "failed" -> "failed"
                      [] OTHER -> "assigned"]
loopUsed == {m \in Machine : cmd # "none" /\ pc # "gone"}
loopRegistered == {r \in Runner : ~Unregistered}
loopOrphans == IF Unregistered /\ registered THEN 1 ELSE 0
loopDropped == {t \in Task : concluded = "lost"}

R == INSTANCE RunnerLoop WITH
    Limit <- Cardinality(Machine),
    phase <- loopPhase, lessee <- loopLessee,
    pc <- loopPc, parcel <- loopParcel,
    signalled <- FALSE,
    registered <- loopRegistered, orphans <- loopOrphans,
    tstate <- loopTask, used <- loopUsed, dropped <- loopDropped

\* What happens between activate and the destruction of the machine is what
\* RunnerLoop says: every step here is one of its steps or none.
RunnerRefined == [][R!Next]_(R!vars)
=============================================================================
