-------------------------- MODULE GuestAgentProofs --------------------------
(***************************************************************************)
(* The invariants of GuestAgent for every number of failed agent commands  *)
(* and lost calls to Gitea, and that its steps are those of RunnerLoop.    *)
(***************************************************************************)
EXTENDS GuestAgent, FiniteSetTheorems, TLAPS

-----------------------------------------------------------------------------
(* The inductive invariant.                                                *)

\* A file is complete on the guest's disk, or its close failed unnoticed, or a
\* write was short.
Complete(f) == content[f] = "whole" \/ f \in unanswered \cup short

\* Where write_file is: the files before the present one are complete, an open
\* handle and an error are known only inside of it, and the command is started
\* by nobody before the last file.
WritingInv ==
    /\ \A f \in File : f < n => Complete(f)
    /\ pc = "open" => ~error
    /\ pc = "write" => handle /\ ~error
    /\ pc = "close" /\ ~error => handle /\ (content[n] \in {"buffered", "whole"} \/ n \in short)
    /\ pc \in {"open", "write", "close", "exec"} => cmd = "none"
    /\ pc \in {"exec", "status", "sleep"} \/ cmd # "none" => \A f \in File : Complete(f)

\* An agent that is gone has no file open and runs no command; while it lives it
\* has open the file write_file has a handle of, and those it did not answer for.
HandleInv ==
    /\ handle => pc \in {"write", "close"} /\ (n \in handles \/ ~alive)
    /\ handles \subseteq unanswered \cup (IF handle THEN {n} ELSE {})
    /\ ~alive => handles = {} /\ cmd # "running"

\* Host and Gitea: a report of failure comes after the command was given up, and
\* a command that is given up while it runs was given up because a call failed.
VerdictInv ==
    /\ cmd = "exit0" => verdict # "assigned"
    /\ verdict = "failed" \/ concluded # "no" => pc \in {"unregister", "release", "drop", "gone"}
    /\ pc \in {"unregister", "release", "drop", "gone"} => concluded # "no"
    /\ concluded = "ok" => verdict = "executed" /\ cmd = "exit0"
    /\ concluded = "failed" => verdict # "assigned"
    /\ pc = "failing" \/ verdict = "failed" => cmd # "running" \/ faults > 0
    /\ verdict = "failed" /\ cmd = "exit0" => faults > 0

GuestInv == TypeOK /\ WritingInv /\ HandleInv /\ VerdictInv

\* There are three files, and n is the last one when it is 3.
LEMMA LastFile == Cardinality(File) = 3 /\ File = {1, 2, 3}
<1>1. 1 \in Int /\ 3 \in Int
  OBVIOUS
<1>2. Cardinality(1 .. 3) = IF 1 > 3 THEN 0 ELSE 3 - 1 + 1
  BY <1>1, FS_Interval, Zenon
<1> QED
  BY <1>2 DEF File

\* The invariant holds when a task was fetched and nothing is written yet.
LEMMA GuestInvInit == Init => GuestInv
<1> SUFFICES ASSUME Init PROVE GuestInv
  OBVIOUS
<1>1. TypeOK
  <2>1. faults \in 0 .. MaxFaults /\ lost \in 0 .. MaxLost /\ n \in File
    BY GuestAssumption DEF Init, File
  <2> QED
    BY <2>1 DEF Init, TypeOK
<1>2. WritingInv
  BY DEF Init, WritingInv, File
<1>3. HandleInv
  BY DEF Init, HandleInv
<1>4. VerdictInv
  BY DEF Init, VerdictInv
<1> QED
  BY <1>1, <1>2, <1>3, <1>4 DEF GuestInv

\* Every command to the agent, every call to Gitea and every step of the guest
\* preserves it.
LEMMA GuestInvStep == GuestInv /\ [Next]_vars => GuestInv'
<1> SUFFICES ASSUME GuestInv, [Next]_vars PROVE GuestInv'
  OBVIOUS
<1> USE LastFile, GuestAssumption
    DEF GuestInv, TypeOK, WritingInv, HandleInv, VerdictInv, Complete, fileVars, giteaVars
<1>1. CASE file_open
  BY <1>1 DEF file_open, Goto, Answered, Truncated
<1>2. CASE file_open_fail
  <2> USE <1>2 DEF file_open_fail, Goto, CallFails, Truncated
  <2>1. TypeOK'
    <3>1. alive' \in BOOLEAN /\ registered' \in BOOLEAN
      OBVIOUS
    <3>2. handle' \in BOOLEAN /\ error' \in BOOLEAN
      OBVIOUS
    <3>3. faults' \in 0 .. MaxFaults /\ lost' \in 0 .. MaxLost
      OBVIOUS
    <3>4. handles' \subseteq File /\ unanswered' \subseteq File /\ short' \subseteq File
      OBVIOUS
    <3> QED
      BY <3>1, <3>2, <3>3, <3>4
  <2>2. WritingInv'
    OBVIOUS
  <2>3. HandleInv'
    OBVIOUS
  <2>4. VerdictInv'
    OBVIOUS
  <2> QED
    BY <2>1, <2>2, <2>3, <2>4
<1>3. CASE file_write
  <2> USE <1>3 DEF file_write, Goto, Answered, Truncated
  <2>1. TypeOK'
    <3>1. handles' \subseteq File /\ unanswered' \subseteq File /\ short' \subseteq File
      OBVIOUS
    <3> QED
      BY <3>1
  <2>2. WritingInv'
    OBVIOUS
  <2>3. HandleInv'
    OBVIOUS
  <2>4. VerdictInv'
    OBVIOUS
  <2> QED
    BY <2>1, <2>2, <2>3, <2>4
<1>4. CASE file_write_fail
  BY <1>4 DEF file_write_fail, Goto, CallFails
<1>5. CASE file_close
  <2> USE <1>5 DEF file_close, Written, Answered, Flushed
  <2>1. TypeOK'
    <3>1. alive' \in BOOLEAN /\ registered' \in BOOLEAN
      OBVIOUS
    <3>2. handle' \in BOOLEAN /\ error' \in BOOLEAN
      OBVIOUS
    <3>3. faults' \in 0 .. MaxFaults /\ lost' \in 0 .. MaxLost
      OBVIOUS
    <3>4. handles' \subseteq File /\ unanswered' \subseteq File /\ short' \subseteq File
      OBVIOUS
    <3> QED
      BY <3>1, <3>2, <3>3, <3>4
  <2>2. WritingInv'
    OBVIOUS
  <2>3. HandleInv'
    OBVIOUS
  <2>4. VerdictInv'
    OBVIOUS
  <2> QED
    BY <2>1, <2>2, <2>3, <2>4
<1>6. CASE file_close_fail
  <2> USE <1>6 DEF file_close_fail, Written, CallFails, Flushed
  <2>1. TypeOK'
    <3>1. alive' \in BOOLEAN /\ registered' \in BOOLEAN
      OBVIOUS
    <3>2. handle' \in BOOLEAN /\ error' \in BOOLEAN
      OBVIOUS
    <3>3. faults' \in 0 .. MaxFaults /\ lost' \in 0 .. MaxLost
      OBVIOUS
    <3>4. handles' \subseteq File /\ unanswered' \subseteq File /\ short' \subseteq File
      OBVIOUS
    <3> QED
      BY <3>1, <3>2, <3>3, <3>4
  <2>2. WritingInv'
    OBVIOUS
  <2>3. HandleInv'
    OBVIOUS
  <2>4. VerdictInv'
    OBVIOUS
  <2> QED
    BY <2>1, <2>2, <2>3, <2>4
<1>7. CASE guest_exec
  BY <1>7 DEF guest_exec, Goto, Answered
<1>8. CASE guest_exec_fail
  BY <1>8 DEF guest_exec_fail, Goto, CallFails
<1>9. CASE status_running
  BY <1>9 DEF status_running, Goto, Answered
<1>10. CASE poll_again
  BY <1>10 DEF poll_again, Goto
<1>11. CASE status_exited
  BY <1>11 DEF status_exited, Goto, Answered
<1>12. CASE status_fail
  BY <1>12 DEF status_fail, Goto, CallFails
<1>13. CASE set_task_failed
  BY <1>13 DEF set_task_failed, Goto, Reported
<1>14. CASE unregister
  <2> USE <1>14 DEF unregister, Goto
  <2>1. TypeOK'
    <3>1. alive' \in BOOLEAN /\ registered' \in BOOLEAN
      OBVIOUS
    <3>2. handle' \in BOOLEAN /\ error' \in BOOLEAN
      OBVIOUS
    <3>3. faults' \in 0 .. MaxFaults /\ lost' \in 0 .. MaxLost
      OBVIOUS
    <3>4. handles' \subseteq File /\ unanswered' \subseteq File /\ short' \subseteq File
      OBVIOUS
    <3> QED
      BY <3>1, <3>2, <3>3, <3>4
  <2>2. WritingInv'
    OBVIOUS
  <2>3. HandleInv'
    OBVIOUS
  <2>4. VerdictInv'
    OBVIOUS
  <2> QED
    BY <2>1, <2>2, <2>3, <2>4
<1>15. CASE release
  BY <1>15 DEF release, Goto
<1>16. CASE drop_machine
  BY <1>16 DEF drop_machine, Goto, Ended
<1>17. CASE command_reports
  BY <1>17 DEF command_reports, Reported
<1>18. CASE command_exits
  BY <1>18 DEF command_exits
<1>19. CASE domain_ends
  <2> USE <1>19 DEF domain_ends, Ended
  <2>1. TypeOK'
    <3>1. alive' \in BOOLEAN /\ registered' \in BOOLEAN
      OBVIOUS
    <3>2. handle' \in BOOLEAN /\ error' \in BOOLEAN
      OBVIOUS
    <3>3. faults' \in 0 .. MaxFaults /\ lost' \in 0 .. MaxLost
      OBVIOUS
    <3>4. handles' \subseteq File /\ unanswered' \subseteq File /\ short' \subseteq File
      OBVIOUS
    <3> QED
      BY <3>1, <3>2, <3>3, <3>4
  <2>2. WritingInv'
    OBVIOUS
  <2>3. HandleInv'
    OBVIOUS
  <2>4. VerdictInv'
    OBVIOUS
  <2> QED
    BY <2>1, <2>2, <2>3, <2>4
<1>20. CASE UNCHANGED vars
  BY <1>20 DEF vars
<1> HIDE DEF GuestInv
<1> QED
  BY <1>1, <1>2, <1>3, <1>4, <1>5, <1>6, <1>7, <1>8, <1>9, <1>10, <1>11, <1>12, <1>13, <1>14, <1>15, <1>16, <1>17, <1>18, <1>19, <1>20 DEF Next, host, write_file, shell_exec, done

-----------------------------------------------------------------------------
(* The steps of the iteration are steps of RunnerLoop.                     *)

\* A step that moves the runner from a to b in RunnerLoop.
LEMMA LoopGoto ==
  ASSUME NEW r \in Runner, Runner = {r}, NEW a, NEW b, LoopState = a, LoopState' = b
  PROVE  R!Goto(r, a, b)
BY DEF R!Goto, loopPc

\* The one runner and the one task are those the mapping chooses.
LEMMA LoopChoice ==
  ASSUME NEW S, NEW x, S = {x}
  PROVE  (CHOOSE y \in S : TRUE) = x
OBVIOUS

\* What a step leaves alone in RunnerLoop when it leaves alone what the mapping
\* is made of.
LEMMA LoopUnseen ==
  /\ UNCHANGED LoopState => UNCHANGED loopPc
  /\ UNCHANGED <<pc = "gone", pc = "drop", Left>> => UNCHANGED <<loopPhase, loopLessee>>
  /\ UNCHANGED concluded => UNCHANGED <<loopParcel, loopTask, loopDropped>>
  /\ UNCHANGED Unregistered => UNCHANGED loopRegistered
  /\ UNCHANGED <<Unregistered, registered>> => UNCHANGED loopOrphans
  /\ UNCHANGED <<cmd = "none", pc = "gone">> => UNCHANGED loopUsed
<1>1. UNCHANGED <<pc = "gone", pc = "drop", Left>> => UNCHANGED <<loopPhase, loopLessee>>
  BY DEF loopPhase, loopLessee, Left
<1>2. UNCHANGED concluded => UNCHANGED <<loopParcel, loopTask, loopDropped>>
  BY DEF loopParcel, loopTask, loopDropped
<1>3. UNCHANGED <<cmd = "none", pc = "gone">> => UNCHANGED loopUsed
  BY DEF loopUsed
<1> QED
  BY <1>1, <1>2, <1>3 DEF loopPc, loopRegistered, loopOrphans

\* What RunnerLoop sees of a state.
Seen == <<LoopState, pc = "gone", pc = "drop", Left, Unregistered, registered, concluded, cmd = "none", lost>>

\* A step that changes nothing RunnerLoop sees is none of its steps.
LEMMA LoopStutter == UNCHANGED Seen => UNCHANGED R!vars
BY LoopUnseen DEF Seen, R!vars, R!leaseVars, R!giteaVars

\* Every step of the host, of the guest or of the domain is one step of the
\* runner in RunnerLoop, or none.
LEMMA LoopStep == GuestInv /\ [Next]_vars => [R!Next]_(R!vars)
<1> SUFFICES ASSUME GuestInv, [Next]_vars PROVE [R!Next]_(R!vars)
  OBVIOUS
<1>0. PICK r \in Runner, m \in Machine, t \in Task : Runner = {r} /\ Machine = {m} /\ Task = {t}
  BY GuestAssumption
<1>a. /\ loopLessee = [x \in Machine |-> IF pc = "gone" THEN Nobody ELSE r]
      /\ loopParcel = [x \in Runner |-> IF concluded = "no" THEN t ELSE NoTask]
      /\ loopLessee' = [x \in Machine |-> IF pc' = "gone" THEN Nobody ELSE r]
      /\ loopParcel' = [x \in Runner |-> IF concluded' = "no" THEN t ELSE NoTask]
  BY <1>0, LoopChoice DEF loopLessee, loopParcel
<1>b. ASSUME R!runner(r) PROVE R!Next
  BY <1>0, <1>b DEF R!Next
<1> USE DEF fileVars, giteaVars
<1>1. CASE file_open \/ file_open_fail \/ file_write \/ file_write_fail \/ status_running \/ poll_again
  <2>1. UNCHANGED Seen
    BY <1>1 DEF file_open, file_open_fail, file_write, file_write_fail, status_running, poll_again,
                Goto, Seen, Unregistered, Left, LoopState
  <2> QED
    BY <2>1, LoopStutter
<1>2. CASE command_reports \/ command_exits \/ domain_ends
  <2>1. UNCHANGED Seen
    BY <1>2 DEF command_reports, command_exits, domain_ends, Ended, Seen, Unregistered, Left, LoopState
  <2> QED
    BY <2>1, LoopStutter
<1>3. CASE UNCHANGED vars
  <2>1. UNCHANGED Seen
    BY <1>3 DEF vars, Seen, Unregistered, Left, LoopState
  <2> QED
    BY <2>1, LoopStutter
\* write_file without an error is no step of RunnerLoop; with one, or with the
\* command, it is inject.
<1>4. CASE file_close \/ file_close_fail
  <2>1. CASE ~error
    <3>1. UNCHANGED Seen
      BY <1>4, <2>1 DEF file_close, file_close_fail, Written, Seen, Unregistered, Left, LoopState
    <3> QED
      BY <3>1, LoopStutter
  <2>2. CASE error
    <3>1. R!Goto(r, "activated", "failing")
      BY <1>0, <1>4, <2>2, LoopGoto DEF file_close, file_close_fail, Written, LoopState
    <3>2. UNCHANGED <<pc = "gone", pc = "drop", Left, Unregistered, registered, concluded, cmd = "none", lost>>
      <4>1. pc = "close" /\ pc' = "failing"
        BY <1>4, <2>2 DEF file_close, file_close_fail, Written
      <4> QED
        BY <4>1, <1>4 DEF file_close, file_close_fail, Unregistered, Left
    <3>3. R!inject(r)
      BY <3>1, <3>2, LoopUnseen DEF R!inject, R!leaseVars, R!giteaVars
    <3> QED
      BY <3>3, <1>b DEF R!runner
  <2> QED
    BY <2>1, <2>2 DEF GuestInv, TypeOK
<1>5. CASE guest_exec \/ guest_exec_fail
  <2>1. UNCHANGED <<pc = "gone", pc = "drop", Left, Unregistered, registered, concluded, lost>>
    BY <1>5 DEF guest_exec, guest_exec_fail, Goto, Unregistered, Left
  <2>2. /\ {x \in Machine : loopLessee[x] = r} = Machine
        /\ loopUsed = {}
        /\ loopUsed' \in {{}, Machine}
        /\ guest_exec => loopUsed' = Machine
    BY <1>0, <1>a, <1>5 DEF guest_exec, guest_exec_fail, Goto, loopUsed, GuestInv, WritingInv
  <2>3. CASE guest_exec
    <3>1. R!Goto(r, "activated", "running")
      BY <1>0, <2>3, LoopGoto DEF guest_exec, Goto, LoopState
    <3>2. R!inject(r)
      BY <2>1, <2>2, <2>3, <3>1, LoopUnseen DEF R!inject, R!leaseVars, R!giteaVars
    <3> QED
      BY <3>2, <1>b DEF R!runner
  <2>4. CASE guest_exec_fail
    <3>1. R!Goto(r, "activated", "failing")
      BY <1>0, <2>4, LoopGoto DEF guest_exec_fail, Goto, LoopState
    <3>2. R!inject(r)
      BY <2>1, <2>2, <3>1, LoopUnseen DEF R!inject, R!leaseVars, R!giteaVars
    <3> QED
      BY <3>2, <1>b DEF R!runner
  <2> QED
    BY <1>5, <2>3, <2>4
\* The end of the command: execute_ok or execute_fail.
<1>6. CASE status_exited \/ status_fail
  <2>1. UNCHANGED <<pc = "gone", pc = "drop", Left, Unregistered, registered, cmd = "none", lost>>
    BY <1>6 DEF status_exited, status_fail, Goto, Unregistered, Left
  <2>2. CASE pc' = "failing"
    <3>1. R!Goto(r, "running", "failing")
      BY <1>0, <1>6, <2>2, LoopGoto DEF status_exited, status_fail, Goto, LoopState
    <3>2. UNCHANGED concluded
      BY <1>6, <2>2 DEF status_exited, status_fail, Goto
    <3>3. R!execute_fail(r)
      BY <2>1, <3>1, <3>2, LoopUnseen DEF R!execute_fail, R!leaseVars, R!giteaVars
    <3> QED
      BY <3>3, <1>b DEF R!runner
  <2>3. CASE pc' # "failing"
    <3>1. R!Goto(r, "running", "unregister")
      BY <1>0, <1>6, <2>3, LoopGoto DEF status_exited, status_fail, Goto, LoopState
    <3>2. concluded = "no" /\ concluded' = "ok"
      BY <1>6, <2>3 DEF status_exited, status_fail, Goto, GuestInv, TypeOK, VerdictInv
    <3>3. /\ loopTask' = [loopTask EXCEPT ![loopParcel[r]] = "executed"]
          /\ loopParcel' = [loopParcel EXCEPT ![r] = NoTask]
          /\ UNCHANGED loopDropped
      BY <1>0, <1>a, <3>2 DEF loopTask, loopDropped
    <3>4. R!execute_ok(r)
      BY <2>1, <3>1, <3>3, LoopUnseen DEF R!execute_ok, R!leaseVars
    <3> QED
      BY <3>4, <1>b DEF R!runner
  <2> QED
    BY <2>2, <2>3
<1>7. CASE set_task_failed
  <2>1. UNCHANGED <<pc = "gone", pc = "drop", Left, Unregistered, registered, cmd = "none">>
    BY <1>7 DEF set_task_failed, Goto, Unregistered, Left
  <2>2. R!Goto(r, "failing", "unregister")
    BY <1>0, <1>7, LoopGoto DEF set_task_failed, Goto, LoopState
  <2>3. concluded = "no"
    BY <1>7 DEF set_task_failed, Goto, GuestInv, VerdictInv
  <2>4. loopParcel[r] = t /\ loopParcel' = [loopParcel EXCEPT ![r] = NoTask]
    BY <1>0, <1>a, <1>7, <2>3 DEF set_task_failed
  <2>5. CASE concluded' = "failed" /\ UNCHANGED lost
    <3>1. loopTask' = [loopTask EXCEPT ![t] = "failed"] /\ UNCHANGED loopDropped
      BY <1>0, <2>3, <2>5 DEF loopTask, loopDropped
    <3>2. R!set_task_failed(r)
      BY <2>1, <2>2, <2>4, <2>5, <3>1, LoopUnseen DEF R!set_task_failed, R!leaseVars
    <3> QED
      BY <3>2, <1>b DEF R!runner
  <2>6. CASE concluded' = "lost" /\ lost < MaxLost /\ lost' = lost + 1
    <3>1. UNCHANGED loopTask /\ loopDropped' = loopDropped \cup {t}
      BY <1>0, <2>3, <2>6 DEF loopTask, loopDropped
    <3>2. R!set_task_failed(r)
      BY <2>1, <2>2, <2>4, <2>6, <3>1, LoopUnseen DEF R!set_task_failed, R!Fails, R!leaseVars
    <3> QED
      BY <3>2, <1>b DEF R!runner
  <2> QED
    BY <1>7, <2>5, <2>6 DEF set_task_failed
<1>8. CASE unregister
  <2>1. UNCHANGED <<pc = "gone", pc = "drop", Left, concluded, cmd = "none">>
    BY <1>8 DEF unregister, Goto, Left
  <2>2. R!Goto(r, "unregister", "release")
    BY <1>0, <1>8, LoopGoto DEF unregister, Goto, LoopState
  <2>3. loopRegistered' = loopRegistered \ {r}
    BY <1>0, <1>8 DEF unregister, Goto, Unregistered, loopRegistered
  <2>4. \/ UNCHANGED <<loopOrphans, lost>>
        \/ lost < MaxLost /\ lost' = lost + 1 /\ loopOrphans' \in {loopOrphans, loopOrphans + 1}
    BY <1>8 DEF unregister, Goto, Unregistered, loopOrphans
  <2>5. R!unregister(r)
    BY <2>1, <2>2, <2>3, <2>4, LoopUnseen DEF R!unregister, R!Fails, R!leaseVars
  <2> QED
    BY <2>5, <1>b DEF R!runner
<1>9. CASE release
  <2>1. UNCHANGED <<pc = "gone", Unregistered, registered, concluded, cmd = "none", lost>>
    BY <1>9 DEF release, Goto, Unregistered
  <2>2. R!Goto(r, "release", "drop")
    BY <1>0, <1>9, LoopGoto DEF release, Goto, LoopState
  <2>3. R!Retire(r, m)
    BY <1>0, <1>a, <1>9 DEF release, Goto, R!Retire, loopPhase, Left
  <2>4. R!release(r)
    BY <2>1, <2>2, <2>3, LoopUnseen DEF R!release, R!giteaVars
  <2> QED
    BY <2>4, <1>b DEF R!runner
<1>10. CASE drop_machine
  <2>1. UNCHANGED <<Unregistered, registered, concluded, lost>>
    BY <1>10 DEF drop_machine, Goto, Unregistered
  <2>2. R!Goto(r, "drop", "loop")
    BY <1>0, <1>10, LoopGoto DEF drop_machine, Goto, LoopState
  <2>3. R!Destroy(m) /\ loopLessee[m] = r
    BY <1>0, <1>a, <1>10 DEF drop_machine, Goto, R!Destroy, loopPhase, Left, Ended, GuestInv, TypeOK
  <2>4. loopUsed' = loopUsed \ {m}
    BY <1>0, <1>10 DEF drop_machine, Goto, loopUsed
  <2>5. R!drop_machine(r)
    BY <2>1, <2>2, <2>3, <2>4, LoopUnseen DEF R!drop_machine, R!giteaVars
  <2> QED
    BY <2>5, <1>b DEF R!runner
<1> QED
  BY <1>1, <1>2, <1>3, <1>4, <1>5, <1>6, <1>7, <1>8, <1>9, <1>10
     DEF Next, host, write_file, shell_exec, done

-----------------------------------------------------------------------------
(* Theorems.                                                               *)

\* The inductive invariant holds in every reachable state.
THEOREM GuestInvariant == Spec => []GuestInv
BY GuestInvInit, GuestInvStep, PTL DEF Spec

\* The command is started on three complete files, or after a guest-file-close
\* whose failure, or a guest-file-write whose short count, write_file does not
\* report.
THEOREM GuestStartsOnWholeFiles == Spec => []StartedOnWholeFiles
<1>1. GuestInv => StartedOnWholeFiles
  BY DEF GuestInv, WritingInv, Complete, StartedOnWholeFiles
<1> QED
  BY <1>1, GuestInvariant, PTL

\* file_closer closes what was opened: the agent keeps a file open only if it
\* did not answer for it.
THEOREM GuestHandlesReturned == Spec => []HandlesReturned
<1>1. GuestInv => HandlesReturned
  BY DEF GuestInv, HandleInv, HandlesReturned
<1> QED
  BY <1>1, GuestInvariant, PTL

\* Host and Gitea agree on the outcome of the task.
THEOREM GuestVerdictAgrees == Spec => []VerdictAgrees
<1>1. GuestInv => VerdictAgrees
  BY DEF GuestInv, TypeOK, VerdictInv, VerdictAgrees
<1> QED
  BY <1>1, GuestInvariant, PTL

\* Writing the files, running the command and reporting on it is what RunnerLoop
\* says it is: from the first file to the end of the machine, every step is one
\* of its steps or changes nothing it knows of.
THEOREM GuestRefinesRunnerLoop == Spec => RunnerRefined
BY GuestInvariant, LoopStep, PTL DEF Spec, RunnerRefined
=============================================================================
