-------------------------- MODULE RunnerLoopProofs --------------------------
(***************************************************************************)
(* The invariants of RunnerLoop for every number of runners, machines and  *)
(* tasks, every limit of the pool and every number of failed calls.        *)
(***************************************************************************)
EXTENDS RunnerLoop, FiniteSetTheorems, TLAPS

-----------------------------------------------------------------------------
(* The inductive invariant.                                                *)

\* The iteration with its parts: a runner with a task is registered, and a
\* registered runner leases a machine.
WithTask == {"got", "fetched", "activated", "running", "failing"}
Registered == {"declare", "registered", "listen", "unregister"} \cup WithTask
Leasing == {"leased", "connect", "ping", "register", "release"} \cup Registered
Outside == {"loop", "acquire", "exited"}

\* Who leases what: one machine for a runner inside the iteration and none for
\* one outside of it.
LeaseInv ==
    /\ \A m \in Machine : lessee[m] = Nobody <=> phase[m] \in {"none", "warming", "idle", "left"}
    /\ \A m, k \in Machine : lessee[m] = lessee[k] /\ lessee[m] # Nobody => m = k
    /\ \A r \in Runner : pc[r] \in Leasing => \E m \in Machine : Holds(r, m)
    /\ \A r \in Runner : pc[r] = "drop" =>
        \E m \in Machine : lessee[m] = r /\ phase[m] = "retired"
    /\ \A r \in Runner : pc[r] \in Outside =>
        \A m \in Machine : lessee[m] # r

\* A machine a task was started in is with the runner that started it, past the
\* start; it is destroyed before that runner leases another one.
UsedInv == \A m \in used :
    /\ lessee[m] \in Runner
    /\ pc[lessee[m]] \in {"running", "failing", "unregister", "release", "drop"}

\* A registration is removed on every path, but when a call failed.
RegistrationInv ==
    /\ registered = {r \in Runner : pc[r] \in Registered}
    /\ orphans <= lost

\* Where an assigned task is.  It is given up at most once, since nobody holds
\* one that was; and before the signal only with a call that failed.
ParcelInv ==
    /\ \A r \in Runner : parcel[r] # NoTask <=> pc[r] \in WithTask
    /\ \A r, q \in Runner : parcel[r] = parcel[q] /\ parcel[r] # NoTask => r = q
    /\ \A t \in Task : tstate[t] = "assigned" <=>
        t \in dropped \/ \E r \in Runner : parcel[r] = t
    /\ \A r \in Runner : parcel[r] \notin dropped
    /\ IsFiniteSet(dropped)
    /\ ~signalled => Cardinality(dropped) <= lost

LoopInv == TypeOK /\ LeaseInv /\ UsedInv /\ RegistrationInv /\ ParcelInv

\* Nothing is leased, registered or assigned when the threads start.
LEMMA LoopInvInit == Init => LoopInv
<1> SUFFICES ASSUME Init PROVE LoopInv
  OBVIOUS
<1> USE RunnerLoopAssumption, LeaseAssumption DEF Init, LeaseInit
<1>1. TypeOK
  <2>1. lost \in 0 .. MaxLost /\ orphans \in Nat
    OBVIOUS
  <2> QED
    BY <2>1 DEF TypeOK, LeaseTypeOK, Phase, RunnerState
<1>2. LeaseInv /\ UsedInv
  BY DEF LeaseInv, UsedInv, Leasing, Registered, WithTask, Outside
<1>3. RegistrationInv
  BY DEF RegistrationInv, Registered, WithTask
<1>4. ParcelInv
  BY FS_EmptySet DEF ParcelInv, WithTask
<1> QED
  BY <1>1, <1>2, <1>3, <1>4 DEF LoopInv

\* The types are kept; a runner gives up a task only when it has one.
LEMMA LoopTypeStep == TypeOK /\ ParcelInv /\ [Next]_vars => TypeOK'
<1> SUFFICES ASSUME TypeOK, ParcelInv, [Next]_vars PROVE TypeOK'
  OBVIOUS
<1> USE RunnerLoopAssumption, LeaseAssumption
    DEF TypeOK, LeaseTypeOK, Phase, RunnerState, leaseVars, giteaVars
<1>1. ASSUME NEW r \in Runner, runner(r) PROVE TypeOK'
  <2> USE DEF Goto, Fails
  <2>1. CASE runner_loop(r)
    BY <2>1 DEF runner_loop
  <2>2. CASE acquire(r)
    BY <2>2 DEF acquire, Lease
  <2>3. CASE acquire_fail(r)
    BY <2>3 DEF acquire_fail
  <2>4. CASE check_stop(r)
    BY <2>4 DEF check_stop
  <2>5. CASE connect_prepare(r)
    BY <2>5 DEF connect_prepare
  <2>6. CASE connect_prepare_fail(r)
    BY <2>6 DEF connect_prepare_fail
  <2>7. CASE connect_register(r)
    BY <2>7 DEF connect_register
  <2>8. CASE connect_fail(r)
    BY <2>8 DEF connect_fail
  <2>9. CASE declare(r)
    BY <2>9 DEF declare
  <2>10. CASE declare_fail(r)
    BY <2>10 DEF declare_fail
  <2>11. CASE fetch_stop(r)
    BY <2>11 DEF fetch_stop
  <2>12. CASE \E t \in Task : fetch_task(r, t)
    BY <2>12 DEF fetch_task
  <2>13. CASE fetch_fail(r)
    BY <2>13 DEF fetch_fail
  <2>14. CASE fetch_return(r)
    <3>1. parcel[r] \in Task
      BY <2>14 DEF fetch_return, ParcelInv, WithTask
    <3> QED
      BY <2>14, <3>1 DEF fetch_return
  <2>15. CASE check_fetched(r)
    BY <2>15 DEF check_fetched
  <2>16. CASE inject(r)
    BY <2>16 DEF inject
  <2>17. CASE execute_ok(r)
    BY <2>17 DEF execute_ok
  <2>18. CASE execute_fail(r)
    BY <2>18 DEF execute_fail
  <2>19. CASE set_task_failed(r)
    <3>1. parcel[r] \in Task
      BY <2>19 DEF set_task_failed, ParcelInv, WithTask
    <3> QED
      BY <2>19, <3>1 DEF set_task_failed
  <2>20. CASE unregister(r)
    BY <2>20 DEF unregister
  <2>21. CASE release(r)
    BY <2>21 DEF release, Retire
  <2>22. CASE drop_machine(r)
    BY <2>22 DEF drop_machine, Destroy
  <2> HIDE DEF TypeOK
  <2> QED
    BY <1>1, <2>1, <2>2, <2>3, <2>4, <2>5, <2>6, <2>7, <2>8, <2>9, <2>10, <2>11, <2>12, <2>13, <2>14, <2>15, <2>16, <2>17, <2>18, <2>19, <2>20, <2>21, <2>22 DEF runner
<1>2. ASSUME NEW m \in Machine, pool_step(m) PROVE TypeOK'
  BY <1>2 DEF pool_step, Spawn, Abandon, Offer
<1>3. CASE pool_destroyed
  BY <1>3 DEF pool_destroyed, Discard
<1>4. CASE shutdown
  BY <1>4 DEF shutdown
<1>5. CASE UNCHANGED vars
  BY <1>5 DEF vars
<1> HIDE DEF TypeOK
<1> QED
  BY <1>1, <1>2, <1>3, <1>4, <1>5 DEF Next, ended

-----------------------------------------------------------------------------
(* The parts of the invariant, one lemma each.                             *)

\* A step inside S that touches no lease.
Stays(r, S) == UNCHANGED leaseVars /\ \E a, b \in S : Goto(r, a, b)

\* All of the iteration happens under one lease, but for its first and its last
\* two steps.
LEMMA LoopStays ==
  ASSUME NEW r \in Runner, runner(r)
  PROVE  acquire(r) \/ release(r) \/ drop_machine(r) \/ Stays(r, Leasing) \/ Stays(r, Outside)
<1> USE DEF Stays, Leasing, Registered, WithTask, Outside
<1>1. runner_loop(r) \/ acquire_fail(r) => Stays(r, Outside)
  BY DEF runner_loop, acquire_fail
<1>2. check_stop(r) \/ connect_prepare(r) \/ connect_prepare_fail(r) => Stays(r, Leasing)
  BY DEF check_stop, connect_prepare, connect_prepare_fail
<1>3. connect_register(r) \/ connect_fail(r) \/ declare(r) \/ declare_fail(r) => Stays(r, Leasing)
  BY DEF connect_register, connect_fail, declare, declare_fail
<1>4. fetch_stop(r) \/ (\E t \in Task : fetch_task(r, t)) \/ fetch_fail(r) => Stays(r, Leasing)
  BY DEF fetch_stop, fetch_task, fetch_fail
<1>5. fetch_return(r) \/ check_fetched(r) \/ inject(r) => Stays(r, Leasing)
  BY DEF fetch_return, check_fetched, inject
<1>6. execute_ok(r) \/ execute_fail(r) \/ set_task_failed(r) \/ unregister(r) => Stays(r, Leasing)
  BY DEF execute_ok, execute_fail, set_task_failed, unregister
<1> QED
  BY <1>1, <1>2, <1>3, <1>4, <1>5, <1>6 DEF runner

\* A runner inside an iteration leases exactly one machine.
LEMMA LeaseInvStep == TypeOK /\ LeaseInv /\ [Next]_vars => LeaseInv'
<1> SUFFICES ASSUME TypeOK, LeaseInv, [Next]_vars PROVE LeaseInv'
  OBVIOUS
<1> USE LeaseAssumption DEF TypeOK, LeaseTypeOK, LeaseInv, Holds, leaseVars
<1>1. ASSUME NEW r \in Runner, runner(r) PROVE LeaseInv'
  <2> USE DEF Goto, Leasing, Registered, WithTask, Outside
  <2>1. CASE acquire(r)
    BY <2>1 DEF acquire, Lease
  <2>2. CASE release(r)
    BY <2>2 DEF release, Retire
  <2>3. CASE drop_machine(r)
    BY <2>3 DEF drop_machine, Destroy
  <2>4. CASE Stays(r, Leasing)
    BY <2>4 DEF Stays
  <2>5. CASE Stays(r, Outside)
    BY <2>5 DEF Stays
  <2> QED
    BY <1>1, <2>1, <2>2, <2>3, <2>4, <2>5, LoopStays
<1>2. ASSUME NEW m \in Machine, pool_step(m) PROVE LeaseInv'
  BY <1>2 DEF pool_step, Spawn, Abandon, Offer
<1>3. CASE pool_destroyed
  BY <1>3 DEF pool_destroyed, Discard
<1>4. CASE UNCHANGED <<leaseVars, pc>>
  BY <1>4
<1> HIDE DEF LeaseInv
<1> QED
  BY <1>1, <1>2, <1>3, <1>4 DEF Next, ended, shutdown, vars

\* A machine with a task in it stays with its runner until it is destroyed.
LEMMA UsedInvStep == TypeOK /\ LeaseInv /\ UsedInv /\ [Next]_vars => UsedInv'
<1> SUFFICES ASSUME TypeOK, LeaseInv, UsedInv, [Next]_vars PROVE UsedInv'
  OBVIOUS
<1> USE LeaseAssumption DEF TypeOK, LeaseTypeOK, UsedInv, leaseVars
<1>1. ASSUME NEW r \in Runner, runner(r) PROVE UsedInv'
  <2> USE DEF Goto
  <2>1. CASE runner_loop(r)
    BY <2>1 DEF runner_loop
  <2>2. CASE acquire(r)
    BY <2>2 DEF acquire, Lease, LeaseInv
  <2>3. CASE acquire_fail(r)
    BY <2>3 DEF acquire_fail
  <2>4. CASE check_stop(r)
    BY <2>4 DEF check_stop
  <2>5. CASE connect_prepare(r)
    BY <2>5 DEF connect_prepare
  <2>6. CASE connect_prepare_fail(r)
    BY <2>6 DEF connect_prepare_fail
  <2>7. CASE connect_register(r)
    BY <2>7 DEF connect_register
  <2>8. CASE connect_fail(r)
    BY <2>8 DEF connect_fail
  <2>9. CASE declare(r)
    BY <2>9 DEF declare
  <2>10. CASE declare_fail(r)
    BY <2>10 DEF declare_fail
  <2>11. CASE fetch_stop(r)
    BY <2>11 DEF fetch_stop
  <2>12. CASE \E t \in Task : fetch_task(r, t)
    BY <2>12 DEF fetch_task
  <2>13. CASE fetch_fail(r)
    BY <2>13 DEF fetch_fail
  <2>14. CASE fetch_return(r)
    BY <2>14 DEF fetch_return
  <2>15. CASE check_fetched(r)
    BY <2>15 DEF check_fetched
  <2>16. CASE inject(r)
    BY <2>16 DEF inject
  <2>17. CASE execute_ok(r)
    BY <2>17 DEF execute_ok
  <2>18. CASE execute_fail(r)
    BY <2>18 DEF execute_fail
  <2>19. CASE set_task_failed(r)
    BY <2>19 DEF set_task_failed
  <2>20. CASE unregister(r)
    BY <2>20 DEF unregister
  <2>21. CASE release(r)
    BY <2>21 DEF release, Retire
  <2>22. CASE drop_machine(r)
    BY <2>22 DEF drop_machine, Destroy, LeaseInv
  <2> HIDE DEF UsedInv
  <2> QED
    BY <1>1, <2>1, <2>2, <2>3, <2>4, <2>5, <2>6, <2>7, <2>8, <2>9, <2>10, <2>11, <2>12, <2>13, <2>14, <2>15, <2>16, <2>17, <2>18, <2>19, <2>20, <2>21, <2>22 DEF runner
<1>2. ASSUME NEW m \in Machine, pool_step(m) PROVE UsedInv'
  BY <1>2 DEF pool_step, Spawn, Abandon, Offer
<1>3. CASE pool_destroyed
  BY <1>3 DEF pool_destroyed, Discard
<1>4. CASE UNCHANGED <<leaseVars, pc, used>>
  BY <1>4
<1> HIDE DEF UsedInv
<1> QED
  BY <1>1, <1>2, <1>3, <1>4 DEF Next, ended, shutdown, vars

\* Every path out of the iteration removes the registration or counts a failure.
LEMMA RegistrationInvStep == TypeOK /\ RegistrationInv /\ [Next]_vars => RegistrationInv'
<1> SUFFICES ASSUME TypeOK, RegistrationInv, [Next]_vars PROVE RegistrationInv'
  OBVIOUS
<1> USE RunnerLoopAssumption DEF TypeOK, RegistrationInv, giteaVars
<1>1. ASSUME NEW r \in Runner, runner(r) PROVE RegistrationInv'
  <2> USE DEF Goto, Fails, Registered, WithTask
  <2>1. CASE runner_loop(r)
    BY <2>1 DEF runner_loop
  <2>2. CASE acquire(r)
    BY <2>2 DEF acquire
  <2>3. CASE acquire_fail(r)
    BY <2>3 DEF acquire_fail
  <2>4. CASE check_stop(r)
    BY <2>4 DEF check_stop
  <2>5. CASE connect_prepare(r)
    BY <2>5 DEF connect_prepare
  <2>6. CASE connect_prepare_fail(r)
    BY <2>6 DEF connect_prepare_fail
  <2>7. CASE connect_register(r)
    BY <2>7 DEF connect_register
  <2>8. CASE connect_fail(r)
    BY <2>8 DEF connect_fail
  <2>9. CASE declare(r)
    BY <2>9 DEF declare
  <2>10. CASE declare_fail(r)
    BY <2>10 DEF declare_fail
  <2>11. CASE fetch_stop(r)
    BY <2>11 DEF fetch_stop
  <2>12. CASE \E t \in Task : fetch_task(r, t)
    BY <2>12 DEF fetch_task
  <2>13. CASE fetch_fail(r)
    BY <2>13 DEF fetch_fail
  <2>14. CASE fetch_return(r)
    BY <2>14 DEF fetch_return
  <2>15. CASE check_fetched(r)
    BY <2>15 DEF check_fetched
  <2>16. CASE inject(r)
    BY <2>16 DEF inject
  <2>17. CASE execute_ok(r)
    BY <2>17 DEF execute_ok
  <2>18. CASE execute_fail(r)
    BY <2>18 DEF execute_fail
  <2>19. CASE set_task_failed(r)
    BY <2>19 DEF set_task_failed
  <2>20. CASE unregister(r)
    BY <2>20 DEF unregister
  <2>21. CASE release(r)
    BY <2>21 DEF release
  <2>22. CASE drop_machine(r)
    BY <2>22 DEF drop_machine
  <2> HIDE DEF RegistrationInv
  <2> QED
    BY <1>1, <2>1, <2>2, <2>3, <2>4, <2>5, <2>6, <2>7, <2>8, <2>9, <2>10, <2>11, <2>12, <2>13, <2>14, <2>15, <2>16, <2>17, <2>18, <2>19, <2>20, <2>21, <2>22 DEF runner
<1>2. CASE UNCHANGED <<pc, registered, orphans, lost>>
  BY <1>2
<1> HIDE DEF RegistrationInv
<1> QED
  BY <1>1, <1>2 DEF Next, pool_step, pool_destroyed, ended, shutdown, vars

\* One more task given up counts for at most one.
LEMMA DroppedOneMore ==
  ASSUME IsFiniteSet(dropped), NEW t
  PROVE  /\ IsFiniteSet(dropped \cup {t})
         /\ Cardinality(dropped) \in Nat
         /\ Cardinality(dropped \cup {t}) \in Nat
         /\ Cardinality(dropped \cup {t}) <= Cardinality(dropped) + 1
<1>1. /\ IsFiniteSet(dropped \cup {t})
      /\ Cardinality(dropped \cup {t}) =
            IF t \in dropped THEN Cardinality(dropped) ELSE Cardinality(dropped) + 1
  BY FS_AddElement
<1>2. Cardinality(dropped) \in Nat
  BY FS_CardinalityType
<1> QED
  BY <1>1, <1>2

\* An assigned task is with one runner, or given up once.
LEMMA ParcelInvStep == TypeOK /\ ParcelInv /\ [Next]_vars => ParcelInv'
<1> SUFFICES ASSUME TypeOK, ParcelInv, [Next]_vars PROVE ParcelInv'
  OBVIOUS
<1> USE RunnerLoopAssumption DEF TypeOK, ParcelInv, giteaVars
<1>0. Cardinality(dropped) \in Nat
  BY FS_CardinalityType
<1>1. ASSUME NEW r \in Runner, runner(r) PROVE ParcelInv'
  <2> USE DEF Goto, Fails, WithTask
  \* Steps that neither take nor give up a task.
  <2>1. ASSUME UNCHANGED <<parcel, signalled, tstate, dropped>>,
               lost' \in {lost, lost + 1},
               NEW a \in RunnerState, NEW b \in RunnerState, Goto(r, a, b),
               a \in WithTask <=> b \in WithTask
        PROVE  ParcelInv'
    BY <1>0, <2>1
  <2>2. \/ runner_loop(r) \/ acquire(r) \/ acquire_fail(r) \/ check_stop(r)
        \/ connect_prepare(r) \/ connect_prepare_fail(r)
        => ParcelInv'
    BY <2>1 DEF runner_loop, acquire, acquire_fail, check_stop, connect_prepare, connect_prepare_fail, RunnerState
  <2>3. \/ connect_register(r) \/ connect_fail(r) \/ declare(r) \/ declare_fail(r) \/ fetch_stop(r)
        => ParcelInv'
    BY <2>1 DEF connect_register, connect_fail, declare, declare_fail, fetch_stop, RunnerState
  <2>4. check_fetched(r) \/ inject(r) \/ execute_fail(r) => ParcelInv'
    BY <2>1 DEF check_fetched, inject, execute_fail, RunnerState
  <2>5. unregister(r) \/ release(r) \/ drop_machine(r) => ParcelInv'
    BY <2>1 DEF unregister, release, drop_machine, RunnerState
  <2>6. ASSUME NEW t \in Task, fetch_task(r, t) PROVE ParcelInv'
    BY <1>0, <2>6 DEF fetch_task
  <2>7. CASE fetch_fail(r)
    <3>1. CASE UNCHANGED <<tstate, dropped>>
      BY <2>1, <2>7, <3>1 DEF fetch_fail, RunnerState
    <3>2. ASSUME NEW t \in Task, tstate[t] = "pending",
                 tstate' = [tstate EXCEPT ![t] = "assigned"], dropped' = dropped \cup {t}
          PROVE  ParcelInv'
      <4>1. IsFiniteSet(dropped') /\ (~signalled' => Cardinality(dropped') <= lost')
        <5>1. lost' = lost + 1 /\ signalled' = signalled /\ lost \in Nat
          BY <2>7 DEF fetch_fail
        <5>2. Cardinality(dropped') \in Nat /\ Cardinality(dropped') <= Cardinality(dropped) + 1
          BY <3>2, DroppedOneMore
        <5>3. IsFiniteSet(dropped')
          BY <3>2, DroppedOneMore
        <5> QED
          BY <1>0, <5>1, <5>2, <5>3
      <4>2. UNCHANGED parcel /\ \A q \in Runner : pc'[q] \in WithTask <=> pc[q] \in WithTask
        BY <2>7 DEF fetch_fail
      <4> QED
        BY <3>2, <4>1, <4>2
    <3> QED
      BY <2>7, <3>1, <3>2 DEF fetch_fail
  <2>8. CASE fetch_return(r)
    <3>1. CASE ~signalled
      BY <2>1, <2>8, <3>1 DEF fetch_return, RunnerState
    <3>2. CASE signalled
      <4>1. IsFiniteSet(dropped') /\ signalled'
        <5>1. dropped' = dropped \cup {parcel[r]} /\ signalled'
          BY <2>8, <3>2 DEF fetch_return
        <5> QED
          BY <5>1, DroppedOneMore
      <4>2. parcel[r] \in Task /\ pc'[r] \notin WithTask
        BY <2>8, <3>2 DEF fetch_return
      <4> QED
        BY <2>8, <3>2, <4>1, <4>2 DEF fetch_return
    <3> QED
      BY <3>1, <3>2
  <2>9. CASE execute_ok(r)
    BY <1>0, <2>9 DEF execute_ok
  <2>10. CASE set_task_failed(r)
    <3>1. parcel[r] \in Task /\ pc'[r] \notin WithTask
      BY <2>10 DEF set_task_failed
    <3>2. CASE UNCHANGED <<lost, dropped>> /\ tstate' = [tstate EXCEPT ![parcel[r]] = "failed"]
      BY <1>0, <2>10, <3>1, <3>2 DEF set_task_failed
    <3>3. CASE Fails /\ dropped' = dropped \cup {parcel[r]} /\ UNCHANGED tstate
      <4>1. IsFiniteSet(dropped') /\ (~signalled' => Cardinality(dropped') <= lost')
        <5>1. lost' = lost + 1 /\ signalled' = signalled /\ lost \in Nat
          BY <2>10, <3>3 DEF set_task_failed
        <5>2. Cardinality(dropped') \in Nat /\ Cardinality(dropped') <= Cardinality(dropped) + 1
          BY <3>3, DroppedOneMore
        <5>3. IsFiniteSet(dropped')
          BY <3>3, DroppedOneMore
        <5> QED
          BY <1>0, <5>1, <5>2, <5>3
      <4> QED
        BY <2>10, <3>1, <3>3, <4>1 DEF set_task_failed
    <3> QED
      BY <2>10, <3>2, <3>3 DEF set_task_failed
  <2> HIDE DEF ParcelInv
  <2> QED
    BY <1>1, <2>2, <2>3, <2>4, <2>5, <2>6, <2>7, <2>8, <2>9, <2>10 DEF runner
<1>2. CASE shutdown
  BY <1>2 DEF shutdown
<1>3. CASE UNCHANGED <<pc, parcel, signalled, tstate, lost, dropped>>
  BY <1>3
<1> HIDE DEF ParcelInv
<1> QED
  BY <1>1, <1>2, <1>3 DEF Next, pool_step, pool_destroyed, ended, vars

\* The command is started by inject and nowhere else.
LEMMA RunningByInject ==
  ASSUME pc \in [Runner -> RunnerState], NEW q \in Runner, runner(q),
         NEW r \in Runner, pc[r] # "running", pc'[r] = "running"
  PROVE  inject(q)
<1>1. ASSUME NEW a, NEW b, b # "running", Goto(q, a, b) PROVE FALSE
  BY <1>1 DEF Goto
<1>2. ~(runner_loop(q) \/ acquire(q) \/ acquire_fail(q) \/ check_stop(q))
  BY <1>1 DEF runner_loop, acquire, acquire_fail, check_stop
<1>3. ~(connect_prepare(q) \/ connect_prepare_fail(q) \/ connect_register(q) \/ connect_fail(q))
  BY <1>1 DEF connect_prepare, connect_prepare_fail, connect_register, connect_fail
<1>4. ~(declare(q) \/ declare_fail(q) \/ fetch_stop(q) \/ (\E t \in Task : fetch_task(q, t)))
  BY <1>1 DEF declare, declare_fail, fetch_stop, fetch_task
<1>5. ~(fetch_fail(q) \/ fetch_return(q) \/ check_fetched(q) \/ execute_ok(q))
  BY <1>1 DEF fetch_fail, fetch_return, check_fetched, execute_ok
<1>6. ~(execute_fail(q) \/ set_task_failed(q) \/ unregister(q) \/ release(q) \/ drop_machine(q))
  BY <1>1 DEF execute_fail, set_task_failed, unregister, release, drop_machine
<1> QED
  BY <1>2, <1>3, <1>4, <1>5, <1>6 DEF runner

-----------------------------------------------------------------------------
(* Theorems.                                                               *)

\* The inductive invariant, for any number of runners, machines and tasks.
THEOREM LoopInvariant == Spec => []LoopInv
<1>1. LoopInv /\ [Next]_vars => LoopInv'
  BY LoopTypeStep, LeaseInvStep, UsedInvStep, RegistrationInvStep, ParcelInvStep DEF LoopInv
<1> QED
  BY <1>1, LoopInvInit, PTL DEF Spec

\* A registered runner leases a machine on every path through the iteration, and
\* registrations are left behind only by calls that failed.
THEOREM LoopListensOnlyWhenReady == Spec => []ListenOnlyWhenReady
<1>1. LoopInv => ListenOnlyWhenReady
  BY DEF LoopInv, LeaseInv, RegistrationInv, ListenOnlyWhenReady, Leasing, Registered, WithTask
<1> QED
  BY <1>1, LoopInvariant, PTL

\* Every assigned task is with exactly one runner or was given up, and before
\* the signal no more were given up than calls failed.
THEOREM LoopAssignedAccounted == Spec => []AssignedAccounted
<1>1. LoopInv => AssignedAccounted
  BY DEF LoopInv, ParcelInv, AssignedAccounted
<1> QED
  BY <1>1, LoopInvariant, PTL

\* A task is started in a machine its runner holds and in which no task was
\* started before.
THEOREM LoopFreshMachine == Spec => FreshMachine
<1>1. ASSUME LoopInv, [Next]_vars, NEW r \in Runner, pc[r] # "running", pc'[r] = "running"
      PROVE  \E m \in Machine : Holds(r, m) /\ m \notin used
  <2>1. pc[r] = "activated"
    <3>1. PICK q \in Runner : runner(q)
      BY <1>1 DEF Next, pool_step, pool_destroyed, shutdown, ended, vars
    <3>2. inject(q)
      BY <1>1, <3>1, RunningByInject DEF LoopInv, TypeOK
    <3> QED
      BY <1>1, <3>2 DEF LoopInv, TypeOK, inject, Goto
  <2>2. PICK m \in Machine : Holds(r, m)
    BY <1>1, <2>1 DEF LoopInv, LeaseInv, Leasing, Registered, WithTask
  <2>3. m \notin used
    BY <1>1, <2>1, <2>2 DEF LoopInv, UsedInv, Holds
  <2> QED
    BY <2>2, <2>3
<1>2. LoopInv /\ [Next]_vars =>
        [\A r \in Runner : pc[r] # "running" /\ pc'[r] = "running" =>
            \E m \in Machine : Holds(r, m) /\ m \notin used]_vars
  BY <1>1
<1> QED
  BY <1>2, LoopInvariant, PTL DEF Spec, FreshMachine

\* The runners use the pool as MachineLease allows: every step is a step of the
\* leases or leaves them alone.
THEOREM LoopUsesLeases == Spec => LeaseSpec
<1>1. Init => LeaseInit
  BY DEF Init
<1>2. [Next]_vars => [LeaseNext]_leaseVars
  <2>1. ASSUME NEW r \in Runner, runner(r) PROVE [LeaseNext]_leaseVars
    BY <2>1, LoopStays DEF Stays, acquire, release, drop_machine, LeaseNext
  <2>2. ASSUME NEW m \in Machine, pool_step(m) PROVE [LeaseNext]_leaseVars
    BY <2>2 DEF pool_step, LeaseNext
  <2>3. pool_destroyed => LeaseNext
    BY DEF pool_destroyed, LeaseNext
  <2>4. shutdown \/ ended \/ UNCHANGED vars => UNCHANGED leaseVars
    BY DEF shutdown, ended, vars
  <2> QED
    BY <2>1, <2>2, <2>3, <2>4 DEF Next
<1> QED
  BY <1>1, <1>2, PTL DEF Spec, LeaseSpec
=============================================================================
