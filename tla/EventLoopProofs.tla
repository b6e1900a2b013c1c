--------------------------- MODULE EventLoopProofs ---------------------------
(***************************************************************************)
(* The invariants of EventLoop for every number of threads that share the  *)
(* loop, of loops in turn, and of failures.                                *)
(***************************************************************************)
EXTENDS EventLoop, TLAPS

-----------------------------------------------------------------------------
(* The inductive invariant.                                                *)

\* Inside get; in the destructor.
Creating == {"create", "publish"}
Destroying == {"stop", "sleep_start", "wait", "sleep_stop", "join"}

\* An identity that was not used yet is nobody's.
FreshInv == \A l \in fresh :
    /\ thread[l] = "none"
    /\ l # weak_instance
    /\ \A u \in User : uses[u] # l

\* The mutex of get is held while a loop is created, when there is no other in
\* use; whoever uses one got it from weak_instance; and a loop that is being
\* destroyed has no other user.
OwnerInv ==
    /\ \A u \in User : upc[u] \in Creating <=> mutex = u
    /\ \A u \in User : upc[u] = "using" => uses[u] = weak_instance /\ mutex = NoUser
    /\ \A u, v \in User : upc[u] \in Destroying /\ uses[v] = uses[u] => v = u

\* The state of a loop, the place of its thread and the life of the object.
StateInv == \A l \in Loop :
    /\ thread[l] = "begin" => m_run_loop_state[l] = "starting"
    /\ thread[l] \in {"started", "check", "poll", "end"} =>
        m_run_loop_state[l] \in {"running", "stopping"}
    /\ thread[l] \in {"ended", "exited"} => m_run_loop_state[l] = "stopped"
    /\ thread[l] \notin {"none", "exited"} => l \in timer /\ \E u \in User : uses[u] = l

\* What its users know of a loop: it has no thread only while it is created, it
\* is not stopped while somebody refers to it, but by an error, and ~EventLoopImpl
\* joins the thread only when run_loop is through.
UserInv == \A u \in User :
    /\ upc[u] = "create" =>
        thread[uses[u]] = "none" /\ m_run_loop_state[uses[u]] = "starting" /\ uses[u] \in timer
    /\ upc[u] \notin {"idle", "create"} => thread[uses[u]] # "none"
    /\ upc[u] \in Referring =>
        /\ m_run_loop_state[uses[u]] # "stopping"
        /\ thread[uses[u]] \in {"end", "ended", "exited"} => uses[u] \in broken
    /\ upc[u] = "join" => m_run_loop_state[uses[u]] = "stopped"

EventLoopInv == TypeOK /\ ~aborted /\ FreshInv /\ OwnerInv /\ StateInv /\ UserInv

\* No loop exists yet.
LEMMA EventLoopInit == Init => EventLoopInv
<1> SUFFICES ASSUME Init PROVE EventLoopInv
  OBVIOUS
<1>1. TypeOK
  <2>1. faults \in 0 .. MaxFaults
    BY LoopAssumption DEF Init
  <2> QED
    BY <2>1, LoopAssumption DEF Init, TypeOK, RunLoopState, Referring
<1> QED
  BY <1>1, LoopAssumption DEF Init, EventLoopInv, FreshInv, OwnerInv, StateInv, UserInv, Creating, Destroying, Referring

\* The types are kept.
LEMMA EventLoopTypes == TypeOK /\ [Next]_vars => TypeOK'
<1> SUFFICES ASSUME TypeOK, [Next]_vars PROVE TypeOK'
  OBVIOUS
<1> USE LoopAssumption DEF TypeOK, RunLoopState, Referring
<1>1. ASSUME NEW u \in User, get(u) \/ drop(u) \/ destroy(u) PROVE TypeOK'
  <2> USE DEF Goto, Fails, SetState
  <2>1. CASE get_shared(u)
    BY <2>1 DEF get_shared, Owners, Referring
  <2>2. CASE get_create(u)
    BY <2>2 DEF get_create
  <2>3. CASE get_fail_register(u)
    BY <2>3 DEF get_fail_register
  <2>4. CASE start(u)
    BY <2>4 DEF start
  <2>5. CASE start_fails(u)
    BY <2>5 DEF start_fails
  <2>6. CASE publish(u)
    BY <2>6 DEF publish
  <2>7. CASE drop(u)
    BY <2>7 DEF drop
  <2>8. CASE stop_loop(u)
    BY <2>8 DEF stop_loop
  <2>9. CASE stop_loop_wait(u)
    BY <2>9 DEF stop_loop_wait
  <2>10. CASE join(u)
    BY <2>10 DEF join
  <2> HIDE DEF TypeOK
  <2> QED
    BY <1>1, <2>1, <2>2, <2>3, <2>4, <2>5, <2>6, <2>7, <2>8, <2>9, <2>10 DEF get, destroy
<1>2. ASSUME NEW l \in Loop, run_loop(l) PROVE TypeOK'
  <2> USE DEF ThreadTo, Fails, SetState, Wake
  <2>1. CASE run_begin(l)
    BY <2>1 DEF run_begin
  <2>2. CASE run_started(l)
    BY <2>2 DEF run_started
  <2>3. CASE run_check(l)
    BY <2>3 DEF run_check
  <2>4. CASE run_poll(l)
    BY <2>4 DEF run_poll
  <2>5. CASE run_poll_error(l)
    BY <2>5 DEF run_poll_error
  <2>6. CASE run_end(l)
    BY <2>6 DEF run_end
  <2>7. CASE run_ended(l)
    BY <2>7 DEF run_ended
  <2> HIDE DEF TypeOK
  <2> QED
    BY <1>2, <2>1, <2>2, <2>3, <2>4, <2>5, <2>6, <2>7 DEF run_loop
<1>3. CASE UNCHANGED vars
  BY <1>3 DEF vars
<1> HIDE DEF TypeOK
<1> QED
  BY <1>1, <1>2, <1>3 DEF Next, exhausted

\* What a user does keeps the invariant.
LEMMA UserStep ==
    ASSUME EventLoopInv, TypeOK', NEW u \in User, get(u) \/ drop(u) \/ destroy(u)
    PROVE  EventLoopInv'
<1> USE LoopAssumption DEF EventLoopInv, TypeOK, Creating, Destroying, Referring
<1>1. CASE get_shared(u)
  <2> USE <1>1 DEF get_shared, Goto, Owners
  <2>1. (~aborted)'
    BY DEF StateInv
  <2>2. FreshInv'
    BY DEF FreshInv
  <2>3. OwnerInv'
    BY DEF OwnerInv
  <2>4. StateInv'
    BY DEF StateInv, UserInv, OwnerInv
  <2>5. UserInv'
    BY DEF UserInv, StateInv, OwnerInv
  <2> QED
    BY <2>1, <2>2, <2>3, <2>4, <2>5
<1>2. CASE get_create(u)
  <2> USE <1>2 DEF get_create, Goto, SetState, Owners
  <2>1. (~aborted)'
    BY DEF StateInv
  <2>2. FreshInv'
    BY DEF FreshInv
  <2>3. OwnerInv'
    BY DEF OwnerInv, FreshInv
  <2>4. StateInv'
    BY DEF StateInv, UserInv, OwnerInv, FreshInv
  <2>5. UserInv'
    BY DEF UserInv, StateInv, OwnerInv, FreshInv
  <2> QED
    BY <2>1, <2>2, <2>3, <2>4, <2>5
<1>3. CASE get_fail_register(u)
  <2> USE <1>3 DEF get_fail_register, Fails
  <2>1. (~aborted)'
    BY DEF StateInv
  <2>2. FreshInv'
    BY DEF FreshInv
  <2>3. OwnerInv'
    BY DEF OwnerInv, FreshInv
  <2>4. StateInv'
    BY DEF StateInv, UserInv, OwnerInv
  <2>5. UserInv'
    BY DEF UserInv, StateInv, OwnerInv
  <2> QED
    BY <2>1, <2>2, <2>3, <2>4, <2>5
<1>4. CASE start(u)
  <2> USE <1>4 DEF start, Goto
  <2>1. (~aborted)'
    BY DEF StateInv
  <2>2. FreshInv'
    BY DEF FreshInv
  <2>3. OwnerInv'
    BY DEF OwnerInv
  <2>4. StateInv'
    BY DEF StateInv, UserInv, OwnerInv
  <2>5. UserInv'
    BY DEF UserInv, StateInv, OwnerInv
  <2> QED
    BY <2>1, <2>2, <2>3, <2>4, <2>5
<1>5. CASE start_fails(u)
  <2> USE <1>5 DEF start_fails, Goto, Fails, SetState
  <2>1. (~aborted)'
    BY DEF StateInv
  <2>2. FreshInv'
    BY DEF FreshInv
  <2>3. OwnerInv'
    BY DEF OwnerInv
  <2>4. StateInv'
    BY DEF StateInv, UserInv, OwnerInv
  <2>5. UserInv'
    BY DEF UserInv, StateInv, OwnerInv
  <2> QED
    BY <2>1, <2>2, <2>3, <2>4, <2>5
<1>6. CASE publish(u)
  <2> USE <1>6 DEF publish, Goto
  <2>1. (~aborted)'
    BY DEF StateInv
  <2>2. FreshInv'
    BY DEF FreshInv
  <2>3. OwnerInv'
    BY DEF OwnerInv
  <2>4. StateInv'
    BY DEF StateInv, UserInv, OwnerInv
  <2>5. UserInv'
    BY DEF UserInv, StateInv, OwnerInv
  <2> QED
    BY <2>1, <2>2, <2>3, <2>4, <2>5
<1>7. CASE drop(u)
  <2> USE <1>7 DEF drop, Goto, Owners
  <2>1. (~aborted)'
    BY DEF StateInv
  <2>2. FreshInv'
    BY DEF FreshInv
  <2>3. OwnerInv'
    BY DEF OwnerInv
  <2>4. StateInv'
    BY DEF StateInv, UserInv, OwnerInv
  <2>5. UserInv'
    BY DEF UserInv, StateInv, OwnerInv
  <2> QED
    BY <2>1, <2>2, <2>3, <2>4, <2>5
<1>8. CASE stop_loop(u)
  <2> USE <1>8 DEF stop_loop, Goto, SetState
  <2>1. (~aborted)'
    BY DEF StateInv
  <2>2. FreshInv'
    BY DEF FreshInv
  <2>3. OwnerInv'
    BY DEF OwnerInv
  <2>4. StateInv'
    BY DEF StateInv, UserInv, OwnerInv
  <2>5. UserInv'
    BY DEF UserInv, StateInv, OwnerInv
  <2> QED
    BY <2>1, <2>2, <2>3, <2>4, <2>5
<1>9. CASE stop_loop_wait(u)
  <2> USE <1>9 DEF stop_loop_wait, Goto
  <2>1. (~aborted)'
    BY DEF StateInv
  <2>2. FreshInv'
    BY DEF FreshInv
  <2>3. OwnerInv'
    BY DEF OwnerInv
  <2>4. StateInv'
    BY DEF StateInv, UserInv, OwnerInv
  <2>5. UserInv'
    BY DEF UserInv, StateInv, OwnerInv
  <2> QED
    BY <2>1, <2>2, <2>3, <2>4, <2>5
<1>10. CASE join(u)
  <2> USE <1>10 DEF join, Goto
  <2>1. (~aborted)'
    BY DEF StateInv
  <2>2. FreshInv'
    BY DEF FreshInv
  <2>3. OwnerInv'
    BY DEF OwnerInv
  <2>4. StateInv'
    BY DEF StateInv, UserInv, OwnerInv
  <2>5. UserInv'
    BY DEF UserInv, StateInv, OwnerInv
  <2> QED
    BY <2>1, <2>2, <2>3, <2>4, <2>5
<1> QED
  BY <1>1, <1>2, <1>3, <1>4, <1>5, <1>6, <1>7, <1>8, <1>9, <1>10 DEF get, destroy

\* What the thread of a loop does keeps the invariant.
LEMMA ThreadStep ==
    ASSUME EventLoopInv, TypeOK', NEW l \in Loop, run_loop(l)
    PROVE  EventLoopInv'
<1> USE LoopAssumption DEF EventLoopInv, TypeOK, Creating, Destroying, Referring
<1>1. CASE run_begin(l)
  <2> USE <1>1 DEF run_begin, ThreadTo, SetState
  <2>1. (~aborted)'
    BY DEF StateInv
  <2>2. FreshInv'
    BY DEF FreshInv
  <2>3. OwnerInv'
    BY DEF OwnerInv
  <2>4. StateInv'
    BY DEF StateInv, UserInv, OwnerInv
  <2>5. UserInv'
    BY DEF UserInv, StateInv, OwnerInv
  <2> QED
    BY <2>1, <2>2, <2>3, <2>4, <2>5
<1>2. CASE run_started(l)
  <2> USE <1>2 DEF run_started, ThreadTo, Wake
  <2>1. (~aborted)'
    BY DEF StateInv
  <2>2. FreshInv'
    BY DEF FreshInv
  <2>3. OwnerInv'
    BY DEF OwnerInv
  <2>4. StateInv'
    BY DEF StateInv, UserInv, OwnerInv
  <2>5. UserInv'
    BY DEF UserInv, StateInv, OwnerInv
  <2> QED
    BY <2>1, <2>2, <2>3, <2>4, <2>5
<1>3. CASE run_check(l)
  <2> USE <1>3 DEF run_check, ThreadTo
  <2>1. (~aborted)'
    BY DEF StateInv
  <2>2. FreshInv'
    BY DEF FreshInv
  <2>3. OwnerInv'
    BY DEF OwnerInv
  <2>4. StateInv'
    BY DEF StateInv, UserInv, OwnerInv
  <2>5. UserInv'
    BY DEF UserInv, StateInv, OwnerInv
  <2> QED
    BY <2>1, <2>2, <2>3, <2>4, <2>5
<1>4. CASE run_poll(l)
  <2> USE <1>4 DEF run_poll, ThreadTo
  <2>1. (~aborted)'
    BY DEF StateInv
  <2>2. FreshInv'
    BY DEF FreshInv
  <2>3. OwnerInv'
    BY DEF OwnerInv
  <2>4. StateInv'
    BY DEF StateInv, UserInv, OwnerInv
  <2>5. UserInv'
    BY DEF UserInv, StateInv, OwnerInv
  <2> QED
    BY <2>1, <2>2, <2>3, <2>4, <2>5
<1>5. CASE run_poll_error(l)
  <2> USE <1>5 DEF run_poll_error, ThreadTo, Fails
  <2>1. (~aborted)'
    BY DEF StateInv
  <2>2. FreshInv'
    BY DEF FreshInv
  <2>3. OwnerInv'
    BY DEF OwnerInv
  <2>4. StateInv'
    BY DEF StateInv, UserInv, OwnerInv
  <2>5. UserInv'
    BY DEF UserInv, StateInv, OwnerInv
  <2> QED
    BY <2>1, <2>2, <2>3, <2>4, <2>5
<1>6. CASE run_end(l)
  <2> USE <1>6 DEF run_end, ThreadTo, SetState
  <2>1. (~aborted)'
    BY DEF StateInv
  <2>2. FreshInv'
    BY DEF FreshInv
  <2>3. OwnerInv'
    BY DEF OwnerInv
  <2>4. StateInv'
    BY DEF StateInv, UserInv, OwnerInv
  <2>5. UserInv'
    BY DEF UserInv, StateInv, OwnerInv
  <2> QED
    BY <2>1, <2>2, <2>3, <2>4, <2>5
<1>7. CASE run_ended(l)
  <2> USE <1>7 DEF run_ended, ThreadTo, Wake
  <2>1. (~aborted)'
    BY DEF StateInv
  <2>2. FreshInv'
    BY DEF FreshInv
  <2>3. OwnerInv'
    BY DEF OwnerInv
  <2>4. StateInv'
    BY DEF StateInv, UserInv, OwnerInv
  <2>5. UserInv'
    BY DEF UserInv, StateInv, OwnerInv
  <2> QED
    BY <2>1, <2>2, <2>3, <2>4, <2>5
<1> QED
  BY <1>1, <1>2, <1>3, <1>4, <1>5, <1>6, <1>7 DEF run_loop

\* However loops are created, shared and dropped, the invariant holds.
THEOREM EventLoopInvariant == Spec => []EventLoopInv
<1>1. EventLoopInv /\ [Next]_vars => EventLoopInv'
  <2> SUFFICES ASSUME EventLoopInv, [Next]_vars PROVE EventLoopInv'
    OBVIOUS
  <2>1. TypeOK'
    BY EventLoopTypes DEF EventLoopInv
  <2>2. CASE UNCHANGED vars
    BY <2>2 DEF vars, EventLoopInv, TypeOK, FreshInv, OwnerInv, StateInv, UserInv
  <2> QED
    BY <2>1, <2>2, UserStep, ThreadStep DEF Next, exhausted
<1> QED
  BY <1>1, EventLoopInit, PTL DEF Spec

\* The std::abort in run_loop is unreachable, and the thread never outlives the
\* object and the time-out it depends on.
THEOREM EventLoopNeverAborts == Spec => []NeverAborts
<1>1. EventLoopInv => NeverAborts
  BY DEF EventLoopInv, StateInv, NeverAborts
<1> QED
  BY <1>1, EventLoopInvariant, PTL

\* Hypervisors alive at the same time share one loop, and it runs: get never
\* hands out one that the last user is stopping.
THEOREM EventLoopSharedLoopRuns == Spec => []SharedLoopRuns
<1>1. EventLoopInv => SharedLoopRuns
  <2> SUFFICES ASSUME EventLoopInv PROVE SharedLoopRuns
    OBVIOUS
  <2> USE LoopAssumption DEF EventLoopInv, TypeOK, Referring, Creating
  <2>1. ASSUME NEW u \in User, NEW v \in User, upc[u] \in Referring, upc[v] \in Referring
        PROVE  uses[u] = uses[v]
    BY <2>1 DEF OwnerInv
  <2>2. ASSUME NEW u \in User, upc[u] = "using"
        PROVE  m_run_loop_state[uses[u]] \in {"starting", "running"} \/ uses[u] \in broken
    BY <2>2 DEF StateInv, UserInv, RunLoopState
  <2> QED
    BY <2>1, <2>2 DEF SharedLoopRuns
<1> QED
  BY <1>1, EventLoopInvariant, PTL
=============================================================================
