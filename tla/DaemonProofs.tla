---------------------------- MODULE DaemonProofs ----------------------------
(***************************************************************************)
(* The invariants of Daemon, for every number of templates, runner threads *)
(* and signals.                                                            *)
(***************************************************************************)
EXTENDS Daemon, FunctionTheorems, FiniteSetTheorems, SequenceTheorems, TLAPS

-----------------------------------------------------------------------------
(* The inductive invariant.                                                *)

\* A runner thread whose lambda is alive; main before cmd_daemon; the ends.
Holding == {"loop", "look", "work", "release"}
Begin == {"options", "config", "install"}
Exits == {"exit0", "exit1", "killed"}

\* th runs ~TemplateState of t.
Stopper(th, t) == pc[th] = "stop" /\ ((th = main /\ at = t) \/ th \in Runners(t))

\* Where each kind of thread can be.
PcInv ==
    /\ pc[main] \in Begin \cup Exits \cup {"create", "threads", "clear", "join", "stop"}
    /\ \A t \in Template : pc[Control(t)] \in {"none", "loop", "look", "ended"}
    /\ \A t \in Template : \A r \in Runners(t) : pc[r] \in Holding \cup {"none", "stop", "ended"}

\* The references to a TemplateState, and that one is enough to keep it.
RefInv == \A t \in Template :
    /\ refs[t] \subseteq {main} \cup Runners(t)
    /\ \A r \in Runners(t) : r \in refs[t] <=> pc[r] \in Holding
    /\ refs[t] # {} => state[t] = "alive" /\ ~m_stop[t]

\* The life of a TemplateState: without a reference it is alive only while one
\* thread, and no other, stops its pool.
LifeInv == \A t \in Template :
    /\ state[t] = "none" =>
        /\ refs[t] = {} /\ ~m_stop[t] /\ pc[Control(t)] = "none"
        /\ \A r \in Runners(t) : pc[r] = "none"
    /\ state[t] = "gone" => refs[t] = {} /\ pc[Control(t)] = "ended"
    /\ state[t] = "alive" /\ refs[t] = {} => \E th \in Thread : Stopper(th, t)
    /\ \A th \in Thread : Stopper(th, t) =>
        /\ refs[t] = {} /\ state[t] = "alive"
        /\ \A o \in Thread : Stopper(o, t) => o = th

\* No runner thread of any template is left, or none was started.
RunnersDone == \A t \in Template : \A r \in Runners(t) : pc[r] \in {"none", "ended"}

\* What main knows of the templates at each place.
MainInv ==
    /\ pc[main] \in Begin => at = 1 /\ \A t \in Template : state[t] = "none"
    /\ ~installed => pc[main] \in Begin \cup Exits
    /\ pc[main] = "create" => \A t \in Template :
        (t < at => main \in refs[t]) /\ (t >= at => state[t] = "none")
    /\ pc[main] = "threads" => at \in Template /\ \A t \in Template :
        (t <= at => main \in refs[t]) /\ (t > at => state[t] = "none")
    /\ pc[main] \in {"clear", "stop"} =>
        /\ \A t \in Template : t < at => main \notin refs[t]
        /\ failed => RunnersDone
    /\ pc[main] = "stop" => at \in Template
    /\ pc[main] = "join" /\ ~failed => \A t \in Template : main \notin refs[t]
    /\ failed => pc[main] \in {"join", "clear", "stop", "exit1"}
    /\ pc[main] \in Exits =>
        /\ \A t \in Template : state[t] # "alive"
        /\ \A t \in Template : pc[Control(t)] \in {"none", "ended"}
        /\ RunnersDone

\* A runner thread leaves its loop only after the signal; a template that main
\* has passed has a runner thread if it is to have one.
Passed(t) ==
    \/ pc[main] \in {"create", "threads"} /\ t < at
    \/ pc[main] \in {"clear", "stop", "join"} /\ ~failed

AskedInv ==
    /\ \A t \in Template : \A r \in Runners(t) : pc[r] \in {"release", "stop", "ended"} => value
    /\ \A t \in Template : Passed(t) /\ Runners(t) \cap Wanted # {} =>
        \E r \in Runners(t) : pc[r] # "none"
    /\ EndsOnlyWhenAsked

DaemonInv == TypeOK /\ PcInv /\ RefInv /\ LifeInv /\ MainInv /\ AskedInv

-----------------------------------------------------------------------------
(* The threads.                                                            *)

\* main, the control threads and the runner threads of the templates are all
\* different.
LEMMA Threads ==
    /\ main \in Thread
    /\ \A t \in Template : Control(t) \in Thread /\ Control(t) # main
    /\ \A t, u \in Template : Control(t) = Control(u) => t = u
    /\ \A t \in Template : \A r \in Runners(t) :
        /\ r \in Thread /\ r \in RunnerThread /\ r # main /\ r[1] = t
        /\ \A u \in Template : r # Control(u) /\ (r \in Runners(u) => u = t)
    /\ \A r \in RunnerThread : r[1] \in Template /\ r \in Runners(r[1])
    /\ \A th \in Thread : \/ th = main
                          \/ \E t \in Template : th = Control(t)
                          \/ \E t \in Template : th \in Runners(t)
<1> USE DaemonAssumption DEF Thread, main, Control, Runners, RunnerThread, Template
<1>1. main \in Thread /\ \A t \in Template : Control(t) \in Thread /\ Control(t) # main
  OBVIOUS
<1>2. \A t, u \in Template : Control(t) = Control(u) => t = u
  OBVIOUS
<1>3. ASSUME NEW t \in Template, NEW r \in Runners(t)
      PROVE  /\ r \in Thread /\ r \in RunnerThread /\ r # main /\ r[1] = t
             /\ \A u \in Template : r # Control(u) /\ (r \in Runners(u) => u = t)
  <2>1. r[1] = t /\ r[2] \in 1 .. MaxConcurrency
    OBVIOUS
  <2>2. r # main /\ \A u \in Template : r # Control(u) /\ (r \in Runners(u) => u = t)
    BY <2>1
  <2> QED
    BY <2>1, <2>2
<1>4. \A r \in RunnerThread : r[1] \in Template /\ r \in Runners(r[1])
  OBVIOUS
<1>5. \A th \in Thread : \/ th = main
                         \/ \E t \in Template : th = Control(t)
                         \/ \E t \in Template : th \in Runners(t)
  OBVIOUS
<1> HIDE DEF Thread, main, Control, Runners, RunnerThread, Template
<1> QED
  BY <1>1, <1>2, <1>3, <1>4, <1>5

\* The process starts with main alone.
LEMMA DaemonInit == Init => DaemonInv
<1> SUFFICES ASSUME Init PROVE DaemonInv
  OBVIOUS
<1> USE DEF Init
<1>1. pc[main] = "options" /\ \A th \in Thread : th # main => pc[th] = "none"
  BY Threads
<1>2. TypeOK
  <2>1. at \in 1 .. Templates + 1
    BY DaemonAssumption
  <2>2. frames \in [Thread -> Seq({"lock", "set"})]
    OBVIOUS
  <2>3. pc \in [Thread -> {"none", "options"}]
    OBVIOUS
  <2>4. refs \in [Template -> SUBSET Thread]
    OBVIOUS
  <2> QED
    BY <2>1, <2>2, <2>3, <2>4 DEF TypeOK
<1>3. PcInv /\ RefInv /\ LifeInv /\ MainInv
  BY <1>1, Threads DEF PcInv, RefInv, LifeInv, MainInv, Stopper, Begin, Exits, Holding, RunnersDone
<1>4. AskedInv
  BY <1>1, Threads DEF AskedInv, Passed, EndsOnlyWhenAsked
<1> QED
  BY <1>2, <1>3, <1>4 DEF DaemonInv

\* The states of pc.
PcState == {"none", "options", "config", "install", "create", "threads", "clear", "join", "loop",
            "look", "work", "release", "stop", "ended", "exit0", "exit1", "killed"}

\* The types are kept; main counts templates only where there is a next one.
LEMMA DaemonTypes ==
    ASSUME TypeOK, MainInv, [Next]_vars
    PROVE  TypeOK'
<1> USE Threads DEF configVars, poolVars, signalVars, vars
<1>a. ASSUME NEW th \in Thread, NEW from, NEW to \in PcState, Goto(th, from, to)
      PROVE  pc' \in [Thread -> PcState]
  BY <1>a DEF Goto, TypeOK, PcState
<1>b. ASSUME UNCHANGED <<configVars, at, failed, poolVars, signalVars>>, pc' \in [Thread -> PcState]
      PROVE  TypeOK'
  BY <1>b DEF TypeOK, PcState
<1>c. ASSUME UNCHANGED <<configVars, at, failed, poolVars, installed, arrived, frames, value>>,
             pc' \in [Thread -> PcState], mutex' \in Thread \cup {None}
      PROVE  TypeOK'
  BY <1>c DEF TypeOK, PcState
<1>d. ASSUME UNCHANGED <<configVars, failed, signalVars>>, pc' \in [Thread -> PcState],
             at' \in 1 .. Templates + 1, state' \in [Template -> {"none", "alive", "gone"}],
             refs' \in [Template -> SUBSET Thread], m_stop' \in [Template -> BOOLEAN]
      PROVE  TypeOK'
  BY <1>d DEF TypeOK, PcState
<1>e. ASSUME NEW th \in Thread, NEW t \in Template, NEW from, NEW to \in PcState,
             Drop(th, t, from, to) \/ Stopped(th, t, to)
      PROVE  /\ pc' \in [Thread -> PcState] /\ state' \in [Template -> {"none", "alive", "gone"}]
             /\ refs' \in [Template -> SUBSET Thread] /\ m_stop' \in [Template -> BOOLEAN]
  <2>1. CASE Drop(th, t, from, to)
    <3>1. pc' \in [Thread -> PcState]
      BY <1>a, <2>1 DEF Drop, PcState
    <3> QED
      BY <2>1, <3>1 DEF Drop, TypeOK
  <2>2. CASE Stopped(th, t, to)
    <3>1. pc' \in [Thread -> PcState]
      BY <1>a, <2>2 DEF Stopped
    <3> QED
      BY <2>2, <3>1 DEF Stopped, TypeOK
  <2> QED
    BY <1>e, <2>1, <2>2
<1>f. at \in Nat /\ (at \in Template => at + 1 \in 1 .. Templates + 1) /\ 1 \in 1 .. Templates + 1
  BY DaemonAssumption DEF TypeOK, Template
<1>1. CASE parse_options \/ load_file
  BY <1>1, <1>a, <1>b DEF parse_options, load_file, PcState
<1>2. CASE install
  <2>1. pc' \in [Thread -> PcState]
    BY <1>2, <1>a DEF install, PcState
  <2> QED
    BY <1>2, <2>1 DEF install, TypeOK, PcState
<1>3. CASE create
  <2>1. at \in Template
    BY <1>3 DEF create
  <2>2. pc' \in [Thread -> PcState]
    BY <1>3, <2>1 DEF create, TypeOK, PcState
  <2>3. state' \in [Template -> {"none", "alive", "gone"}] /\ refs' \in [Template -> SUBSET Thread]
    BY <1>3, <2>1 DEF create, TypeOK
  <2>4. m_stop' \in [Template -> BOOLEAN] /\ at' \in 1 .. Templates + 1
    BY <1>3 DEF create, TypeOK
  <2>5. UNCHANGED <<configVars, failed, signalVars>>
    BY <1>3 DEF create
  <2> QED
    BY <1>d, <2>2, <2>3, <2>4, <2>5
<1>4. CASE start_runner
  <2>1. NextRunner \in Thread
    BY <1>4 DEF start_runner, Wanted
  <2>2. pc' \in [Thread -> PcState]
    BY <1>4, <2>1 DEF start_runner, TypeOK, PcState
  <2>3. refs' \in [Template -> SUBSET Thread]
    <3>1. at \in Template /\ refs \in [Template -> SUBSET Thread]
      BY <1>4 DEF start_runner, MainInv, TypeOK
    <3>2. refs' = [refs EXCEPT ![at] = refs[at] \cup {NextRunner}]
      BY <1>4 DEF start_runner
    <3> QED
      BY <2>1, <3>1, <3>2
  <2>4. /\ state' \in [Template -> {"none", "alive", "gone"}]
        /\ m_stop' \in [Template -> BOOLEAN] /\ at' \in 1 .. Templates + 1
    BY <1>4 DEF start_runner, TypeOK
  <2>5. UNCHANGED <<configVars, failed, signalVars>>
    BY <1>4 DEF start_runner
  <2> QED
    BY <1>d, <2>2, <2>3, <2>4, <2>5
<1>5. CASE next_template
  <2>1. pc' \in [Thread -> PcState]
    BY <1>5, <1>a DEF next_template, PcState
  <2>2. at' \in 1 .. Templates + 1
    BY <1>5, <1>f DEF next_template, MainInv, Goto
  <2> QED
    BY <1>5, <1>d, <2>1, <2>2 DEF next_template, TypeOK
<1>6. CASE clear
  <2>1. CASE at \in Template /\ (Drop(main, at, "clear", "clear") \/ Stopped(main, at, "clear")) /\ UNCHANGED at
    BY <1>6, <1>d, <1>e, <2>1 DEF clear, TypeOK, PcState
  <2>2. CASE at \in Template /\ Goto(main, "clear", "clear") /\ at' = at + 1 /\ UNCHANGED poolVars
    <3>1. pc' \in [Thread -> PcState]
      BY <1>a, <2>2 DEF PcState
    <3> QED
      BY <1>6, <1>d, <1>f, <2>2, <3>1 DEF clear, TypeOK
  <2>3. CASE Goto(main, "clear", IF failed THEN "exit1" ELSE "join") /\ UNCHANGED <<at, poolVars>>
    <3>1. pc' \in [Thread -> PcState]
      BY <1>a, <2>3 DEF PcState
    <3> QED
      BY <1>6, <1>b, <2>3, <3>1 DEF clear
  <2> QED
    BY <1>6, <2>1, <2>2, <2>3 DEF clear
<1>7. CASE join
  <2>1. pc' \in [Thread -> PcState]
    BY <1>7 DEF join, TypeOK, PcState
  <2> QED
    BY <1>7, <1>d, <1>f, <2>1 DEF join, TypeOK
<1>8. CASE startup_throws
  <2>1. pc' \in [Thread -> PcState]
    BY <1>8, <1>a DEF startup_throws, PcState
  <2> QED
    BY <1>8, <2>1 DEF startup_throws, TypeOK, PcState
<1>9. ASSUME NEW th \in Thread, lock(th) PROVE TypeOK'
  BY <1>9, <1>a, <1>c DEF lock, PcState
<1>10. ASSUME NEW th \in Thread, NEW yes \in PcState, NEW no \in PcState, look(th, yes, no)
       PROVE  TypeOK'
  BY <1>10, <1>a, <1>c DEF look
<1>11. ASSUME NEW r \in RunnerThread, runner_loop(r) \/ runner_loop_iteration(r) \/ release(r)
       PROVE  TypeOK'
  <2>1. r \in Thread /\ r[1] \in Template
    OBVIOUS
  <2>2. CASE runner_loop(r)
    BY <1>10, <2>1, <2>2 DEF runner_loop, PcState
  <2>3. CASE runner_loop_iteration(r)
    BY <1>a, <1>b, <2>1, <2>3 DEF runner_loop_iteration, PcState
  <2>4. CASE release(r)
    BY <1>d, <1>e, <2>1, <2>4 DEF release, TypeOK, PcState
  <2> QED
    BY <1>11, <2>2, <2>3, <2>4
<1>12. ASSUME NEW t \in Template, control_loop(t) PROVE TypeOK'
  <2>1. CASE look(Control(t), "ended", "loop")
    BY <1>10, <2>1 DEF PcState
  <2>2. CASE Goto(Control(t), "loop", "ended") /\ UNCHANGED <<configVars, at, failed, poolVars, signalVars>>
    BY <1>a, <1>b, <2>2 DEF PcState
  <2> QED
    BY <1>12, <2>1, <2>2 DEF control_loop
<1>13. CASE default_action
  BY <1>13 DEF default_action, TypeOK
<1>14. ASSUME NEW s \in Signal, NEW th \in Thread, deliver(s, th) PROVE TypeOK'
  <2>1. frames' \in [Thread -> Seq({"lock", "set"})]
    BY <1>14 DEF deliver, TypeOK
  <2> QED
    BY <1>14, <2>1 DEF deliver, TypeOK
<1>15. ASSUME NEW th \in Thread, handler_lock(th) \/ handler_set(th) PROVE TypeOK'
  <2>1. Front(frames[th]) \in Seq({"lock", "set"})
    BY <1>15 DEF handler_lock, handler_set, TypeOK, Front
  <2>2. Append(Front(frames[th]), "set") \in Seq({"lock", "set"})
    BY <2>1
  <2>3. frames' \in [Thread -> Seq({"lock", "set"})]
    <3> DEFINE S == Seq({"lock", "set"})
               x == Front(frames[th])
               y == Append(x, "set")
    <3>1. frames' = [frames EXCEPT ![th] = y] \/ frames' = [frames EXCEPT ![th] = x]
      BY <1>15 DEF handler_lock, handler_set
    <3>2. frames \in [Thread -> S] /\ x \in S /\ y \in S
      BY <2>1, <2>2 DEF TypeOK
    <3> HIDE DEF S, x, y
    <3>3. frames' \in [Thread -> S]
      BY <3>1, <3>2
    <3> QED
      BY <3>3 DEF S
  <2>4. mutex' \in Thread \cup {None} /\ value' \in BOOLEAN
    <3>1. mutex' = th \/ mutex' = None
      BY <1>15 DEF handler_lock, handler_set
    <3>2. value' = value \/ value' = TRUE
      BY <1>15 DEF handler_lock, handler_set
    <3>3. value \in BOOLEAN
      BY DEF TypeOK
    <3> QED
      BY <3>1, <3>2, <3>3
  <2>5. UNCHANGED <<configVars, pc, at, failed, poolVars, installed, arrived>>
    BY <1>15 DEF handler_lock, handler_set
  <2> QED
    BY <2>3, <2>4, <2>5 DEF TypeOK
<1>16. CASE UNCHANGED vars
  BY <1>16 DEF TypeOK
<1> QED
  BY <1>1, <1>2, <1>3, <1>4, <1>5, <1>6, <1>7, <1>8, <1>9, <1>11, <1>12, <1>13, <1>14, <1>15, <1>16
     DEF Next, thread, cmd_daemon, stopped

-----------------------------------------------------------------------------
(* Steps.                                                                  *)

\* A handler changes nothing that the invariant is about but the value, and
\* that only to TRUE.
LEMMA SignalStep ==
    ASSUME DaemonInv, TypeOK', UNCHANGED <<configVars, pc, at, failed, poolVars, installed>>,
           value => value'
    PROVE  DaemonInv'
<1> USE DEF DaemonInv, configVars, poolVars
<1>1. PcInv' /\ RefInv' /\ LifeInv' /\ MainInv'
  BY DEF PcInv, RefInv, LifeInv, MainInv, Stopper, RunnersDone
<1>2. AskedInv'
  BY DEF AskedInv, Passed, EndsOnlyWhenAsked, Wanted
<1> QED
  BY <1>1, <1>2

\* A runner thread moves with its reference.
LEMMA RunnerStep ==
    ASSUME DaemonInv, TypeOK', NEW t \in Template, NEW r \in Runners(t), NEW to \in Holding,
           pc[r] \in Holding, pc' = [pc EXCEPT ![r] = to], to = "release" => value,
           UNCHANGED <<configVars, at, failed, poolVars, installed, value>>
    PROVE  DaemonInv'
<1> USE Threads DEF DaemonInv, configVars, poolVars
<1>1. /\ pc'[r] = to /\ pc'[main] = pc[main] /\ \A u \in Template : pc'[Control(u)] = pc[Control(u)]
      /\ \A th \in Thread : th # r => pc'[th] = pc[th]
  BY DEF TypeOK
<1>2. pc[r] \notin {"none", "stop", "ended"} /\ to \notin {"none", "stop", "ended"}
  BY DEF Holding
<1>3. PcInv' /\ RefInv'
  BY <1>1 DEF PcInv, RefInv
<1>4. LifeInv'
  BY <1>1, <1>2 DEF LifeInv, Stopper
<1>5. MainInv'
  BY <1>1, <1>2 DEF MainInv, RunnersDone
<1>6. AskedInv'
  <2>1. \A u \in Template : \A q \in Runners(u) : pc'[q] \in {"release", "stop", "ended"} => value'
    BY <1>1, <1>2 DEF AskedInv
  <2>2. \A u \in Template : Passed(u)' /\ (Runners(u) \cap Wanted # {})' =>
          \E q \in Runners(u) : pc'[q] # "none"
    BY <1>1, <1>2 DEF AskedInv, Passed, Wanted
  <2>3. EndsOnlyWhenAsked'
    BY <1>1, <1>2 DEF AskedInv, EndsOnlyWhenAsked, Wanted
  <2> QED
    BY <2>1, <2>2, <2>3 DEF AskedInv
<1> QED
  BY <1>3, <1>4, <1>5, <1>6

\* A control thread goes on, or ends.
LEMMA ControlStep ==
    ASSUME DaemonInv, TypeOK', NEW t \in Template, NEW to \in {"loop", "look", "ended"},
           pc[Control(t)] \in {"loop", "look"}, pc' = [pc EXCEPT ![Control(t)] = to],
           UNCHANGED <<configVars, at, failed, poolVars, installed, value>>
    PROVE  DaemonInv'
<1> USE Threads DEF DaemonInv, configVars, poolVars
<1>1. /\ pc'[Control(t)] = to /\ pc'[main] = pc[main]
      /\ \A th \in Thread : th # Control(t) => pc'[th] = pc[th]
      /\ \A u \in Template : \A r \in Runners(u) : pc'[r] = pc[r]
  BY DEF TypeOK
<1>2. PcInv' /\ RefInv'
  BY <1>1 DEF PcInv, RefInv
<1>3. \A th \in Thread, u \in Template : Stopper(th, u)' <=> Stopper(th, u)
  BY <1>1 DEF Stopper
<1>4. LifeInv'
  BY <1>1, <1>3 DEF LifeInv
<1>5. MainInv'
  BY <1>1 DEF MainInv, RunnersDone
<1>6. AskedInv'
  BY <1>1 DEF AskedInv, Passed, EndsOnlyWhenAsked, Wanted
<1> QED
  BY <1>2, <1>4, <1>5, <1>6

\* The reference of th to t goes away.  If it was the last one, th stops t.
LEMMA DropStep ==
    ASSUME DaemonInv, NEW th \in Thread, NEW t \in Template, NEW from, NEW to,
           to # "stop", to \notin Holding, th \in refs[t], from # "stop",
           th = main \/ th \in Runners(t), th = main => at = t /\ at' = t,
           Drop(th, t, from, to), UNCHANGED at, TypeOK'
    PROVE  /\ RefInv' /\ LifeInv' /\ pc'[th] \in {to, "stop"} /\ pc[th] = from
           /\ \A o \in Thread : o # th => pc'[o] = pc[o]
           /\ refs' = [refs EXCEPT ![t] = refs[t] \ {th}] /\ state' = state
<1> USE Threads DEF DaemonInv
<1> DEFINE last == refs[t] = {th}
<1>1. /\ pc[th] = from /\ pc' = [pc EXCEPT ![th] = IF last THEN "stop" ELSE to]
      /\ refs' = [refs EXCEPT ![t] = refs[t] \ {th}]
      /\ m_stop' = [m_stop EXCEPT ![t] = m_stop[t] \/ last] /\ state' = state
  BY DEF Drop, Goto
<1>2. /\ pc'[th] = IF last THEN "stop" ELSE to
      /\ \A o \in Thread : o # th => pc'[o] = pc[o]
      /\ refs'[t] = refs[t] \ {th} /\ \A u \in Template : u # t => refs'[u] = refs[u]
      /\ m_stop'[t] = (m_stop[t] \/ last) /\ \A u \in Template : u # t => m_stop'[u] = m_stop[u]
  BY <1>1 DEF TypeOK
<1>3. RefInv'
  <2> SUFFICES ASSUME NEW u \in Template
               PROVE  /\ refs'[u] \subseteq {main} \cup Runners(u)
                      /\ \A r \in Runners(u) : r \in refs'[u] <=> pc'[r] \in Holding
                      /\ refs'[u] # {} => state'[u] = "alive" /\ ~m_stop'[u]
    BY DEF RefInv
  <2>1. "stop" \notin Holding
    BY DEF Holding
  <2>2. CASE u # t
    BY <1>1, <1>2, <2>2 DEF RefInv
  <2>3. CASE u = t
    <3>1. refs'[t] \subseteq {main} \cup Runners(t)
      BY <1>2 DEF RefInv
    <3>2. \A r \in Runners(t) : r \in refs'[t] <=> pc'[r] \in Holding
      BY <1>2, <2>1 DEF RefInv
    <3>3. refs'[t] # {} => ~last
      BY <1>2
    <3>4. state'[t] = "alive" /\ ~m_stop[t]
      BY <1>1 DEF RefInv
    <3>5. ~last => ~m_stop'[t]
      BY <1>2, <3>4
    <3> QED
      BY <2>3, <3>1, <3>2, <3>3, <3>4, <3>5
  <2> QED
    BY <2>2, <2>3
<1>4. \A o \in Thread : ~Stopper(o, t)
  BY DEF LifeInv
<1>5. \A u \in Template : u # t => \A o \in Thread : Stopper(o, u)' <=> Stopper(o, u)
  BY <1>1, <1>2 DEF Stopper
<1>6. \A o \in Thread : Stopper(o, t)' <=> o = th /\ last
  BY <1>1, <1>2, <1>4 DEF Stopper
<1>7. state[t] = "alive"
  BY DEF RefInv
<1>8. \A u \in Template : pc'[Control(u)] = pc[Control(u)]
  BY <1>2
<1>9. LifeInv'
  <2>1. ASSUME NEW u \in Template, u # t PROVE LifeInv!(u)'
    <3>1. \A r \in Runners(u) : pc'[r] = pc[r]
      BY <1>2, <2>1
    <3> QED
      BY <1>1, <1>2, <1>5, <1>8, <2>1, <3>1 DEF LifeInv
  <2>2. LifeInv!(t)'
    <3>1. refs'[t] = {} <=> last
      BY <1>2
    <3> QED
      BY <1>1, <1>6, <1>7, <3>1
  <2> QED
    BY <2>1, <2>2 DEF LifeInv
<1> QED
  BY <1>1, <1>2, <1>3, <1>9

\* The control thread of t was joined: t is gone.
LEMMA StoppedStep ==
    ASSUME DaemonInv, NEW th \in Thread, NEW t \in Template, NEW to, to # "stop", to \notin Holding,
           Stopper(th, t), Stopped(th, t, to), UNCHANGED at, TypeOK'
    PROVE  /\ RefInv' /\ LifeInv' /\ pc'[th] = to
           /\ \A o \in Thread : o # th => pc'[o] = pc[o]
           /\ refs' = refs /\ state' = [state EXCEPT ![t] = "gone"] /\ state[t] = "alive"
<1> USE Threads DEF DaemonInv
<1>1. /\ pc[th] = "stop" /\ pc' = [pc EXCEPT ![th] = to] /\ pc[Control(t)] = "ended"
      /\ state' = [state EXCEPT ![t] = "gone"] /\ refs' = refs /\ m_stop' = m_stop
  BY DEF Stopped, Goto
<1>2. /\ pc'[th] = to /\ \A o \in Thread : o # th => pc'[o] = pc[o]
      /\ state'[t] = "gone" /\ \A u \in Template : u # t => state'[u] = state[u]
  BY <1>1 DEF TypeOK
<1>3. th # Control(t) /\ refs[t] = {} /\ state[t] = "alive" /\ \A o \in Thread : Stopper(o, t) => o = th
  BY DEF LifeInv, Stopper
<1>4. RefInv'
  <2>1. "stop" \notin Holding
    BY DEF Holding
  <2>2. \A u \in Template : \A r \in Runners(u) : pc'[r] \in Holding <=> pc[r] \in Holding
    BY <1>1, <1>2, <2>1
  <2> QED
    BY <1>1, <1>2, <1>3, <2>2 DEF RefInv
<1>5. \A o \in Thread : ~Stopper(o, t)'
  BY <1>1, <1>2, <1>3 DEF Stopper
<1>6. \A u \in Template : u # t => \A o \in Thread : Stopper(o, u)' <=> Stopper(o, u)
  BY <1>1, <1>2 DEF Stopper
<1>7. \A u \in Template : pc'[Control(u)] = pc[Control(u)]
  BY <1>2 DEF Stopper
<1>8. LifeInv'
  <2>1. ASSUME NEW u \in Template, u # t PROVE LifeInv!(u)'
    <3>1. \A r \in Runners(u) : pc'[r] = "none" <=> pc[r] = "none" \/ (r = th /\ to = "none")
      BY <1>1, <1>2
    <3>2. \A r \in Runners(u) : r = th => FALSE
      BY <2>1 DEF Stopper
    <3> QED
      BY <1>1, <1>2, <1>6, <1>7, <2>1, <3>1, <3>2 DEF LifeInv
  <2>2. LifeInv!(t)'
    BY <1>1, <1>2, <1>3, <1>5, <1>7
  <2> QED
    BY <2>1, <2>2 DEF LifeInv
<1> QED
  BY <1>1, <1>2, <1>3, <1>4, <1>8

\* The lambda of a runner thread is destroyed.
LEMMA ReleaseStep ==
    ASSUME DaemonInv, TypeOK', NEW r \in RunnerThread, release(r)
    PROVE  DaemonInv'
<1> USE Threads DEF DaemonInv
<1> DEFINE t == r[1]
<1>1. /\ t \in Template /\ r \in Runners(t) /\ r \in Thread /\ r # main
      /\ \A u \in Template : r # Control(u)
      /\ UNCHANGED <<options, fault, max_concurrency, at, failed, installed, value>>
  BY DEF release, configVars, signalVars
<1> HIDE DEF t
<1>2. /\ RefInv' /\ LifeInv' /\ pc[r] \in {"release", "stop"} /\ pc'[r] \in {"stop", "ended"}
      /\ \A o \in Thread : o # r => pc'[o] = pc[o]
      /\ \A u \in Template : refs'[u] \subseteq refs[u] /\ (main \in refs[u] => main \in refs'[u])
      /\ \A u \in Template : state'[u] = state[u] \/ (state[u] = "alive" /\ state'[u] = "gone" /\ refs[u] = {})
  <2>1. CASE Drop(r, t, "release", "ended")
    <3>1. pc[r] = "release" /\ r \in refs[t]
      BY <1>1, <2>1 DEF Drop, Goto, RefInv, Holding
    <3>2. /\ RefInv' /\ LifeInv' /\ pc'[r] \in {"ended", "stop"}
          /\ \A o \in Thread : o # r => pc'[o] = pc[o]
          /\ refs' = [refs EXCEPT ![t] = refs[t] \ {r}] /\ state' = state
      BY <1>1, <2>1, <3>1, DropStep DEF Holding
    <3>3. \A u \in Template : refs'[u] \subseteq refs[u] /\ (main \in refs[u] => main \in refs'[u])
      BY <1>1, <3>2 DEF TypeOK
    <3> QED
      BY <3>1, <3>2, <3>3
  <2>2. CASE Stopped(r, t, "ended")
    <3>1. Stopper(r, t)
      BY <1>1, <2>2 DEF Stopped, Goto, Stopper
    <3>2. /\ RefInv' /\ LifeInv' /\ pc'[r] = "ended"
          /\ \A o \in Thread : o # r => pc'[o] = pc[o]
          /\ refs' = refs /\ state' = [state EXCEPT ![t] = "gone"] /\ state[t] = "alive"
      BY <1>1, <2>2, <3>1, StoppedStep DEF Holding
    <3>3. refs[t] = {} /\ pc[r] = "stop"
      BY <1>1, <3>1 DEF LifeInv, Stopper
    <3> QED
      BY <1>1, <3>2, <3>3 DEF TypeOK
  <2> QED
    BY <2>1, <2>2 DEF release, t
<1>3. pc'[main] = pc[main] /\ \A u \in Template : pc'[Control(u)] = pc[Control(u)]
  BY <1>1, <1>2
<1>4. PcInv'
  BY <1>2, <1>3 DEF PcInv
<1>5. ~RunnersDone /\ state[t] # "none"
  BY <1>1, <1>2 DEF RunnersDone, LifeInv
<1>6. MainInv'
  <2>1. \A u \in Template : (state[u] = "none" => state'[u] = "none") /\ (main \in refs'[u] => main \in refs[u])
    BY <1>2
  <2>2. pc[main] \notin Exits /\ ~(pc[main] \in {"clear", "stop"} /\ failed)
    BY <1>5 DEF MainInv
  <2> QED
    BY <1>1, <1>2, <1>3, <2>1, <2>2 DEF MainInv
<1>7. AskedInv'
  <2>1. value
    BY <1>1, <1>2 DEF AskedInv
  <2>2. \A u \in Template : Passed(u)' /\ (Runners(u) \cap Wanted # {})' =>
          \E q \in Runners(u) : pc'[q] # "none"
    BY <1>1, <1>2, <1>3 DEF AskedInv, Passed, Wanted
  <2> QED
    BY <1>1, <2>1, <2>2 DEF AskedInv, EndsOnlyWhenAsked
<1> QED
  BY <1>2, <1>4, <1>6, <1>7

\* main moves without touching a TemplateState.
LEMMA MainMove ==
    ASSUME DaemonInv, TypeOK', UNCHANGED <<configVars, poolVars, value>>,
           NEW to \in Begin \cup Exits \cup {"create", "threads", "clear", "join"},
           pc[main] # "stop", pc' = [pc EXCEPT ![main] = to]
    PROVE  /\ PcInv' /\ RefInv' /\ LifeInv' /\ pc'[main] = to
           /\ \A th \in Thread : th # main => pc'[th] = pc[th]
           /\ RunnersDone' <=> RunnersDone
           /\ Wanted' = Wanted
           /\ \A t \in Template : \A r \in Runners(t) : pc'[r] = pc[r]
           /\ \A t \in Template : pc'[Control(t)] = pc[Control(t)]
<1> USE Threads DEF DaemonInv, configVars, poolVars
<1>1. /\ pc'[main] = to /\ \A th \in Thread : th # main => pc'[th] = pc[th]
      /\ \A t \in Template : pc'[Control(t)] = pc[Control(t)]
      /\ \A t \in Template : \A r \in Runners(t) : pc'[r] = pc[r]
  BY DEF TypeOK
<1>2. to # "stop"
  BY DEF Begin, Exits
<1>3. \A th \in Thread, t \in Template : Stopper(th, t)' <=> Stopper(th, t)
  BY <1>1, <1>2 DEF Stopper
<1>4. PcInv' /\ RefInv'
  BY <1>1 DEF PcInv, RefInv
<1>5. LifeInv'
  BY <1>1, <1>3 DEF LifeInv
<1> QED
  BY <1>1, <1>4, <1>5 DEF RunnersDone, Wanted

\* Until cmd_daemon runs there is no template and no other thread.
LEMMA BeginStep ==
    ASSUME DaemonInv, TypeOK', parse_options \/ load_file \/ install \/ default_action
    PROVE  DaemonInv'
<1> USE Threads DEF DaemonInv, configVars, poolVars, signalVars
<1>1. /\ UNCHANGED <<configVars, poolVars, value, at, failed>> /\ pc[main] \in Begin
      /\ installed' = installed \/ pc'[main] = "create"
      /\ \E to \in Begin \cup Exits \cup {"create"} : pc' = [pc EXCEPT ![main] = to]
      /\ pc'[main] = "exit0" => options = "help"
      /\ pc'[main] = "create" => installed'
  <2>1. CASE parse_options \/ load_file \/ install
    BY <2>1 DEF parse_options, load_file, install, Goto, Begin, Exits, TypeOK
  <2>2. CASE default_action
    BY <2>2 DEF default_action, MainInv, Over, Begin, Exits, TypeOK
  <2> QED
    BY <2>1, <2>2
<1>2. PICK to \in Begin \cup Exits \cup {"create"} : pc' = [pc EXCEPT ![main] = to]
  BY <1>1
<1>3. pc[main] # "stop"
  BY <1>1 DEF Begin
<1>4. /\ PcInv' /\ RefInv' /\ LifeInv' /\ pc'[main] = to
      /\ Wanted' = Wanted
      /\ \A t \in Template : \A r \in Runners(t) : pc'[r] = pc[r]
      /\ \A t \in Template : pc'[Control(t)] = pc[Control(t)]
  BY <1>1, <1>2, <1>3, MainMove
<1>5. at = 1 /\ ~failed /\ \A t \in Template : state[t] = "none"
  BY <1>1 DEF MainInv, Begin
<1>6. RunnersDone' /\ \A t \in Template : /\ ~(t < 1) /\ pc'[Control(t)] = "none"
                                          /\ \A r \in Runners(t) : pc'[r] = "none"
  BY <1>4, <1>5, DaemonAssumption DEF LifeInv, RunnersDone, Template
<1>7. MainInv'
  <2>1. to = "create" \/ to \in Begin \/ to \in Exits
    OBVIOUS
  <2>2. installed' = installed \/ to = "create"
    BY <1>1, <1>4
  <2>3. CASE to = "create"
    <3>1. installed'
      BY <1>1, <1>4, <2>3
    <3> QED
      BY <1>1, <1>4, <1>5, <1>6, <2>3, <3>1 DEF MainInv, Begin, Exits
  <2>4. CASE to # "create"
    BY <1>1, <1>4, <1>5, <1>6, <2>1, <2>2, <2>4 DEF MainInv, Begin, Exits
  <2> QED
    BY <2>3, <2>4
<1>8. AskedInv'
  <2>1. \A t \in Template : ~Passed(t)'
    BY <1>1, <1>4, <1>5, <1>6 DEF Passed, Begin, Exits
  <2>2. EndsOnlyWhenAsked'
    BY <1>1, <1>4, <1>6 DEF EndsOnlyWhenAsked
  <2> QED
    BY <1>6, <2>1, <2>2 DEF AskedInv
<1> QED
  BY <1>4, <1>7, <1>8

\* The next template gets its TemplateState.
LEMMA CreateStep ==
    ASSUME DaemonInv, TypeOK', create
    PROVE  DaemonInv'
<1> USE Threads DEF DaemonInv, configVars, poolVars, signalVars
<1>1. /\ pc[main] = "create" /\ at \in Template /\ state[at] = "none"
      /\ UNCHANGED <<options, fault, max_concurrency, at, failed, m_stop, installed, value>>
  <2>1. at \in Nat
    BY DaemonAssumption DEF TypeOK
  <2> QED
    BY <2>1 DEF create, MainInv
<1>2. /\ pc'[main] = "threads" /\ pc'[Control(at)] = "loop"
      /\ \A th \in Thread : th # main /\ th # Control(at) => pc'[th] = pc[th]
      /\ state'[at] = "alive" /\ refs'[at] = {main}
      /\ \A t \in Template : t # at => state'[t] = state[t] /\ refs'[t] = refs[t]
  BY <1>1 DEF create, TypeOK
<1>3. /\ \A t \in Template : \A r \in Runners(t) : pc'[r] = pc[r]
      /\ \A t \in Template : t # at => pc'[Control(t)] = pc[Control(t)]
  BY <1>1, <1>2
<1>4. PcInv'
  BY <1>2, <1>3 DEF PcInv
<1>5. refs[at] = {} /\ ~m_stop[at] /\ \A r \in Runners(at) : pc[r] = "none"
  BY <1>1 DEF LifeInv
<1>6. RefInv'
  BY <1>1, <1>2, <1>3, <1>5 DEF RefInv, Holding
<1>7. \A th \in Thread, t \in Template : Stopper(th, t)' <=> Stopper(th, t)
  BY <1>1, <1>2 DEF Stopper, PcInv
<1>8. LifeInv'
  <2>1. ASSUME NEW t \in Template, t # at PROVE LifeInv!(t)'
    BY <1>1, <1>2, <1>3, <1>7, <2>1 DEF LifeInv
  <2>2. LifeInv!(at)'
    <3>1. \A th \in Thread : ~Stopper(th, at)
      BY <1>1 DEF LifeInv
    <3> QED
      BY <1>1, <1>2, <1>7, <3>1
  <2> QED
    BY <1>1, <2>1, <2>2 DEF LifeInv
<1>9. MainInv'
  <2>1. \A t \in Template : t \in Int /\ at \in Int
    BY <1>1, DaemonAssumption DEF Template
  <2>2. \A t \in Template : (t <= at => main \in refs'[t]) /\ (t > at => state'[t] = "none")
    BY <1>1, <1>2, <2>1 DEF MainInv
  <2>3. installed /\ ~failed
    BY <1>1 DEF MainInv, Begin, Exits
  <2> QED
    BY <1>1, <1>2, <2>2, <2>3 DEF MainInv, Begin, Exits
<1>10. AskedInv'
  <2>1. \A t \in Template : Passed(t)' <=> Passed(t)
    BY <1>1, <1>2 DEF Passed
  <2> QED
    BY <1>1, <1>2, <1>3, <2>1 DEF AskedInv, EndsOnlyWhenAsked, Wanted
<1> QED
  BY <1>4, <1>6, <1>8, <1>9, <1>10

\* Another runner thread of the template; its lambda holds a reference.
LEMMA StartStep ==
    ASSUME DaemonInv, TypeOK', start_runner
    PROVE  DaemonInv'
<1> USE Threads DEF DaemonInv, configVars, poolVars, signalVars
<1> DEFINE r == NextRunner
<1>1. /\ pc[main] = "threads" /\ at \in Template /\ main \in refs[at] /\ r \in Wanted
      /\ UNCHANGED <<options, fault, max_concurrency, at, failed, state, m_stop, installed, value>>
      /\ pc' = [pc EXCEPT ![r] = "loop"] /\ refs' = [refs EXCEPT ![at] = refs[at] \cup {r}]
  <2>1. at \in Nat
    BY DaemonAssumption DEF TypeOK
  <2>2. pc[main] = "threads" /\ at \in Template /\ main \in refs[at]
    BY <2>1 DEF start_runner, MainInv
  <2> QED
    BY <2>2 DEF start_runner
<1>2. r[1] = at /\ r \in Runners(at) /\ r \in Thread /\ r # main /\ \A u \in Template : r # Control(u)
  <2>1. r[1] = at
    BY DEF NextRunner
  <2>2. r \in RunnerThread
    BY <1>1 DEF Wanted
  <2> HIDE DEF r
  <2> QED
    BY <1>1, <2>1, <2>2
<1> HIDE DEF r
<1>3. /\ pc'[r] = "loop" /\ pc'[main] = "threads"
      /\ \A th \in Thread : th # r => pc'[th] = pc[th]
      /\ \A u \in Template : pc'[Control(u)] = pc[Control(u)]
      /\ refs'[at] = refs[at] \cup {r} /\ \A u \in Template : u # at => refs'[u] = refs[u]
  BY <1>1, <1>2 DEF TypeOK
<1>4. state[at] = "alive" /\ ~m_stop[at] /\ \A th \in Thread : ~Stopper(th, at)
  BY <1>1 DEF RefInv, LifeInv
<1>5. PcInv'
  BY <1>2, <1>3 DEF PcInv, Holding
<1>6. RefInv'
  BY <1>1, <1>2, <1>3, <1>4 DEF RefInv, Holding
<1>7. \A th \in Thread, u \in Template : Stopper(th, u)' <=> Stopper(th, u)
  <2>1. pc[r] # "stop"
    BY <1>2, <1>4 DEF Stopper
  <2> QED
    BY <1>1, <1>3, <2>1 DEF Stopper
<1>8. LifeInv'
  <2>1. ASSUME NEW u \in Template, u # at PROVE LifeInv!(u)'
    <3>1. \A q \in Runners(u) : pc'[q] = pc[q]
      BY <1>1, <1>2, <1>3, <2>1
    <3> QED
      BY <1>1, <1>3, <1>7, <2>1, <3>1 DEF LifeInv
  <2>2. LifeInv!(at)'
    BY <1>1, <1>3, <1>4, <1>7
  <2> QED
    BY <1>1, <2>1, <2>2 DEF LifeInv
<1>9. MainInv'
  BY <1>1, <1>3 DEF MainInv, Begin, Exits
<1>10. AskedInv'
  <2>1. \A u \in Template : \A q \in Runners(u) : pc'[q] \in {"release", "stop", "ended"} => value'
    BY <1>1, <1>3 DEF AskedInv
  <2>2. \A u \in Template : Passed(u)' /\ (Runners(u) \cap Wanted # {})' =>
          \E q \in Runners(u) : pc'[q] # "none"
    BY <1>1, <1>3 DEF AskedInv, Passed, Wanted
  <2> QED
    BY <1>3, <2>1, <2>2 DEF AskedInv, EndsOnlyWhenAsked
<1> QED
  BY <1>5, <1>6, <1>8, <1>9, <1>10

\* main leaves a template that is to have a runner thread only when one runs.
LEMMA FirstRunner ==
    ASSUME TypeOK, at \in Template, NextRunner \notin Wanted, Runners(at) \cap Wanted # {}
    PROVE  \E r \in Runners(at) : pc[r] # "none"
<1> SUFFICES ASSUME \A r \in Runners(at) : pc[r] = "none" PROVE FALSE
  OBVIOUS
<1>1. {r \in Runners(at) : pc[r] # "none"} = {}
  OBVIOUS
<1>2. NextRunner = <<at, 1>>
  BY <1>1, FS_EmptySet DEF NextRunner
<1>3. PICK q \in Runners(at) : q \in Wanted
  OBVIOUS
<1>4. q[1] = at /\ q[2] \in 1 .. MaxConcurrency /\ q[2] <= max_concurrency[at]
  BY <1>3 DEF Runners, Wanted
<1>5. 1 \in 1 .. MaxConcurrency /\ 1 <= max_concurrency[at]
  BY <1>4, DaemonAssumption DEF TypeOK
<1>6. <<at, 1>> \in RunnerThread
  BY <1>5 DEF RunnerThread, Runners
<1> QED
  BY <1>2, <1>5, <1>6 DEF Wanted

\* The next template, or the end of the loop that creates them.
LEMMA NextTemplateStep ==
    ASSUME DaemonInv, TypeOK', next_template
    PROVE  DaemonInv'
<1> USE Threads DEF DaemonInv, configVars, poolVars, signalVars
<1>1. /\ UNCHANGED <<configVars, poolVars, value, failed, installed>>
      /\ pc[main] \in {"threads", "create"} /\ pc[main] # "stop" /\ ~failed /\ installed
  BY DEF next_template, Goto, MainInv, Begin, Exits
<1>2. at \in Nat /\ Templates \in Nat /\ \A t \in Template : t \in Nat /\ t <= Templates /\ t >= 1
  BY DaemonAssumption DEF TypeOK, Template
<1>3. CASE Goto(main, "threads", "create") /\ NextRunner \notin Wanted /\ at' = at + 1
  <2>1. pc[main] = "threads" /\ pc' = [pc EXCEPT ![main] = "create"]
    BY <1>3 DEF Goto
  <2>2. /\ PcInv' /\ RefInv' /\ LifeInv' /\ pc'[main] = "create" /\ Wanted' = Wanted
        /\ \A t \in Template : \A r \in Runners(t) : pc'[r] = pc[r]
    BY <1>1, <2>1, MainMove
  <2>3. at \in Template /\ \A t \in Template : (t <= at => main \in refs[t]) /\ (t > at => state[t] = "none")
    BY <2>1 DEF MainInv
  <2>4. \A t \in Template : (t < at' <=> t <= at) /\ (t >= at' <=> t > at) /\ (t < at' <=> t < at \/ t = at)
    BY <1>2, <1>3
  <2>5. MainInv'
    BY <1>1, <2>2, <2>3, <2>4 DEF MainInv, Begin, Exits
  <2>6. AskedInv'
    <3>1. \A t \in Template : Passed(t)' => Passed(t) \/ t = at
      BY <1>1, <2>1, <2>2, <2>4 DEF Passed
    <3>2. Runners(at) \cap Wanted # {} => \E r \in Runners(at) : pc[r] # "none"
      BY <1>3, <2>3, FirstRunner
    <3>3. \A t \in Template : Passed(t)' /\ Runners(t) \cap Wanted # {} =>
            \E r \in Runners(t) : pc[r] # "none"
      BY <3>1, <3>2 DEF AskedInv
    <3> QED
      BY <1>1, <2>2, <3>3 DEF AskedInv, EndsOnlyWhenAsked
  <2> QED
    BY <2>2, <2>5, <2>6
<1>4. CASE at > Templates /\ Goto(main, "create", "clear") /\ at' = 1
  <2>1. pc[main] = "create" /\ pc' = [pc EXCEPT ![main] = "clear"]
    BY <1>4 DEF Goto
  <2>2. /\ PcInv' /\ RefInv' /\ LifeInv' /\ pc'[main] = "clear" /\ Wanted' = Wanted
        /\ \A t \in Template : \A r \in Runners(t) : pc'[r] = pc[r]
    BY <1>1, <2>1, MainMove
  <2>3. \A t \in Template : ~(t < at') /\ t < at
    BY <1>2, <1>4
  <2>4. MainInv'
    BY <1>1, <2>2, <2>3 DEF MainInv, Begin, Exits
  <2>5. AskedInv'
    <3>1. \A t \in Template : Passed(t)
      BY <2>1, <2>3 DEF Passed
    <3> QED
      BY <1>1, <2>2, <3>1 DEF AskedInv, EndsOnlyWhenAsked
  <2> QED
    BY <2>2, <2>4, <2>5
<1> QED
  BY <1>3, <1>4 DEF next_template

\* An exception while the templates are started.
LEMMA ThrowStep ==
    ASSUME DaemonInv, TypeOK', startup_throws
    PROVE  DaemonInv'
<1> USE Threads DEF DaemonInv, configVars, poolVars, signalVars
<1>1. /\ UNCHANGED <<configVars, poolVars, value, at, installed>> /\ failed' = TRUE
      /\ pc[main] \in {"create", "threads"} /\ pc[main] # "stop" /\ pc' = [pc EXCEPT ![main] = "join"]
  BY DEF startup_throws, Goto
<1>2. /\ PcInv' /\ RefInv' /\ LifeInv' /\ pc'[main] = "join"
      /\ \A t \in Template : \A r \in Runners(t) : pc'[r] = pc[r]
  BY <1>1, MainMove
<1>3. MainInv'
  BY <1>1, <1>2 DEF MainInv, Begin, Exits
<1>4. AskedInv'
  BY <1>1, <1>2 DEF AskedInv, Passed, EndsOnlyWhenAsked
<1> QED
  BY <1>2, <1>3, <1>4

\* With no runner thread left and no reference of main, no TemplateState is
\* alive and no control thread runs.
LEMMA AllGone ==
    ASSUME PcInv, RefInv, LifeInv, RunnersDone, pc[main] # "stop",
           \A t \in Template : main \notin refs[t]
    PROVE  \A t \in Template : state[t] \in {"none", "gone", "alive"} =>
             state[t] # "alive" /\ pc[Control(t)] \in {"none", "ended"}
<1> SUFFICES ASSUME NEW t \in Template, state[t] \in {"none", "gone", "alive"}
             PROVE  state[t] # "alive" /\ pc[Control(t)] \in {"none", "ended"}
  OBVIOUS
<1>1. refs[t] = {}
  BY DEF RefInv, RunnersDone, Holding
<1>2. \A th \in Thread : ~Stopper(th, t)
  BY Threads DEF Stopper, RunnersDone
<1> QED
  BY <1>1, <1>2 DEF LifeInv

\* The runner threads are joined.
LEMMA JoinStep ==
    ASSUME DaemonInv, TypeOK', join
    PROVE  DaemonInv'
<1> USE Threads DEF DaemonInv, configVars, poolVars, signalVars
<1> DEFINE to == IF failed THEN "clear" ELSE "exit0"
<1>1. /\ UNCHANGED <<configVars, poolVars, value, failed, installed>> /\ at' = 1
      /\ pc[main] = "join" /\ pc' = [pc EXCEPT ![main] = to] /\ RunnersDone
  BY DEF join, RunnersDone
<1>2. to \in Begin \cup Exits \cup {"create", "threads", "clear", "join"}
  BY DEF Exits
<1> HIDE DEF to
<1>3. /\ PcInv' /\ RefInv' /\ LifeInv' /\ pc'[main] = to /\ Wanted' = Wanted /\ RunnersDone'
      /\ \A t \in Template : \A r \in Runners(t) : pc'[r] = pc[r]
      /\ \A t \in Template : pc'[Control(t)] = pc[Control(t)]
  BY <1>1, <1>2, MainMove
<1>4. installed /\ \A t \in Template : ~(t < 1)
  BY <1>1, DaemonAssumption DEF MainInv, Begin, Exits, Template
<1>5. CASE failed
  <2>1. to = "clear"
    BY <1>5 DEF to
  <2> QED
    BY <1>1, <1>3, <1>4, <1>5, <2>1 DEF MainInv, AskedInv, Passed, EndsOnlyWhenAsked, Begin, Exits
<1>6. CASE ~failed
  <2>1. to = "exit0"
    BY <1>6 DEF to
  <2>2. \A t \in Template : state[t] # "alive" /\ pc[Control(t)] \in {"none", "ended"}
    BY <1>1, <1>6, AllGone DEF MainInv, TypeOK
  <2>3. MainInv'
    BY <1>1, <1>3, <1>4, <1>6, <2>1, <2>2 DEF MainInv, Begin, Exits
  <2>4. value \/ Wanted = {}
    <3>1. ASSUME NEW r \in Wanted PROVE value
      <4>1. r[1] \in Template /\ r \in Runners(r[1])
        BY DEF Wanted
      <4>2. PICK q \in Runners(r[1]) : pc[q] # "none"
        BY <1>1, <1>6, <4>1 DEF AskedInv, Passed
      <4> QED
        BY <1>1, <4>1, <4>2 DEF AskedInv, RunnersDone
    <3> QED
      BY <3>1
  <2>5. AskedInv'
    BY <1>1, <1>3, <1>6, <2>1, <2>4 DEF AskedInv, Passed, EndsOnlyWhenAsked
  <2> QED
    BY <1>3, <2>3, <2>5
<1> QED
  BY <1>5, <1>6

\* template_states.clear(), one element at a time.
LEMMA ClearStep ==
    ASSUME DaemonInv, TypeOK', clear
    PROVE  DaemonInv'
<1> USE Threads DEF DaemonInv
<1>1. /\ UNCHANGED <<configVars, value, failed, installed>> /\ Wanted' = Wanted /\ options' = options
      /\ at \in Nat /\ \A t \in Template : t \in Nat /\ t <= Templates
  BY DaemonAssumption DEF clear, configVars, signalVars, Wanted, TypeOK, Template
<1>a. pc[main] \in {"clear", "stop"} /\ installed
  BY DEF clear, Drop, Stopped, Goto, MainInv, Begin, Exits
<1>2. ASSUME PcInv', RefInv', LifeInv', pc'[main] \in {"clear", "stop"},
             \A t \in Template : \A r \in Runners(t) : pc'[r] = pc[r],
             \A t \in Template : t < at' => main \notin refs'[t],
             pc'[main] = "stop" => at' \in Template
      PROVE  DaemonInv'
  <2>1. RunnersDone' <=> RunnersDone
    BY <1>2 DEF RunnersDone
  <2>2. MainInv'
    BY <1>1, <1>2, <1>a, <2>1 DEF MainInv, Begin, Exits
  <2>3. AskedInv'
    BY <1>1, <1>2, <1>a DEF AskedInv, Passed, EndsOnlyWhenAsked
  <2> QED
    BY <1>2, <2>2, <2>3
<1>3. CASE at \in Template /\ main \in refs[at] /\ Drop(main, at, "clear", "clear") /\ UNCHANGED at
  <2>1. /\ RefInv' /\ LifeInv' /\ pc'[main] \in {"clear", "stop"} /\ pc[main] = "clear"
        /\ \A o \in Thread : o # main => pc'[o] = pc[o]
        /\ refs' = [refs EXCEPT ![at] = refs[at] \ {main}]
    BY <1>3, DropStep DEF Holding
  <2>2. \A t \in Template : t < at' => main \notin refs'[t]
    BY <1>1, <1>3, <2>1 DEF MainInv, TypeOK
  <2>3. \A t \in Template : /\ \A r \in Runners(t) : pc'[r] = pc[r]
                            /\ pc'[Control(t)] = pc[Control(t)]
    BY <2>1
  <2>4. PcInv'
    BY <2>1, <2>3 DEF PcInv
  <2> QED
    BY <1>2, <1>3, <2>1, <2>2, <2>3, <2>4
<1>4. CASE at \in Template /\ Stopped(main, at, "clear") /\ UNCHANGED at
  <2>1. Stopper(main, at)
    BY <1>4 DEF Stopped, Goto, Stopper
  <2>2. /\ RefInv' /\ LifeInv' /\ pc'[main] = "clear"
        /\ \A o \in Thread : o # main => pc'[o] = pc[o]
        /\ refs' = refs
    BY <1>4, <2>1, StoppedStep DEF Holding
  <2>3. \A t \in Template : t < at' => main \notin refs'[t]
    BY <1>a, <1>4, <2>2 DEF MainInv
  <2>4. \A t \in Template : /\ \A r \in Runners(t) : pc'[r] = pc[r]
                            /\ pc'[Control(t)] = pc[Control(t)]
    BY <2>2
  <2>5. PcInv'
    BY <2>2, <2>4 DEF PcInv
  <2> QED
    BY <1>2, <1>4, <2>2, <2>3, <2>4, <2>5
<1>5. CASE at \in Template /\ main \notin refs[at] /\ Goto(main, "clear", "clear") /\ at' = at + 1 /\ UNCHANGED poolVars
  <2>1. pc[main] = "clear" /\ pc' = [pc EXCEPT ![main] = "clear"]
    BY <1>5 DEF Goto
  <2>2. /\ PcInv' /\ RefInv' /\ LifeInv' /\ pc'[main] = "clear"
        /\ \A t \in Template : \A r \in Runners(t) : pc'[r] = pc[r]
    BY <1>1, <1>5, <2>1, MainMove
  <2>3. \A t \in Template : t < at' => main \notin refs'[t]
    <3>1. \A t \in Template : t < at' => t < at \/ t = at
      BY <1>1, <1>5
    <3> QED
      BY <1>5, <1>a, <3>1 DEF MainInv, poolVars
  <2> QED
    BY <1>2, <2>2, <2>3
<1>6. CASE at > Templates /\ Goto(main, "clear", IF failed THEN "exit1" ELSE "join") /\ UNCHANGED <<at, poolVars>>
  <2> DEFINE to == IF failed THEN "exit1" ELSE "join"
  <2>1. pc[main] = "clear" /\ pc[main] # "stop" /\ pc' = [pc EXCEPT ![main] = to]
    BY <1>6 DEF Goto
  <2>2. to \in Begin \cup Exits \cup {"create", "threads", "clear", "join"}
    BY DEF Exits
  <2> HIDE DEF to
  <2>3. /\ PcInv' /\ RefInv' /\ LifeInv' /\ pc'[main] = to /\ (RunnersDone' <=> RunnersDone)
        /\ \A t \in Template : \A r \in Runners(t) : pc'[r] = pc[r]
        /\ \A t \in Template : pc'[Control(t)] = pc[Control(t)]
    BY <1>1, <1>6, <2>1, <2>2, MainMove
  <2>4. \A t \in Template : main \notin refs[t] /\ refs'[t] = refs[t] /\ state'[t] = state[t]
    <3>1. \A t \in Template : t < at
      BY <1>1, <1>6, DaemonAssumption
    <3> QED
      BY <1>6, <2>1, <3>1 DEF MainInv, poolVars
  <2>5. CASE failed
    <3>1. to = "exit1" /\ RunnersDone
      BY <2>1, <2>5 DEF to, MainInv
    <3>2. \A t \in Template : state[t] # "alive" /\ pc[Control(t)] \in {"none", "ended"}
      BY <2>1, <2>4, <3>1, AllGone DEF TypeOK
    <3>3. MainInv'
      BY <1>1, <1>a, <2>3, <2>4, <2>5, <3>1, <3>2 DEF MainInv, Begin, Exits
    <3>4. value \/ \A r \in RunnerThread : pc[r] = "none"
      BY <3>1 DEF RunnersDone, AskedInv
    <3>5. \A r \in RunnerThread : pc'[r] = pc[r]
      BY <2>3
    <3>6. EndsOnlyWhenAsked'
      BY <1>1, <2>3, <3>1, <3>4, <3>5 DEF EndsOnlyWhenAsked
    <3>7. AskedInv'
      BY <1>1, <2>3, <3>1, <3>6 DEF AskedInv, Passed
    <3> QED
      BY <2>3, <3>3, <3>7
  <2>6. CASE ~failed
    <3>1. to = "join"
      BY <2>6 DEF to
    <3>2. MainInv'
      BY <1>1, <1>a, <2>3, <2>4, <2>6, <3>1 DEF MainInv, Begin, Exits
    <3>3. AskedInv'
      BY <1>1, <2>1, <2>3, <2>6, <3>1 DEF AskedInv, Passed, EndsOnlyWhenAsked
    <3> QED
      BY <2>3, <3>2, <3>3
  <2> QED
    BY <2>5, <2>6
<1> QED
  BY <1>3, <1>4, <1>5, <1>6 DEF clear

\* A thread takes the lock of is_signalled, or looks at the value and unlocks.
LEMMA LookStep ==
    ASSUME DaemonInv, TypeOK', NEW th \in Thread
    PROVE  /\ lock(th) => DaemonInv'
           /\ th \in RunnerThread /\ (runner_loop(th) \/ runner_loop_iteration(th)) => DaemonInv'
           /\ \A t \in Template : th = Control(t) /\ control_loop(t) => DaemonInv'
<1> USE DEF configVars, poolVars, signalVars
<1>1. ASSUME NEW t \in Template, th \in Runners(t),
             lock(th) \/ runner_loop(th) \/ runner_loop_iteration(th)
      PROVE  DaemonInv'
  <2>1. /\ \E to \in Holding : pc' = [pc EXCEPT ![th] = to] /\ (to = "release" => value)
        /\ pc[th] \in Holding
        /\ UNCHANGED <<configVars, at, failed, poolVars, installed, value>>
    BY <1>1 DEF lock, runner_loop, runner_loop_iteration, look, Goto, Holding
  <2> QED
    BY <1>1, <2>1, RunnerStep
<1>2. ASSUME NEW t \in Template, th = Control(t), lock(th) \/ control_loop(t)
      PROVE  DaemonInv'
  <2>1. /\ \E to \in {"loop", "look", "ended"} : pc' = [pc EXCEPT ![Control(t)] = to]
        /\ pc[Control(t)] \in {"loop", "look"}
        /\ UNCHANGED <<configVars, at, failed, poolVars, installed, value>>
    BY <1>2 DEF lock, control_loop, look, Goto
  <2> QED
    BY <2>1, ControlStep
<1>3. lock(th) => th # main
  BY DEF lock
<1> QED
  BY <1>1, <1>2, <1>3, Threads

-----------------------------------------------------------------------------
(* Theorems.                                                               *)

\* Whatever the order of threads, signals and failures, the invariant holds.
THEOREM DaemonInvariant == Spec => []DaemonInv
<1>1. DaemonInv /\ [Next]_vars => DaemonInv'
  <2> SUFFICES ASSUME DaemonInv, [Next]_vars PROVE DaemonInv'
    OBVIOUS
  <2>1. TypeOK'
    BY DaemonTypes DEF DaemonInv
  <2>2. ASSUME NEW th \in Thread, thread(th) PROVE DaemonInv'
    <3>1. CASE handler_lock(th) \/ handler_set(th)
      BY <2>1, <3>1, SignalStep DEF handler_lock, handler_set
    <3>2. CASE parse_options \/ load_file \/ install \/ cmd_daemon
      BY <2>1, <3>2, BeginStep, CreateStep, StartStep, NextTemplateStep, ClearStep, JoinStep DEF cmd_daemon
    <3> QED
      BY <2>1, <2>2, <3>1, <3>2, LookStep, ReleaseStep DEF thread
  <2>3. ASSUME NEW s \in Signal, NEW th \in Thread, deliver(s, th) PROVE DaemonInv'
    BY <2>1, <2>3, SignalStep DEF deliver
  <2>4. CASE UNCHANGED vars
    BY <2>1, <2>4, SignalStep DEF vars, signalVars
  <2> QED
    BY <2>1, <2>2, <2>3, <2>4, ThrowStep, BeginStep DEF Next, stopped
<1> QED
  BY <1>1, DaemonInit, PTL DEF Spec

\* A TemplateState outlives the threads that use it, whoever drops the last
\* reference, and nothing of any template outlives the process.
THEOREM DaemonStateOutlivesThreads == Spec => []StateOutlivesThreads
<1>1. ASSUME DaemonInv PROVE StateOutlivesThreads
  <2> USE <1>1, Threads DEF DaemonInv
  <2>1. ASSUME NEW t \in Template
        PROVE  /\ (\E r \in Runners(t) : pc[r] \in {"loop", "look", "work"}) => state[t] = "alive" /\ ~m_stop[t]
               /\ pc[Control(t)] \in {"loop", "look"} => state[t] = "alive"
               /\ Control(t) \notin refs[t]
    <3>1. ASSUME NEW r \in Runners(t), pc[r] \in {"loop", "look", "work"}
          PROVE  state[t] = "alive" /\ ~m_stop[t]
      <4>1. r \in refs[t]
        BY <3>1 DEF RefInv, Holding
      <4> QED
        BY <4>1 DEF RefInv
    <3>2. ASSUME pc[Control(t)] \in {"loop", "look"} PROVE state[t] = "alive"
      <4>1. state[t] \in {"none", "alive", "gone"}
        BY DEF TypeOK
      <4> QED
        BY <3>2, <4>1 DEF LifeInv
    <3>3. Control(t) \notin refs[t]
      BY DEF RefInv
    <3> QED
      BY <3>1, <3>2, <3>3
  <2>2. Over => /\ \A t \in Template : state[t] # "alive"
                /\ \A th \in Thread \ {main} : pc[th] \in {"none", "ended"}
    BY DEF Over, MainInv, Exits, RunnersDone
  <2> QED
    BY <2>1, <2>2 DEF StateOutlivesThreads
<1> QED
  BY <1>1, DaemonInvariant, PTL

\* With runner threads running the daemon ends only after a signal.
THEOREM DaemonEndsOnlyWhenAsked == Spec => []EndsOnlyWhenAsked
<1>1. DaemonInv => EndsOnlyWhenAsked
  BY DEF DaemonInv, AskedInv
<1> QED
  BY <1>1, DaemonInvariant, PTL

-----------------------------------------------------------------------------
(* The mutex of the shutdown signal, and the handler that waits for itself. *)

\* The runner threads of a template are started in order.
StartInv == \A t \in Template : \A i, j \in 1 .. MaxConcurrency :
    j < i /\ pc[<<t, i>>] # "none" => pc[<<t, j>>] # "none"

\* One of the handlers on top of th has the lock.
Sets(th) == \E i \in 1 .. Len(frames[th]) : frames[th][i] = "set"

\* Who holds the mutex, and at which of the two places: is_signalled or one
\* handler.  A thread with a handler on top of it has begun and not ended.
MutexInv == \A th \in Thread :
    /\ frames[th] # <<>> => installed /\ pc[th] \notin Exits \cup {"none", "ended"}
    /\ mutex = th <=> pc[th] = "look" \/ Sets(th)
    /\ pc[th] = "look" => ~Sets(th)
    /\ \A i, j \in 1 .. Len(frames[th]) : frames[th][i] = "set" /\ frames[th][j] = "set" => i = j

HandlerInv == DaemonInv /\ StartInv /\ MutexInv

\* Threads are numbered from one.
LEMMA PrefixSize ==
    ASSUME NEW t, NEW k \in Nat
    PROVE  IsFiniteSet({t} \X (1 .. k)) /\ Cardinality({t} \X (1 .. k)) = k
<1> DEFINE f == [i \in 1 .. k |-> <<t, i>>]
<1>1. IsFiniteSet(1 .. k) /\ Cardinality(1 .. k) = k
  BY FS_Interval
<1>2. f \in Bijection(1 .. k, {t} \X (1 .. k))
  <2>1. f \in [1 .. k -> {t} \X (1 .. k)]
    OBVIOUS
  <2>2. \A i, j \in 1 .. k : f[i] = f[j] => i = j
    OBVIOUS
  <2>3. \A r \in {t} \X (1 .. k) : \E i \in 1 .. k : f[i] = r
    <3> TAKE r \in {t} \X (1 .. k)
    <3>1. r[2] \in 1 .. k /\ f[r[2]] = r
      OBVIOUS
    <3> QED
      BY <3>1
  <2> QED
    BY <2>1, <2>2, <2>3, Fun_IsBij
<1> QED
  BY <1>1, <1>2, FS_Bijection DEF ExistsBijection

\* start_runner starts the first thread of the template that was not started.
LEMMA NextIsNew ==
    ASSUME TypeOK, StartInv, at \in Template, NextRunner \in Wanted
    PROVE  /\ pc[NextRunner] = "none"
           /\ \A j \in 1 .. MaxConcurrency : j < NextRunner[2] => pc[<<at, j>>] # "none"
<1> DEFINE S == {r \in Runners(at) : pc[r] # "none"}
           n == Cardinality(S)
<1>1. NextRunner = <<at, n + 1>> /\ S \subseteq Runners(at)
  BY DEF NextRunner
<1>2. IsFiniteSet(Runners(at))
  BY PrefixSize, DaemonAssumption DEF Runners
<1>3. IsFiniteSet(S) /\ n \in Nat
  BY <1>1, <1>2, FS_Subset, FS_CardinalityType
<1>4. n + 1 \in 1 .. MaxConcurrency
  <2>1. NextRunner \in RunnerThread
    BY DEF Wanted
  <2>2. <<at, n + 1>> \in Runners(at)
    BY <1>1, <2>1, Threads
  <2> QED
    BY <2>2 DEF Runners
<1>5. \A r \in S : r = <<at, r[2]>> /\ r[2] \in 1 .. MaxConcurrency /\ pc[<<at, r[2]>>] # "none"
  BY DEF Runners
<1>6. \A i \in 1 .. MaxConcurrency : pc[<<at, i>>] # "none" => <<at, i>> \in S
  BY DEF Runners
<1> HIDE DEF S
<1>7. ASSUME pc[<<at, n + 1>>] # "none" PROVE FALSE
  <2>1. ASSUME NEW i \in 1 .. n + 1 PROVE <<at, i>> \in S
    <3>1. i \in 1 .. MaxConcurrency
      BY <1>3, <1>4, DaemonAssumption
    <3>2. pc[<<at, i>>] # "none"
      BY <1>3, <1>4, <1>7, <3>1 DEF StartInv
    <3> QED
      BY <1>6, <3>1, <3>2
  <2>2. ({at} \X (1 .. n + 1)) \subseteq S
    BY <2>1
  <2>3. Cardinality({at} \X (1 .. n + 1)) = n + 1
    <3>1. n + 1 \in Nat
      BY <1>3
    <3> QED
      BY <3>1, PrefixSize
  <2> QED
    BY <1>3, <2>2, <2>3, FS_Subset
<1>8. ASSUME NEW j \in 1 .. MaxConcurrency, j < n + 1, pc[<<at, j>>] = "none" PROVE FALSE
  <2>1. ASSUME NEW r \in S PROVE r \in {at} \X (1 .. j - 1)
    <3>1. r = <<at, r[2]>> /\ r[2] \in 1 .. MaxConcurrency /\ pc[<<at, r[2]>>] # "none"
      BY <1>5, <2>1
    <3>2. r[2] # j
      BY <1>8, <3>1
    <3>3. ~(j < r[2])
      BY <1>8, <3>1 DEF StartInv
    <3>4. r[2] \in 1 .. j - 1
      BY <3>1, <3>2, <3>3, DaemonAssumption
    <3> QED
      BY <3>1, <3>4
  <2>2. j - 1 \in Nat
    BY DaemonAssumption
  <2>3. Cardinality({at} \X (1 .. j - 1)) = j - 1 /\ IsFiniteSet({at} \X (1 .. j - 1))
    BY <2>2, PrefixSize
  <2>4. S \subseteq {at} \X (1 .. j - 1)
    BY <2>1
  <2>5. n <= j - 1
    BY <2>3, <2>4, FS_Subset
  <2> QED
    BY <1>3, <1>8, <2>5, DaemonAssumption
<1> QED
  BY <1>1, <1>3, <1>7, <1>8

\* No thread is named by the value that stands for no thread.
LEMMA NoThread == None \notin Thread
<1>1. \A t : <<t, 0>> # <<>>
  OBVIOUS
<1>2. \A t : \A r \in Runners(t) : r # <<>>
  BY DEF Runners
<1> QED
  BY <1>1, <1>2 DEF None, Thread, RunnerThread, Control, main

\* The order of the threads is kept by a step that starts none.
LEMMA StartFrame ==
    ASSUME StartInv, \A t \in Template : \A r \in Runners(t) : pc'[r] = "none" <=> pc[r] = "none"
    PROVE  StartInv'
<1>1. \A t \in Template : \A i \in 1 .. MaxConcurrency : <<t, i>> \in Runners(t)
  BY DEF Runners
<1> QED
  BY <1>1 DEF StartInv

\* A thread that does not hold the mutex, and runs, goes on without it.
LEMMA MoveStep ==
    ASSUME HandlerInv, NEW th \in Thread, NEW to,
           pc' = [pc EXCEPT ![th] = to], frames[th] = <<>>,
           pc[th] \notin {"none", "look"}, to \notin {"none", "look"},
           UNCHANGED <<frames, mutex>>, installed => installed'
    PROVE  StartInv' /\ MutexInv'
<1> USE DEF HandlerInv
<1>1. pc'[th] = to /\ \A o \in Thread : o # th => pc'[o] = pc[o]
  BY DEF DaemonInv, TypeOK
<1>2. StartInv'
  BY <1>1, StartFrame, Threads
<1>3. \A o \in Thread : Sets(o)' <=> Sets(o)
  BY DEF Sets
<1>4. MutexInv'
  BY <1>1, <1>3 DEF MutexInv
<1> QED
  BY <1>2, <1>4

\* main starts a control thread, or a runner thread.
LEMMA BirthStep ==
    ASSUME HandlerInv, create \/ start_runner
    PROVE  StartInv' /\ MutexInv'
<1> USE Threads DEF HandlerInv, configVars, poolVars, signalVars
<1>1. /\ at \in Template /\ UNCHANGED <<frames, mutex, installed>>
      /\ frames[main] = <<>> /\ pc[main] \in {"create", "threads"}
  <2>1. at \in Nat
    BY DaemonAssumption DEF DaemonInv, TypeOK
  <2> QED
    BY <2>1 DEF create, start_runner, DaemonInv, MainInv, Runs
<1>2. \A o \in Thread : Sets(o)' <=> Sets(o)
  BY <1>1 DEF Sets
<1>3. CASE create
  <2>1. state[at] = "none"
    BY <1>3, <1>1, DaemonAssumption DEF create, DaemonInv, MainInv, TypeOK
  <2>2. pc[Control(at)] = "none"
    BY <1>1, <2>1 DEF DaemonInv, LifeInv
  <2>3. /\ pc'[main] = "threads" /\ pc'[Control(at)] = "loop"
        /\ \A o \in Thread : o # main /\ o # Control(at) => pc'[o] = pc[o]
    BY <1>1, <1>3 DEF create, DaemonInv, TypeOK
  <2>4. StartInv'
    BY <1>1, <2>3, StartFrame
  <2>5. MutexInv'
    BY <1>1, <1>2, <2>2, <2>3 DEF MutexInv, Exits
  <2> QED
    BY <2>4, <2>5
<1>4. CASE start_runner
  <2> DEFINE r == NextRunner
  <2>1. /\ pc[r] = "none"
        /\ \A j \in 1 .. MaxConcurrency : j < r[2] => pc[<<at, j>>] # "none"
    BY <1>1, <1>4, NextIsNew DEF start_runner, DaemonInv
  <2>2. r \in RunnerThread /\ r[1] = at
    BY <1>4 DEF start_runner, Wanted, NextRunner
  <2>3. pc' = [pc EXCEPT ![r] = "loop"]
    BY <1>4 DEF start_runner
  <2> HIDE DEF r
  <2>4. r \in Runners(at) /\ r \in Thread /\ r # main
    BY <1>1, <2>2
  <2>5. r = <<at, r[2]>> /\ r[2] \in 1 .. MaxConcurrency
    BY <2>4 DEF Runners
  <2>6. pc'[r] = "loop" /\ \A o \in Thread : o # r => pc'[o] = pc[o]
    BY <2>3, <2>4 DEF DaemonInv, TypeOK
  <2>7. ASSUME NEW t \in Template, NEW i \in 1 .. MaxConcurrency, NEW j \in 1 .. MaxConcurrency,
               j < i, pc'[<<t, i>>] # "none"
        PROVE  pc'[<<t, j>>] # "none"
    <3>1. <<t, i>> \in Thread /\ <<t, j>> \in Thread
      BY DEF Runners
    <3>2. CASE <<t, i>> = r
      <4>1. t = at /\ i = r[2]
        BY <2>5, <3>2
      <4>2. pc[<<t, j>>] # "none"
        BY <2>1, <2>7, <4>1
      <4> QED
        BY <2>6, <3>1, <4>2
    <3>3. CASE <<t, i>> # r
      <4>1. pc[<<t, j>>] # "none"
        BY <2>6, <2>7, <3>1, <3>3 DEF StartInv
      <4> QED
        BY <2>6, <3>1, <4>1
    <3> QED
      BY <3>2, <3>3
  <2>8. StartInv'
    BY <2>7 DEF StartInv
  <2>9. MutexInv'
    BY <1>1, <1>2, <2>1, <2>4, <2>6 DEF MutexInv, Exits
  <2> QED
    BY <2>8, <2>9
<1> QED
  BY <1>3, <1>4

\* is_signalled takes the lock, or gives it back.
LEMMA LookMutex ==
    ASSUME HandlerInv, NEW th \in Thread,
           lock(th) \/ \E yes, no \in PcState \ {"none", "look"} : look(th, yes, no)
    PROVE  StartInv' /\ MutexInv'
<1> USE NoThread DEF HandlerInv
<1>1. frames[th] = <<>> /\ UNCHANGED <<frames, installed>>
  BY DEF lock, look, Goto, Runs
<1>2. \A o \in Thread : Sets(o)' <=> Sets(o)
  BY <1>1 DEF Sets
<1>3. ~Sets(th)
  BY <1>1 DEF Sets
<1>4. \A o \in Thread : o # th => pc'[o] = pc[o]
  BY DEF lock, look, Goto, DaemonInv, TypeOK
<1>5. pc[th] # "none" /\ pc'[th] # "none"
  BY DEF lock, look, Goto, DaemonInv, TypeOK
<1>6. StartInv'
  BY <1>4, <1>5, StartFrame, Threads
<1>7. CASE lock(th)
  <2>1. pc'[th] = "look" /\ mutex = None /\ mutex' = th
    BY <1>7 DEF lock, Goto, DaemonInv, TypeOK
  <2>2. MutexInv'
    BY <1>1, <1>2, <1>3, <1>4, <2>1 DEF MutexInv
  <2> QED
    BY <1>6, <2>2
<1>8. CASE \E yes, no \in PcState \ {"none", "look"} : look(th, yes, no)
  <2>1. pc[th] = "look" /\ pc'[th] # "look" /\ mutex' = None
    BY <1>8 DEF look, Goto, DaemonInv, TypeOK
  <2>2. mutex = th
    BY <2>1 DEF MutexInv
  <2>3. MutexInv'
    BY <1>1, <1>2, <1>3, <1>4, <2>1, <2>2 DEF MutexInv
  <2> QED
    BY <1>6, <2>3
<1> QED
  BY <1>7, <1>8

\* The last element of a sequence and the others.
LEMMA FrontLast ==
    ASSUME NEW S, NEW s \in Seq(S), s # <<>>
    PROVE  /\ Len(s) \in Nat \ {0} /\ Last(s) = s[Len(s)] /\ Last(s) \in S
           /\ Front(s) \in Seq(S) /\ Len(Front(s)) = Len(s) - 1
           /\ \A i \in 1 .. Len(s) - 1 : Front(s)[i] = s[i]
<1>1. Len(s) \in Nat \ {0}
  OBVIOUS
<1>2. Last(s) = s[Len(s)] /\ Last(s) \in S
  BY <1>1 DEF Last
<1> DEFINE k == Len(s) - 1
<1>3. k \in Int /\ 1 \in Int /\ \A i \in 1 .. k : s[i] \in S
  BY <1>1
<1>4. /\ SubSeq(s, 1, k) \in Seq(S)
      /\ Len(SubSeq(s, 1, k)) = k
      /\ \A i \in 1 .. k : SubSeq(s, 1, k)[i] = s[i]
  <2>1. 0 <= k /\ k - 1 + 1 = k /\ \A i \in 1 .. k : 1 + i - 1 = i
    BY <1>1
  <2> HIDE DEF k
  <2>2. /\ SubSeq(s, 1, k) \in Seq(S)
        /\ Len(SubSeq(s, 1, k)) = IF 1 <= k THEN k - 1 + 1 ELSE 0
        /\ \A i \in 1 .. k - 1 + 1 : SubSeq(s, 1, k)[i] = s[1 + i - 1]
    BY <1>3, SubSeqProperties
  <2> QED
    BY <1>3, <2>1, <2>2
<1> QED
  BY <1>1, <1>2, <1>4 DEF Front

\* A signal arrives; its handler takes the lock, and gives it back.
LEMMA HandlerMutex ==
    ASSUME HandlerInv, NEW th \in Thread,
           \/ \E s \in Signal : deliver(s, th)
           \/ handler_lock(th)
           \/ handler_set(th)
    PROVE  StartInv' /\ MutexInv'
<1> USE NoThread DEF HandlerInv
<1> DEFINE F == frames[th]
           n == Len(F)
           G == frames'[th]
<1>1. pc' = pc /\ installed' = installed
  BY DEF deliver, handler_lock, handler_set
<1>2. StartInv'
  BY <1>1, StartFrame
<1>3. F \in Seq({"lock", "set"}) /\ n \in Nat
  BY DEF DaemonInv, TypeOK
<1>4. \A o \in Thread : o # th => frames'[o] = frames[o] /\ (Sets(o)' <=> Sets(o))
  BY DEF deliver, handler_lock, handler_set, DaemonInv, TypeOK, Sets
<1>5. MutexInv!(th) /\ \A o \in Thread : o # th => MutexInv!(o)
  BY DEF MutexInv
<1>6. CASE \E s \in Signal : deliver(s, th)
  <2>1. G = Append(F, "lock") /\ mutex' = mutex /\ installed /\ pc[th] \notin {"none", "ended"} /\ ~Over
    BY <1>6 DEF deliver, DaemonInv, TypeOK
  <2>2. /\ Len(G) = n + 1 /\ G[n + 1] = "lock"
        /\ \A i \in 1 .. n : G[i] = F[i]
    BY <1>3, <2>1
  <2>3. pc[th] \notin Exits
    BY <2>1, Threads DEF Over, Exits, DaemonInv, PcInv, Holding
  <2> HIDE DEF F, G, n
  <2>4. (\E i \in 1 .. Len(G) : G[i] = "set") <=> (\E i \in 1 .. n : F[i] = "set")
    BY <1>3, <2>2
  <2>5. Sets(th)' <=> Sets(th)
    BY <2>4 DEF Sets, F, G, n
  <2>6. ASSUME NEW i \in 1 .. Len(G), NEW j \in 1 .. Len(G), G[i] = "set", G[j] = "set" PROVE i = j
    <3>1. i \in 1 .. n /\ j \in 1 .. n /\ F[i] = "set" /\ F[j] = "set"
      BY <1>3, <2>2, <2>6
    <3> QED
      BY <1>5, <3>1 DEF F, n
  <2>7. MutexInv!(th)'
    BY <1>1, <1>5, <2>1, <2>3, <2>5, <2>6 DEF G
  <2>8. MutexInv'
    BY <1>1, <1>4, <1>5, <2>1, <2>7 DEF MutexInv
  <2> QED
    BY <1>2, <2>8
<1>7. CASE handler_lock(th)
  <2>1. F # <<>> /\ Last(F) = "lock" /\ mutex = None /\ mutex' = th /\ G = Append(Front(F), "set")
    BY <1>7 DEF handler_lock, DaemonInv, TypeOK
  <2>2. ~Sets(th) /\ pc[th] # "look" /\ \A o \in Thread : ~Sets(o) /\ pc[o] # "look"
    BY <2>1 DEF MutexInv
  <2>3. \A i \in 1 .. n : F[i] # "set"
    BY <2>2 DEF Sets
  <2>4. Len(G) = n /\ n \in Nat \ {0} /\ G[n] = "set" /\ \A i \in 1 .. n - 1 : G[i] = F[i]
    BY <1>3, <2>1, FrontLast
  <2> HIDE DEF F, G, n
  <2>5. \A i \in 1 .. Len(G) : G[i] = "set" => i = n
    BY <2>3, <2>4
  <2>6. Sets(th)'
    BY <2>4 DEF Sets, G
  <2>7. MutexInv!(th)'
    BY <1>1, <1>5, <2>1, <2>2, <2>5, <2>6 DEF F, G
  <2>8. \A o \in Thread : o # th => MutexInv!(o)'
    BY <1>1, <1>4, <1>5, <2>1, <2>2
  <2>9. MutexInv'
    BY <2>7, <2>8 DEF MutexInv
  <2> QED
    BY <1>2, <2>9
<1>8. CASE handler_set(th)
  <2>1. F # <<>> /\ Last(F) = "set" /\ mutex' = None /\ G = Front(F)
    BY <1>8 DEF handler_set, DaemonInv, TypeOK
  <2>2. Len(G) = n - 1 /\ n \in Nat \ {0} /\ F[n] = "set" /\ \A i \in 1 .. n - 1 : G[i] = F[i]
    BY <1>3, <2>1, FrontLast
  <2> HIDE DEF F, G, n
  <2>3. Sets(th)
    BY <2>2 DEF Sets, F, n
  <2>4. mutex = th /\ pc[th] # "look"
    BY <1>5, <2>3
  <2>5. \A i \in 1 .. Len(G) : G[i] # "set"
    BY <1>5, <2>2 DEF F, n
  <2>6. ~Sets(th)'
    BY <2>5 DEF Sets, G
  <2>7. MutexInv!(th)'
    BY <1>1, <1>5, <2>1, <2>4, <2>5, <2>6 DEF F, G
  <2>8. \A o \in Thread : o # th => MutexInv!(o)'
    BY <1>1, <1>4, <1>5, <2>1, <2>4
  <2>9. MutexInv'
    BY <2>7, <2>8 DEF MutexInv
  <2> QED
    BY <1>2, <2>9
<1> QED
  BY <1>6, <1>7, <1>8

\* Each step keeps the books of the mutex.
LEMMA HandlerStep ==
    ASSUME HandlerInv, [Next]_vars
    PROVE  StartInv' /\ MutexInv'
<1> USE Threads DEF configVars, poolVars, signalVars
<1>1. ASSUME NEW th \in Thread, thread(th) PROVE StartInv' /\ MutexInv'
  <2>1. CASE lock(th)
    BY <2>1, LookMutex
  <2>2. CASE handler_lock(th) \/ handler_set(th)
    BY <2>2, HandlerMutex
  <2>3. CASE parse_options \/ load_file \/ install \/ next_template \/ clear \/ join
    <3>1. PICK to \in PcState \ {"none", "look"} : pc' = [pc EXCEPT ![main] = to]
      BY <2>3 DEF parse_options, load_file, install, next_template, clear, join, Goto, Drop, Stopped, PcState
    <3>2. /\ frames[main] = <<>> /\ pc[main] \notin {"none", "look"}
          /\ UNCHANGED <<frames, mutex>> /\ (installed => installed')
      BY <2>3 DEF parse_options, load_file, install, next_template, clear, join, Goto, Drop, Stopped, Runs
    <3> QED
      BY <3>1, <3>2, MoveStep
  <2>4. CASE create \/ start_runner
    BY <2>4, BirthStep
  <2>5. CASE th \in RunnerThread /\ runner_loop(th)
    BY <2>5, LookMutex DEF runner_loop, PcState
  <2>6. CASE th \in RunnerThread /\ (runner_loop_iteration(th) \/ release(th))
    <3>1. PICK to \in PcState \ {"none", "look"} : pc' = [pc EXCEPT ![th] = to]
      BY <2>6 DEF runner_loop_iteration, release, Goto, Drop, Stopped, PcState
    <3>2. frames[th] = <<>> /\ pc[th] \notin {"none", "look"} /\ UNCHANGED <<frames, mutex, installed>>
      BY <2>6 DEF runner_loop_iteration, release, Goto, Drop, Stopped, Runs
    <3> QED
      BY <3>1, <3>2, MoveStep
  <2>7. ASSUME NEW t \in Template, th = Control(t), control_loop(t) PROVE StartInv' /\ MutexInv'
    <3>1. CASE look(th, "ended", "loop")
      BY <3>1, LookMutex DEF PcState
    <3>2. CASE m_stop[t] /\ Goto(th, "loop", "ended") /\ UNCHANGED signalVars
      <4>1. PICK to \in {"ended"} : pc' = [pc EXCEPT ![th] = to]
        BY <3>2 DEF Goto
      <4> QED
        BY <3>2, <4>1, MoveStep DEF Goto, Runs
    <3> QED
      BY <2>7, <3>1, <3>2 DEF control_loop
  <2> QED
    BY <1>1, <2>1, <2>2, <2>3, <2>4, <2>5, <2>6, <2>7 DEF thread, cmd_daemon
<1>2. CASE startup_throws
  <2>1. PICK to \in {"join"} : pc' = [pc EXCEPT ![main] = to]
    BY <1>2 DEF startup_throws, Goto
  <2>2. frames[main] = <<>> /\ pc[main] \notin {"none", "look"} /\ UNCHANGED <<frames, mutex, installed>>
    BY <1>2 DEF startup_throws, Goto, Runs
  <2> QED
    BY <2>1, <2>2, MoveStep
<1>3. CASE default_action
  <2>1. frames[main] = <<>> /\ pc[main] \notin {"none", "look"}
    BY <1>3 DEF default_action, HandlerInv, MutexInv, DaemonInv, PcInv, Begin, Exits
  <2>2. PICK to \in {"killed"} : pc' = [pc EXCEPT ![main] = to]
    BY <1>3 DEF default_action
  <2> QED
    BY <1>3, <2>1, <2>2, MoveStep DEF default_action
<1>4. ASSUME NEW s \in Signal, NEW th \in Thread, deliver(s, th) PROVE StartInv' /\ MutexInv'
  BY <1>4, HandlerMutex
<1>5. CASE UNCHANGED vars
  BY <1>5 DEF vars, HandlerInv, StartInv, MutexInv, Sets
<1> QED
  BY <1>1, <1>2, <1>3, <1>4, <1>5 DEF Next, stopped

\* The mutex of the shutdown signal is held by the thread that is between its
\* lock and its unlock, in is_signalled or in one of the handlers on top of
\* it, and by no other.
THEOREM DaemonMutexOwned == Spec => []HandlerInv
<1>1. Init => StartInv /\ MutexInv
  <2> SUFFICES ASSUME Init PROVE StartInv /\ MutexInv
    OBVIOUS
  <2> USE Threads, NoThread DEF Init
  <2>1. StartInv
    <3>1. \A t \in Template : \A i \in 1 .. MaxConcurrency : <<t, i>> \in Runners(t)
      BY DEF Runners
    <3> QED
      BY <3>1 DEF StartInv
  <2>2. \A th \in Thread : pc[th] # "look" /\ frames[th] = <<>>
    OBVIOUS
  <2>3. MutexInv
    BY <2>2 DEF MutexInv, Sets
  <2> QED
    BY <2>1, <2>3
<1>2. HandlerInv /\ [Next]_vars /\ DaemonInv' => HandlerInv'
  BY HandlerStep DEF HandlerInv
<1>3. HandlerInv => DaemonInv
  BY DEF HandlerInv
<1>4. Init /\ DaemonInv => HandlerInv
  BY <1>1 DEF HandlerInv
<1> QED
  BY <1>2, <1>4, DaemonInvariant, PTL DEF Spec

\* A handler that waits for its own thread waits for ever, and the process
\* does not end.
THEOREM DaemonReenteredStays == Spec => ReenteredStays
<1>1. HandlerInv => (Reentered => ~Over)
  <2> SUFFICES ASSUME HandlerInv, Reentered, Over PROVE FALSE
    OBVIOUS
  <2> USE Threads DEF HandlerInv
  <2>1. PICK th \in Thread : frames[th] # <<>>
    BY DEF Reentered
  <2>2. pc[th] \in Exits \cup {"none", "ended"}
    BY DEF Over, Exits, DaemonInv, MainInv, RunnersDone
  <2> QED
    BY <2>1, <2>2 DEF MutexInv
<1>2. HandlerInv /\ [Next]_vars => (Reentered => Reentered')
  <2> SUFFICES ASSUME HandlerInv, [Next]_vars, Reentered PROVE Reentered'
    OBVIOUS
  <2> USE Threads, NoThread DEF HandlerInv
  <2>1. PICK w \in Thread : frames[w] # <<>> /\ Last(frames[w]) = "lock" /\ mutex = w
    BY DEF Reentered
  <2>2. ASSUME NEW th \in Thread PROVE ~lock(th) /\ ~handler_lock(th)
    BY <2>1 DEF lock, handler_lock
  <2>3. ASSUME NEW th \in Thread, NEW yes, NEW no PROVE ~look(th, yes, no)
    <3>1. look(th, yes, no) => frames[th] = <<>> /\ pc[th] = "look"
      BY DEF look, Goto, Runs
    <3>2. pc[th] = "look" => th = w
      BY <2>1 DEF MutexInv
    <3> QED
      BY <2>1, <3>1, <3>2
  <2>4. ASSUME NEW th \in Thread PROVE ~handler_set(th)
    <3>1. SUFFICES ASSUME handler_set(th) PROVE FALSE
      OBVIOUS
    <3>2. frames[th] # <<>> /\ Last(frames[th]) = "set" /\ frames[th] \in Seq({"lock", "set"})
      BY <3>1 DEF handler_set, DaemonInv, TypeOK
    <3>3. Sets(th)
      BY <3>2, FrontLast DEF Sets
    <3> QED
      BY <2>1, <3>2, <3>3 DEF MutexInv
  <2>5. CASE UNCHANGED <<frames, mutex>>
    BY <2>1, <2>5 DEF Reentered
  <2>6. ASSUME NEW s \in Signal, NEW th \in Thread, deliver(s, th) PROVE Reentered'
    <3>1. frames[w] \in Seq({"lock", "set"}) /\ frames \in [Thread -> Seq({"lock", "set"})]
      BY DEF DaemonInv, TypeOK
    <3>2. frames'[w] = IF w = th THEN Append(frames[w], "lock") ELSE frames[w]
      BY <2>6, <3>1 DEF deliver
    <3>3. frames'[w] # <<>> /\ Last(frames'[w]) = "lock"
      <4> DEFINE s1 == Append(frames[w], "lock")
      <4>1. s1 \in Seq({"lock", "set"}) /\ s1 # <<>> /\ s1[Len(s1)] = "lock"
        <5>1. frames[w] \in Seq({"lock", "set"}) /\ "lock" \in {"lock", "set"}
          BY <3>1
        <5>2. s1 \in Seq({"lock", "set"}) /\ Len(s1) = Len(frames[w]) + 1
              /\ s1[Len(frames[w]) + 1] = "lock"
          BY <5>1, AppendProperties
        <5>3. Len(frames[w]) \in Nat
          BY <5>1, LenProperties
        <5> QED
          BY <5>2, <5>3
      <4>2. Last(s1) = "lock"
        <5> HIDE DEF s1
        <5> QED
          BY <4>1 DEF Last
      <4> QED
        BY <2>1, <3>2, <4>1, <4>2
    <3>4. mutex' = w
      BY <2>1, <2>6 DEF deliver
    <3> QED
      BY <3>3, <3>4 DEF Reentered
  <2>7. ASSUME NEW th \in Thread, thread(th) PROVE UNCHANGED <<frames, mutex>>
    <3>1. ~runner_loop(th)
      BY <2>3 DEF runner_loop
    <3> QED
      BY <2>2, <2>3, <2>4, <2>7, <3>1 DEF thread, signalVars, parse_options, load_file, install,
         cmd_daemon, create, start_runner, next_template, clear, join, runner_loop_iteration,
         release, control_loop
  <2>8. CASE startup_throws \/ default_action \/ UNCHANGED vars
    BY <2>5, <2>8 DEF startup_throws, default_action, vars, signalVars
  <2> QED
    BY <2>5, <2>6, <2>7, <2>8 DEF Next, stopped
<1> QED
  BY <1>1, <1>2, DaemonMutexOwned, PTL DEF Spec, ReenteredStays
=============================================================================
