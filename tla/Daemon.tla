------------------------------- MODULE Daemon -------------------------------
(***************************************************************************)
(* The process: app_main and load_file, cmd_daemon with its TemplateStates *)
(* and runner threads (app/src/), and the shutdown signal they all look at *)
(* (utility/src/shutdown_signal.cpp).                                      *)
(*                                                                         *)
(* A TemplateState is shared by the vector of cmd_daemon and by the        *)
(* lambdas of its runner threads; whoever drops the last reference stops   *)
(* its pool.  SIGINT and SIGTERM run their handler on any thread that has  *)
(* started, on top of what it is doing, and the handler locks the mutex    *)
(* that is_signalled locks.                                                *)
(*                                                                         *)
(* The looks at the signal of an iteration are represented by the one of   *)
(* runner_loop; what an iteration does is in RunnerLoop, what the pool     *)
(* does in MachinePool, of which only the control thread is here.          *)
(***************************************************************************)
EXTENDS Integers, Sequences, SequencesExt, FiniteSets

CONSTANTS
    Templates,          \* number of templates in the configuration
    MaxConcurrency,     \* bound on a template's max_concurrency
    MaxRunners,         \* bound on the runner threads of all templates
    Signal              \* the signals, each sent at most once

ASSUME DaemonAssumption ==
    Templates \in Nat \ {0} /\ MaxConcurrency \in Nat /\ MaxRunners \in Nat

Template == 1 .. Templates
main == <<0, 0>>
Control(t) == <<t, 0>>
Runners(t) == {t} \X (1 .. MaxConcurrency)
RunnerThread == UNION {Runners(t) : t \in Template}
Thread == {main} \cup {Control(t) : t \in Template} \cup RunnerThread
None == <<>>

\* What can be wrong in a configuration file.
Fault == {"yaml", "level", "field", "token"}

VARIABLES
    options,            \* what the command line asks for
    fault,              \* what is wrong in the file, besides the numbers
    max_concurrency,    \* the number in the file, for each template
    pc,                 \* where each thread is
    at,                 \* the template main is at
    failed,             \* cmd_daemon is unwinding from an exception
    state,              \* state[t]: t's TemplateState
    refs,               \* refs[t]: the threads that hold a reference to it
    m_stop,             \* m_stop[t]: t's pool was told to stop
    installed,          \* the handlers are in place
    arrived,            \* signals sent
    frames,             \* frames[th]: the handlers running on th, innermost last
    mutex,              \* the thread that holds the mutex of the signal
    value               \* its value

configVars == <<options, fault, max_concurrency>>
poolVars == <<state, refs, m_stop>>
signalVars == <<installed, arrived, frames, mutex, value>>
vars == <<configVars, pc, at, failed, poolVars, signalVars>>

TypeOK ==
    /\ options \in {"run", "help", "bad"}
    /\ fault \in Fault \cup {"none"}
    /\ max_concurrency \in [Template -> -1 .. MaxConcurrency]
    /\ pc \in [Thread -> {"none", "options", "config", "install", "create", "threads",
                          "clear", "join", "loop", "look", "work", "release",
                          "stop", "ended", "exit0", "exit1", "killed"}]
    /\ at \in 1 .. Templates + 1
    /\ failed \in BOOLEAN
    /\ state \in [Template -> {"none", "alive", "gone"}]
    /\ refs \in [Template -> SUBSET Thread]
    /\ m_stop \in [Template -> BOOLEAN]
    /\ installed \in BOOLEAN
    /\ arrived \subseteq Signal
    /\ frames \in [Thread -> Seq({"lock", "set"})]
    /\ mutex \in Thread \cup {None}
    /\ value \in BOOLEAN

\* The runner threads the configuration asks for.
Wanted == {r \in RunnerThread : r[2] <= max_concurrency[r[1]]}

Init ==
    /\ options \in {"run", "help", "bad"}
    /\ fault \in Fault \cup {"none"}
    /\ max_concurrency \in [Template -> -1 .. MaxConcurrency]
    /\ Cardinality(Wanted) <= MaxRunners
    /\ pc = [th \in Thread |-> IF th = main THEN "options" ELSE "none"]
    /\ at = 1
    /\ failed = FALSE
    /\ state = [t \in Template |-> "none"]
    /\ refs = [t \in Template |-> {}]
    /\ m_stop = [t \in Template |-> FALSE]
    /\ installed = FALSE
    /\ arrived = {}
    /\ frames = [th \in Thread |-> <<>>]
    /\ mutex = None
    /\ value = FALSE

\* th itself runs, and not a handler on top of it.
Runs(th) == frames[th] = <<>>

Goto(th, from, to) ==
    /\ Runs(th)
    /\ pc[th] = from
    /\ pc' = [pc EXCEPT ![th] = to]

Over == pc[main] \in {"exit0", "exit1", "killed"}

-----------------------------------------------------------------------------
(* app_main.                                                               *)

parse_options ==
    /\ Goto(main, "options", CASE options = "run" -> "config"
                               [] options = "help" -> "exit0"
                               [] OTHER -> "exit1")
    /\ UNCHANGED <<configVars, at, failed, poolVars, signalVars>>

\* Each throws, or returns an error, if its part of the file is at fault.
load_yaml_file == fault # "yaml"
load_log_level == fault # "level"
safe_cast_int(number) == number >= 0
load_template(t) == fault # "field" /\ safe_cast_int(max_concurrency[t])
load_backends_into == \A t \in Template : load_template(t)
resolve == fault # "token"

load_file ==
    /\ Goto(main, "config",
            IF load_yaml_file /\ load_log_level /\ load_backends_into /\ resolve
            THEN "install" ELSE "exit1")
    /\ UNCHANGED <<configVars, at, failed, poolVars, signalVars>>

install ==
    /\ Goto(main, "install", "create")
    /\ installed' = TRUE
    /\ UNCHANGED <<configVars, at, failed, poolVars, arrived, frames, mutex, value>>

-----------------------------------------------------------------------------
(* cmd_daemon.                                                             *)

\* TemplateState::create starts the pool, and with it its control thread.
create ==
    /\ Runs(main)
    /\ pc[main] = "create"
    /\ at \in Template
    /\ pc' = [pc EXCEPT ![main] = "threads", ![Control(at)] = "loop"]
    /\ state' = [state EXCEPT ![at] = "alive"]
    /\ refs' = [refs EXCEPT ![at] = {main}]
    /\ UNCHANGED <<configVars, at, failed, m_stop, signalVars>>

NextRunner == <<at, Cardinality({r \in Runners(at) : pc[r] # "none"}) + 1>>

\* Mutant: the lambda holds a reference to main's pointer, not a copy.
start_runner_borrows ==
    /\ Runs(main)
    /\ pc[main] = "threads"
    /\ NextRunner \in Wanted
    /\ pc' = [pc EXCEPT ![NextRunner] = "loop"]
    /\ UNCHANGED <<configVars, at, failed, poolVars, signalVars>>

start_runner ==
    /\ Runs(main)
    /\ pc[main] = "threads"
    /\ NextRunner \in Wanted
    /\ pc' = [pc EXCEPT ![NextRunner] = "loop"]
    /\ refs' = [refs EXCEPT ![at] = @ \cup {NextRunner}]
    /\ UNCHANGED <<configVars, at, failed, state, m_stop, signalVars>>

\* The next template, or all of them are up.
next_template ==
    /\ \/ /\ Goto(main, "threads", "create")
          /\ NextRunner \notin Wanted
          /\ at' = at + 1
       \/ /\ at > Templates
          /\ Goto(main, "create", "clear")
          /\ at' = 1
    /\ UNCHANGED <<configVars, failed, poolVars, signalVars>>

\* TemplateState::create or the constructor of a thread throws.  Unwinding
\* destroys threads, which joins them, and then template_states.
startup_throws ==
    /\ at \in Template
    /\ \/ Goto(main, "create", "join")
       \/ NextRunner \in Wanted /\ Goto(main, "threads", "join")
    /\ failed' = TRUE
    /\ UNCHANGED <<configVars, at, poolVars, signalVars>>

\* th drops its reference to t; the last one runs ~TemplateState, which
\* stops the pool.
Drop(th, t, from, to) ==
    /\ Goto(th, from, IF refs[t] = {th} THEN "stop" ELSE to)
    /\ refs' = [refs EXCEPT ![t] = @ \ {th}]
    /\ m_stop' = [m_stop EXCEPT ![t] = @ \/ refs[t] = {th}]
    /\ UNCHANGED state

\* The pool's stop joins the control thread, then the TemplateState is gone.
Stopped(th, t, to) ==
    /\ Goto(th, "stop", to)
    /\ pc[Control(t)] = "ended"
    /\ state' = [state EXCEPT ![t] = "gone"]
    /\ UNCHANGED <<refs, m_stop>>

\* template_states.clear(), one element at a time.
clear ==
    /\ \/ /\ at \in Template
          /\ main \in refs[at]
          /\ Drop(main, at, "clear", "clear")
          /\ UNCHANGED at
       \/ /\ at \in Template
          /\ Stopped(main, at, "clear")
          /\ UNCHANGED at
       \/ /\ at \in Template
          /\ main \notin refs[at]
          /\ Goto(main, "clear", "clear")
          /\ at' = at + 1
          /\ UNCHANGED poolVars
       \/ /\ at > Templates
          /\ Goto(main, "clear", IF failed THEN "exit1" ELSE "join")
          /\ UNCHANGED <<at, poolVars>>
    /\ UNCHANGED <<configVars, failed, signalVars>>

\* Mutant: unwinding does not wait for the runner threads.
join_detaches ==
    /\ Runs(main)
    /\ pc[main] = "join"
    /\ failed \/ \A r \in RunnerThread : pc[r] \in {"none", "ended"}
    /\ pc' = [pc EXCEPT ![main] = IF failed THEN "clear" ELSE "exit0"]
    /\ at' = 1
    /\ UNCHANGED <<configVars, failed, poolVars, signalVars>>

\* Every runner thread is joined, at the end or by unwinding.
join ==
    /\ Runs(main)
    /\ pc[main] = "join"
    /\ \A r \in RunnerThread : pc[r] \in {"none", "ended"}
    /\ pc' = [pc EXCEPT ![main] = IF failed THEN "clear" ELSE "exit0"]
    /\ at' = 1
    /\ UNCHANGED <<configVars, failed, poolVars, signalVars>>

-----------------------------------------------------------------------------
(* The other threads.                                                      *)

\* is_signalled: the lock, and then the value and the unlock.
lock(th) ==
    /\ th # main
    /\ Goto(th, "loop", "look")
    /\ \A t \in Template : th = Control(t) => ~m_stop[t]
    /\ mutex = None
    /\ mutex' = th
    /\ UNCHANGED <<configVars, at, failed, poolVars, installed, arrived, frames, value>>

\* Mutant: the runner goes on whatever the signal says.
look_deaf(th, yes, no) ==
    /\ Goto(th, "look", no)
    /\ mutex' = None
    /\ UNCHANGED <<configVars, at, failed, poolVars, installed, arrived, frames, value>>

look(th, yes, no) ==
    /\ Goto(th, "look", IF value THEN yes ELSE no)
    /\ mutex' = None
    /\ UNCHANGED <<configVars, at, failed, poolVars, installed, arrived, frames, value>>

runner_loop(r) == look(r, "release", "work")

\* runner_loop_iteration returns.
runner_loop_iteration(r) ==
    /\ Goto(r, "work", "loop")
    /\ UNCHANGED <<configVars, at, failed, poolVars, signalVars>>

\* The lambda of the thread is destroyed.
release(r) ==
    /\ \/ Drop(r, r[1], "release", "ended")
       \/ Stopped(r, r[1], "ended")
    /\ UNCHANGED <<configVars, at, failed, signalVars>>

\* control_loop: should_stop looks at the signal only if m_stop is not set.
control_loop(t) ==
    \/ look(Control(t), "ended", "loop")
    \/ /\ m_stop[t]
       /\ Goto(Control(t), "loop", "ended")
       /\ UNCHANGED <<configVars, at, failed, poolVars, signalVars>>

-----------------------------------------------------------------------------
(* The signals.                                                            *)

\* Before install the default action ends the process.
default_action ==
    /\ ~installed
    /\ ~Over
    /\ \E s \in Signal : arrived' = {s}
    /\ pc' = [pc EXCEPT ![main] = "killed"]
    /\ UNCHANGED <<configVars, at, failed, poolVars, installed, frames, mutex, value>>

\* s runs its handler on top of whatever th does.
deliver(s, th) ==
    /\ installed
    /\ ~Over
    /\ s \notin arrived
    /\ pc[th] \notin {"none", "ended"}
    /\ arrived' = arrived \cup {s}
    /\ frames' = [frames EXCEPT ![th] = Append(@, "lock")]
    /\ UNCHANGED <<configVars, pc, at, failed, poolVars, installed, mutex, value>>

\* ShutdownSignal::signal, on th.
handler_lock(th) ==
    /\ frames[th] # <<>>
    /\ Last(frames[th]) = "lock"
    /\ mutex = None
    /\ mutex' = th
    /\ frames' = [frames EXCEPT ![th] = Append(Front(@), "set")]
    /\ UNCHANGED <<configVars, pc, at, failed, poolVars, installed, arrived, value>>

handler_set(th) ==
    /\ frames[th] # <<>>
    /\ Last(frames[th]) = "set"
    /\ value' = TRUE
    /\ mutex' = None
    /\ frames' = [frames EXCEPT ![th] = Front(@)]
    /\ UNCHANGED <<configVars, pc, at, failed, poolVars, installed, arrived>>

-----------------------------------------------------------------------------
\* A handler waits for the mutex its own thread holds.
Reentered ==
    \E th \in Thread : frames[th] # <<>> /\ Last(frames[th]) = "lock" /\ mutex = th

\* The two ways to stop: the end of the process, and a handler that waits for
\* ever, with every other thread behind it sooner or later.
stopped == (Over \/ Reentered) /\ UNCHANGED vars

cmd_daemon == create \/ start_runner \/ next_template \/ clear \/ join

thread(th) ==
    \/ lock(th)
    \/ handler_lock(th)
    \/ handler_set(th)
    \/ th = main /\ (parse_options \/ load_file \/ install \/ cmd_daemon)
    \/ th \in RunnerThread /\ (runner_loop(th) \/ runner_loop_iteration(th) \/ release(th))
    \/ \E t \in Template : th = Control(t) /\ control_loop(t)

Next ==
    \/ \E th \in Thread : thread(th)
    \/ startup_throws
    \/ default_action
    \/ \E s \in Signal, th \in Thread : deliver(s, th)
    \/ stopped

Spec == Init /\ [][Next]_vars

\* Every thread is scheduled, an iteration ends once the signal is raised
\* (RunnerLoop), and the threads that look at the signal over and over do not
\* keep its handlers from the mutex for ever.
FairSpec ==
    /\ Spec
    /\ \A th \in Thread : WF_vars(thread(th))
    /\ SF_vars(\E th \in Thread : handler_lock(th))

-----------------------------------------------------------------------------
(* Properties.                                                             *)

\* A TemplateState is there as long as one of its runner threads loops or its
\* control thread runs, though cmd_daemon drops its own references before it
\* joins anybody; when the process ends no pool and no thread is left, and
\* the thread that stops a pool is never the one its stop joins.
\* (And the types.)
StateOutlivesThreads ==
    /\ TypeOK
    /\ \A t \in Template :
        /\ (\E r \in Runners(t) : pc[r] \in {"loop", "look", "work"}) => state[t] = "alive" /\ ~m_stop[t]
        /\ pc[Control(t)] \in {"loop", "look"} => state[t] = "alive"
        /\ Control(t) \notin refs[t]
    /\ Over =>
        /\ \A t \in Template : state[t] # "alive"
        /\ \A th \in Thread \ {main} : pc[th] \in {"none", "ended"}

\* The daemon does not end on its own: with runner threads running it ends,
\* and a failure to start the others is reported, only after a signal.
EndsOnlyWhenAsked ==
    /\ pc[main] = "exit0" => value \/ options = "help" \/ Wanted = {}
    /\ pc[main] = "exit1" => value \/ \A r \in RunnerThread : pc[r] = "none"

\* A signal whose handler interrupted its own thread between the lock and the
\* unlock of is_signalled, or of another handler, is never acted upon, and the
\* process never ends.
ReenteredStays ==
    /\ [](Reentered => ~Over)
    /\ [][Reentered => Reentered']_vars

\* After a signal the process ends, whatever each thread was doing, unless a
\* handler interrupted its own thread while that held the mutex; after that it
\* never does.
StopsUnlessReentered == (arrived # {} ~> Over \/ Reentered) /\ ReenteredStays
=============================================================================
