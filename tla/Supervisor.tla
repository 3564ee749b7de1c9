----------------------------- MODULE Supervisor -----------------------------
(***************************************************************************)
(* The module supervisor of crates/hyle-modules/src/modules/mod.rs         *)
(* (ModulesHandler) together with the modules it runs, the per-module      *)
(* supervising task spawned by start_modules, and the two broadcast        *)
(* channels they talk over: ShutdownModule and ShutdownCompleted.          *)
(*                                                                         *)
(* The main task runs exit_process: start_modules, then a select between   *)
(* shutdown_loop and a process signal, then shutdown_modules               *)
(* (shutdown_next_module followed by a second shutdown_loop).              *)
(*                                                                         *)
(* A broadcast channel is modelled as the log of every message sent on it; *)
(* a receiver subscribed when the log had length k sees exactly the        *)
(* messages k+1.. (tokio broadcast: late subscribers only see future       *)
(* messages).  The modules and the timeout tasks subscribe to              *)
(* ShutdownModule before any is sent (at build and in start_modules), so   *)
(* they see the whole log; shutdown_loop subscribes each time it is        *)
(* entered, which the variable cursor records.                             *)
(***************************************************************************)
EXTENDS Naturals, Sequences, SequencesExt, FiniteSets

CONSTANTS
    Order,      \* the modules in the order add_module pushed them
    OneShot,    \* modules long_running_module excludes (the genesis module)
    MayFail,    \* modules whose run may return on its own (error, panic, break)
    Stuck       \* modules whose event loop never reacts to ShutdownModule

Mods == ToSet(Order)

ASSUME /\ Order \in Seq(Mods) /\ Len(Order) = Cardinality(Mods)
       /\ OneShot \subseteq Mods /\ MayFail \subseteq Mods /\ Stuck \subseteq Mods

VARIABLES
    modules,      \* ModulesHandler.modules: built, not yet started
    started,      \* ModulesHandler.started_modules
    shut,         \* ModulesHandler.shut_modules
    runState,     \* per module: its run_module future
    task,         \* per module: the supervising task spawned by start_modules
    requests,     \* log of the ShutdownModule channel (module names)
    completions,  \* log of the ShutdownCompleted channel (module names)
    cursor,       \* completions already seen or skipped by the current shutdown_loop
    pc,           \* the main task, running exit_process
    signalled     \* SIGINT/SIGTERM has been delivered to exit_process

vars == <<modules, started, shut, runState, task, requests, completions,
          cursor, pc, signalled>>

RunStates  == {"built", "running", "persisting", "exited"}
TaskStates == {"none", "selecting", "reported"}
MainPcs    == {"init", "loop_entry1", "loop1", "shutdown_modules",
               "loop_entry2", "loop2", "done"}

\* long_running_module: every module but the one-shot genesis module.
IsLongRunning(m) == m \notin OneShot

LongRunning == {m \in Mods : IsLongRunning(m)}

\* A ShutdownModule naming m has been published.  Every receiver of m (its
\* event loop and its timeout task) subscribed before the first one was sent.
Asked(m) == m \in ToSet(requests)

Position(m) == CHOOSE i \in DOMAIN Order : Order[i] = m

-----------------------------------------------------------------------------
(* The supervisor (ModulesHandler), run by the main task.                  *)

Init ==
    /\ modules = Order
    /\ started = <<>>
    /\ shut = <<>>
    /\ runState = [m \in Mods |-> "built"]
    /\ task = [m \in Mods |-> "none"]
    /\ requests = <<>>
    /\ completions = <<>>
    /\ cursor = 0
    /\ pc = "init"
    /\ signalled = FALSE

\* start_modules: drain the built modules, record the long-running ones in
\* started_modules and spawn each module with its supervising task.
StartModules ==
    /\ pc = "init"
    /\ started' = started \o SelectSeq(modules, IsLongRunning)
    /\ modules' = <<>>
    /\ runState' = [m \in Mods |-> IF m \in ToSet(modules) THEN "running" ELSE runState[m]]
    /\ task' = [m \in Mods |-> IF m \in ToSet(modules) THEN "selecting" ELSE task[m]]
    /\ pc' = "loop_entry1"
    /\ UNCHANGED <<shut, requests, completions, cursor, signalled>>

\* Fault-injection variant of ShutdownNext: pops the first started module.
ShutdownNextPopFirst(st, sh) ==
    IF st = <<>> THEN started' = st /\ UNCHANGED requests
    ELSE /\ started' = Tail(st)
         /\ requests' = IF Head(st) \in ToSet(sh) THEN requests
                        ELSE Append(requests, Head(st))

\* shutdown_next_module, applied to started_modules st and shut_modules sh:
\* pop the last started module and, unless it is already shut, publish a
\* ShutdownModule for it.
ShutdownNext(st, sh) ==
    IF st = <<>> THEN started' = st /\ UNCHANGED requests
    ELSE /\ started' = Front(st)
         /\ requests' = IF Last(st) \in ToSet(sh) THEN requests
                        ELSE Append(requests, Last(st))

\* Where shutdown_loop returns to: from the loop raced against the signal in
\* exit_process to shutdown_modules, from the loop of shutdown_modules to the end.
AfterLoop(p) == IF p \in {"loop_entry1", "loop1"} THEN "shutdown_modules" ELSE "done"

\* Fault-injection variant of ShutdownLoopEntry: an off-by-one subscription point.
ShutdownLoopEntryOffByOne ==
    /\ pc \in {"loop_entry1", "loop_entry2"}
    /\ IF started = <<>>
       THEN pc' = AfterLoop(pc) /\ UNCHANGED cursor
       ELSE /\ cursor' = Len(completions) + 1
            /\ pc' = IF pc = "loop_entry1" THEN "loop1" ELSE "loop2"
    /\ UNCHANGED <<modules, started, shut, runState, task, requests,
                   completions, signalled>>

\* Entry of shutdown_loop: return at once when no module is started,
\* otherwise create a ShutdownClient, i.e. subscribe to ShutdownCompleted now.
ShutdownLoopEntry ==
    /\ pc \in {"loop_entry1", "loop_entry2"}
    /\ IF started = <<>>
       THEN pc' = AfterLoop(pc) /\ UNCHANGED cursor
       ELSE /\ cursor' = Len(completions)
            /\ pc' = IF pc = "loop_entry1" THEN "loop1" ELSE "loop2"
    /\ UNCHANGED <<modules, started, shut, runState, task, requests,
                   completions, signalled>>

\* The ShutdownCompleted arm of shutdown_loop.  A completion of a long-running
\* module not yet in shut_modules removes it from started_modules, records it
\* in shut_modules, and either ends the loop (nothing left started) or asks
\* the next module to shut down.
ReceiveCompleted ==
    /\ pc \in {"loop1", "loop2"}
    /\ cursor < Len(completions)
    /\ cursor' = cursor + 1
    /\ LET msg == completions[cursor + 1]
           st  == SelectSeq(started, LAMBDA x : x # msg)
           sh  == Append(shut, msg)
       IN IF IsLongRunning(msg) /\ msg \notin ToSet(shut)
          THEN /\ shut' = sh
               /\ IF st = <<>>
                  THEN started' = st /\ pc' = AfterLoop(pc) /\ UNCHANGED requests
                  ELSE ShutdownNext(st, sh) /\ UNCHANGED pc
          ELSE UNCHANGED <<started, shut, requests, pc>>
    /\ UNCHANGED <<modules, runState, task, completions, signalled>>

\* exit_process: SIGINT or SIGTERM wins the select; the pending shutdown_loop
\* future is dropped.
Signal ==
    /\ pc \in {"loop_entry1", "loop1"}
    /\ pc' = "shutdown_modules"
    /\ signalled' = TRUE
    /\ UNCHANGED <<modules, started, shut, runState, task, requests,
                   completions, cursor>>

\* shutdown_modules, first half: shutdown_next_module.  Its second half is
\* the shutdown_loop entered at loop_entry2.
ShutdownModules ==
    /\ pc = "shutdown_modules"
    /\ ShutdownNext(started, shut)
    /\ pc' = "loop_entry2"
    /\ UNCHANGED <<modules, shut, runState, task, completions, cursor, signalled>>

-----------------------------------------------------------------------------
(* The modules (run_module) and their supervising tasks.                   *)

\* run returns on its own: Ok (then persist runs) or Err/panic (persist skipped).
ModuleReturns(m) ==
    /\ m \in MayFail \union OneShot
    /\ runState[m] = "running"
    /\ runState' \in {[runState EXCEPT ![m] = "persisting"],
                      [runState EXCEPT ![m] = "exited"]}
    /\ UNCHANGED <<modules, started, shut, task, requests, completions,
                   cursor, pc, signalled>>

\* The shutdown arm of module_handle_messages: async_receive_shutdown sees a
\* ShutdownModule naming this module, the loop breaks and run returns Ok.
ModuleShutdown(m) ==
    /\ m \notin Stuck
    /\ runState[m] = "running"
    /\ Asked(m)
    /\ runState' = [runState EXCEPT ![m] = "persisting"]
    /\ UNCHANGED <<modules, started, shut, task, requests, completions,
                   cursor, pc, signalled>>

\* persist finishes and run_module's future completes.
ModulePersists(m) ==
    /\ runState[m] = "persisting"
    /\ runState' = [runState EXCEPT ![m] = "exited"]
    /\ UNCHANGED <<modules, started, shut, task, requests, completions,
                   cursor, pc, signalled>>

\* The supervising task: module_task wins the select; publish ShutdownCompleted.
TaskReportsExit(m) ==
    /\ task[m] = "selecting"
    /\ runState[m] = "exited"
    /\ task' = [task EXCEPT ![m] = "reported"]
    /\ completions' = Append(completions, m)
    /\ UNCHANGED <<modules, started, shut, runState, requests, cursor, pc, signalled>>

\* The supervising task: timeout_task saw ShutdownModule for this module and
\* slept MODULE_SHUTDOWN_TIMEOUT; publish ShutdownCompleted.  The module task
\* is detached, not aborted, and keeps running.
TaskReportsTimeout(m) ==
    /\ task[m] = "selecting"
    /\ Asked(m)
    /\ task' = [task EXCEPT ![m] = "reported"]
    /\ completions' = Append(completions, m)
    /\ UNCHANGED <<modules, started, shut, runState, requests, cursor, pc, signalled>>

(* The sleep arm of shutdown_loop is re-armed at every loop iteration and   *)
(* expires after MODULE_SHUTDOWN_TIMEOUT + 1s = 6s without a completion.    *)
(* A timeout_task publishes through its supervising task at most 5s after  *)
(* its module was asked, and asking happens in a loop iteration, so the    *)
(* timer can only expire when no completion is waiting to be read and no   *)
(* shutdown timeout is still pending.                                      *)
TimerExpires ==
    /\ cursor = Len(completions)
    /\ \A m \in Mods : ~ENABLED TaskReportsTimeout(m)

\* The sleep arm: once some module is shut, ask the next one.
LoopTimer ==
    /\ pc \in {"loop1", "loop2"}
    /\ TimerExpires
    /\ IF shut # <<>> THEN ShutdownNext(started, shut)
                      ELSE UNCHANGED <<started, requests>>
    /\ UNCHANGED <<modules, shut, runState, task, completions, cursor, pc, signalled>>

\* exit_process has returned; the process ends.
Terminated ==
    /\ pc = "done"
    /\ UNCHANGED vars

Next ==
    \/ StartModules \/ ShutdownLoopEntry \/ ReceiveCompleted \/ LoopTimer
    \/ Signal \/ ShutdownModules \/ Terminated
    \/ \E m \in Mods :
        \/ ModuleReturns(m) \/ ModuleShutdown(m) \/ ModulePersists(m)
        \/ TaskReportsExit(m) \/ TaskReportsTimeout(m)

(* Tokio schedules every spawned task and the main task, and a timer that  *)
(* has expired fires.  Nothing forces a module to fail or a signal to come. *)
Fairness ==
    /\ WF_vars(StartModules) /\ WF_vars(ShutdownLoopEntry)
    /\ WF_vars(ReceiveCompleted) /\ WF_vars(LoopTimer) /\ WF_vars(ShutdownModules)
    /\ \A m \in Mods : /\ WF_vars(ModuleShutdown(m)) /\ WF_vars(ModulePersists(m))
                       /\ WF_vars(TaskReportsExit(m)) /\ WF_vars(TaskReportsTimeout(m))

Spec == Init /\ [][Next]_vars /\ Fairness

-----------------------------------------------------------------------------
(* Properties                                                              *)

TypeOK ==
    /\ modules \in Seq(Mods) /\ started \in Seq(Mods) /\ shut \in Seq(Mods)
    /\ runState \in [Mods -> RunStates] /\ task \in [Mods -> TaskStates]
    /\ requests \in Seq(Mods) /\ completions \in Seq(Mods)
    /\ cursor \in 0..Len(completions) /\ pc \in MainPcs /\ signalled \in BOOLEAN

(* The supervisor keeps the shutdown promise (SupervisorShutdown): no      *)
(* ShutdownModule before SIGINT/SIGTERM or the ShutdownCompleted of a       *)
(* long-running module (the genesis module finishing, or the timer of a    *)
(* healthy node, must not start the cascade); then each long-running       *)
(* module asked once, only when every module started after it is asked or  *)
(* completed, across both shutdown loops, the timer and modules failing on *)
(* their own; and a ShutdownCompleted only for a module asked to stop or   *)
(* stopping on its own, never twice (the select of module_task and         *)
(* timeout_task in start_modules).                                         *)
Shutdown == INSTANCE SupervisorShutdown
                WITH cause <- (signalled \/ \E m \in LongRunning : m \in ToSet(completions)),
                     asked <- requests,
                     reported <- ToSet(completions)

ShutdownRefined == Shutdown!AbsSpec

(* When exit_process returns, every long-running module has published its  *)
(* ShutdownCompleted: its run and persist have finished or its 5s timeout  *)
(* expired.  The shutdown loop must not end while a module it asked is     *)
(* still shutting down.                                                    *)
DrainedOnExit ==
    pc = "done" => \A m \in LongRunning : task[m] = "reported"

(* Once shutdown has a cause (SIGINT/SIGTERM, or a long-running module    *)
(* whose ShutdownCompleted was published because it stopped on its own),  *)
(* every long-running module is eventually stopped and reported: the      *)
(* cascade of shutdown_loop and shutdown_modules reaches all of them       *)
(* (spec 4.3; test_shutdown_all_modules_if_one_fails).                    *)
ShutdownCascades ==
    (signalled \/ \E m \in LongRunning : task[m] = "reported")
        ~> \A n \in LongRunning : task[n] = "reported"

=============================================================================
