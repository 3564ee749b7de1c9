-------------------------- MODULE SupervisorShutdown --------------------------
(***************************************************************************)
(* What the module supervisor promises about shutdown (spec.md 4.2, 4.3   *)
(* and 7): nothing is asked to stop until there is a cause, a process     *)
(* signal or a long-running module that completed; long-running modules   *)
(* are then asked in reverse start order, each once, a module being asked *)
(* only when every module started after it has been asked or has already  *)
(* completed; and a module's ShutdownCompleted is published once, either  *)
(* after it was asked or because it stopped on its own.                   *)
(***************************************************************************)
EXTENDS Naturals, Sequences, SequencesExt, FiniteSets

CONSTANTS
    Order,      \* the modules in start order
    OneShot,    \* modules that are not long-running
    MayFail     \* modules that may stop on their own

VARIABLES
    cause,      \* shutdown has a cause
    asked,      \* ShutdownModule requests, in the order published
    reported    \* modules whose ShutdownCompleted was published

absVars == <<cause, asked, reported>>

AllMods == ToSet(Order)

LongRunningMods == AllMods \ OneShot

StartIndex(m) == CHOOSE i \in DOMAIN Order : Order[i] = m

\* Every long-running module started after m is asked or has completed.
LaterSettled(m) ==
    \A k \in LongRunningMods :
        StartIndex(k) > StartIndex(m) => k \in ToSet(asked) \union reported

AbsInit ==
    /\ cause = FALSE
    /\ asked = <<>>
    /\ reported = {}

\* SIGINT or SIGTERM.
AbsSignal ==
    /\ cause' = TRUE
    /\ UNCHANGED <<asked, reported>>

\* A ShutdownModule for the latest started module still to be asked.
AbsAsk(m) ==
    /\ cause
    /\ m \in LongRunningMods
    /\ m \notin ToSet(asked)
    /\ LaterSettled(m)
    /\ asked' = Append(asked, m)
    /\ UNCHANGED <<cause, reported>>

\* A ShutdownCompleted for a module asked to stop or stopping on its own;
\* a long-running one is a cause.
AbsReport(m) ==
    /\ m \notin reported
    /\ m \in ToSet(asked) \union MayFail \union OneShot
    /\ reported' = reported \union {m}
    /\ cause' = (cause \/ m \in LongRunningMods)
    /\ UNCHANGED asked

AbsNext ==
    \/ AbsSignal
    \/ \E m \in AllMods : AbsAsk(m) \/ AbsReport(m)

AbsSpec == AbsInit /\ [][AbsNext]_absVars

=============================================================================
