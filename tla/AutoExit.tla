------------------------------- MODULE AutoExit -------------------------------
(***************************************************************************)
(* The daemon ends itself when no session is left (main.go, autoExitLoop). *)
(* A goroutine takes pulses from the auto-exit channel, counts sessions    *)
(* under the registry's lock, released again when it acts on the count,    *)
(* and starts or aborts a grace timer whose callback ends the daemon.  The *)
(* rest of the daemon is the registry, on which any method may be called.  *)
(*                                                                         *)
(* A grace timer that is aborted can do nothing any more, because its      *)
(* context is cancelled before the timer is stopped: aborting is one step, *)
(* and the only callback that outlives it is one past its check.           *)
(***************************************************************************)
EXTENDS SessionRegistry, Integers

CONSTANT GracePeriod   \* ticks from an empty registry to the exit; 0 disables it

ASSUME GraceAssumption == GracePeriod \in Nat /\ "exit" \in Channels

Off == -1

VARIABLES
  loop,      \* what autoExitLoop is about to do
  armed,     \* abortFn # nil: a grace period is under way
  timer,     \* ticks left on its timer; Off before it starts and once it fired
  fired,     \* its callback runs and has not checked the grace context yet
  exiting,   \* a callback is past its check and is about to call cancel
  ended      \* the daemon's context is cancelled

loopVars == <<loop, armed, timer, fired, exiting, ended>>
exitVars == <<registryVars, loopVars>>

-----------------------------------------------------------------------------
LoopReceive ==
  /\ loop = "wait"
  /\ Receive("exit")
  /\ loop' = "count"
  /\ UNCHANGED <<armed, timer, fired, exiting, ended>>

LoopCount ==
  /\ loop = "count"
  /\ loop' = IF Live = {} THEN "zero" ELSE "some"
  /\ UNCHANGED <<registryVars, armed, timer, fired, exiting, ended>>

\* Mutant of LoopArm: the pulses that came in meanwhile are drained.
LoopArmAndDrain ==
  /\ loop = "zero"
  /\ loop' = "wait"
  /\ armed' = TRUE
  /\ timer' = IF armed THEN timer ELSE GracePeriod
  /\ signals' = signals \ {"exit"}
  /\ UNCHANGED <<sessions, fired, exiting, ended>>

\* A grace period under way goes on, with the time it has left.
LoopArm ==
  /\ loop = "zero"
  /\ loop' = "wait"
  /\ armed' = TRUE
  /\ timer' = IF armed THEN timer ELSE GracePeriod
  /\ UNCHANGED <<registryVars, fired, exiting, ended>>

Abort ==
  /\ armed' = FALSE
  /\ timer' = Off
  /\ fired' = FALSE

\* Mutants of LoopAbort: the timer runs on; abortFn is not reset.
LoopForget ==
  /\ loop = "some"
  /\ loop' = "wait"
  /\ armed' = FALSE
  /\ UNCHANGED <<registryVars, timer, fired, exiting, ended>>
LoopAbortWithoutReset ==
  /\ loop = "some"
  /\ loop' = "wait"
  /\ timer' = Off /\ fired' = FALSE
  /\ UNCHANGED <<registryVars, armed, exiting, ended>>

LoopAbort ==
  /\ loop = "some"
  /\ loop' = "wait"
  /\ Abort
  /\ UNCHANGED <<registryVars, exiting, ended>>

\* With the context cancelled, select may still prefer a pulse to Done.
LoopStop ==
  /\ loop = "wait" /\ ended
  /\ loop' = "stopped"
  /\ Abort
  /\ UNCHANGED <<registryVars, exiting, ended>>

-----------------------------------------------------------------------------
GraceTimerFires ==
  /\ timer = 0
  /\ timer' = Off
  /\ fired' = TRUE
  /\ UNCHANGED <<registryVars, loop, armed, exiting, ended>>

\* The grace context is a child of the daemon's context.
GraceCheck ==
  /\ fired
  /\ fired' = FALSE
  /\ exiting' = (exiting \/ ~ended)
  /\ UNCHANGED <<registryVars, loop, armed, timer, ended>>

GraceExit ==
  /\ exiting
  /\ exiting' = FALSE
  /\ ended' = TRUE
  /\ UNCHANGED <<registryVars, loop, armed, timer, fired>>

\* SIGINT, SIGTERM, or an HTTP server that cannot bind its port.
Terminate ==
  /\ ~ended
  /\ ended' = TRUE
  /\ UNCHANGED <<registryVars, loop, armed, timer, fired, exiting>>

GraceTicks ==
  /\ Tick
  /\ timer' = IF timer \in {0, Off} THEN timer ELSE timer - 1
  /\ UNCHANGED <<loop, armed, fired, exiting, ended>>

\* Handlers and the stale checker; the coalescer takes pulses of its own.
OtherGoroutines ==
  /\ RegistryCall \/ \E channel \in Channels \ {"exit"} : Receive(channel)
  /\ UNCHANGED loopVars

AutoExitInit ==
  /\ RegistryInit
  /\ loop = IF GracePeriod = 0 THEN "stopped" ELSE "wait"
  /\ armed = FALSE
  /\ timer = Off
  /\ fired = FALSE
  /\ exiting = FALSE
  /\ ended = FALSE

Loop  == LoopReceive \/ LoopCount \/ LoopArm \/ LoopAbort \/ LoopStop
Grace == GraceTimerFires \/ GraceCheck \/ GraceExit

AutoExitNext == Loop \/ Grace \/ Terminate \/ GraceTicks \/ OtherGoroutines

AutoExitSpec == AutoExitInit /\ [][AutoExitNext]_exitVars

\* Time passes, and goroutines and timers that can run do so in the end.
AutoExitFairSpec ==
  /\ AutoExitSpec
  /\ WF_exitVars(Loop) /\ WF_exitVars(GraceTicks)
  /\ WF_exitVars(GraceTimerFires) /\ WF_exitVars(GraceCheck) /\ WF_exitVars(GraceExit)

-----------------------------------------------------------------------------
\* The loop is at one of its steps, and no timer or unchecked callback is left
\* behind by a grace period that was aborted (main.go:408-409).
AutoExitTypeOK ==
  /\ loop \in {"wait", "count", "zero", "some", "stopped"}
  /\ timer \in Off .. GracePeriod
  /\ armed \in BOOLEAN /\ fired \in BOOLEAN /\ exiting \in BOOLEAN /\ ended \in BOOLEAN
  /\ (timer # Off \/ fired) => armed

\* A session that arrives during the grace period is never overlooked: while
\* one is registered and the exit is armed, a pulse for the loop is waiting or
\* the loop is about to abort (D-06).  Coalesced pulses lose no arrival.
ArrivalIsSeen ==
  (Live # {} /\ armed) => ("exit" \in signals \/ loop \in {"count", "some"})

\* When the last session leaves for good, by a session-end hook or by the stale
\* checker, the daemon ends (D-04): no departure pulse is lost.
DaemonEnds == []<>(Live # {}) \/ [](Live # {} => <>ended)
=============================================================================
