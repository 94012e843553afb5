------------------------ MODULE RegistryClientsProofs ------------------------
(***************************************************************************)
(* What uses the registry inherits what is proved about it.                *)
(*                                                                         *)
(* The handlers and the stale checker: however many of them interleave,    *)
(* each of their steps is one method of the registry with arguments a hook *)
(* can produce, so Spec implements RegistrySpec.                           *)
(*                                                                         *)
(* The auto-exit loop, for every set of sessions and every grace period:   *)
(* no timer outlives an aborted grace period, and the loop overlooks no    *)
(* session that arrives during one.  The second needs one fact about the   *)
(* loop between its count and its decision: a session that appeared since  *)
(* is announced by a pulse.                                                *)
(*                                                                         *)
(* The presence resolver: a step of the registry that changes what is to   *)
(* be shown leaves a pulse, and of any number of sessions the one that is  *)
(* shown is the most recent, in whatever order the map is read.            *)
(***************************************************************************)
EXTENDS HookHandlers, AutoExit, Resolver, SessionRegistryProofs, FiniteSetTheorems,
        WellFoundedInduction, SequenceTheorems

CallsTyped == calls \in [Handlers -> Call \cup {Nil}]

\* A handler about to start a session carries a request some hook can carry.
StartsCarry ==
  \A t \in Handlers : At(t, "start") => MayCarry(calls[t].id, calls[t].project)

VerdictsTyped == verdicts \in [SessionIDs -> {"keep", "remove", "idle"}]

CallsInv == CallsTyped /\ StartsCarry /\ VerdictsTyped

-----------------------------------------------------------------------------
\* Entering a handler keeps the calls typed.
LEMMA EnterTyped ==
  ASSUME CallsTyped, StartsCarry,
         NEW t \in Handlers,
         NEW step \in {"start", "update", "overlay", "clear", "cwd",
                       "transcript", "end", "count"},
         NEW id \in SessionIDs, NEW project \in Projects, NEW pid \in Pids,
         NEW icon \in Inputs,
         step = "start" => MayCarry(id, project),
         Enter(t, step, id, project, pid, icon)
  PROVE  CallsTyped' /\ StartsCarry'
<1> DEFINE call == [at |-> step, id |-> id, project |-> project, pid |-> pid, icon |-> icon]
<1>1. call \in Call /\ call.at = step /\ call.id = id /\ call.project = project
  BY DEF Call
<1>2. calls' = [calls EXCEPT ![t] = call]
  BY DEF Enter
<1> HIDE DEF call
<1>3. CallsTyped'
  BY <1>1, <1>2 DEF CallsTyped
<1>4. \A u \in Handlers : calls'[u] = IF u = t THEN call ELSE calls[u]
  BY <1>2 DEF CallsTyped
<1>5. StartsCarry'
  BY <1>1, <1>4 DEF StartsCarry, At, MayCarry
<1>6. QED BY <1>3, <1>5

\* Entering with the session ID alone does too.
LEMMA EnterWithIDTyped ==
  ASSUME CallsTyped, StartsCarry,
         NEW t \in Handlers, NEW step \in {"overlay", "cwd", "end"},
         NEW id \in SessionIDs,
         EnterWithID(t, step, id)
  PROVE  CallsTyped' /\ StartsCarry'
<1>1. /\ (CHOOSE p \in Projects : TRUE) \in Projects
      /\ (CHOOSE p \in Pids : TRUE) \in Pids
  BY HandlerAssumption
<1>2. NoIcon \in Inputs
  BY DEF Inputs
<1>3. QED BY <1>1, <1>2, EnterTyped DEF EnterWithID

\* So does a handler that goes on to a call other than StartSession, or returns.
LEMMA GotoTyped ==
  ASSUME CallsTyped, StartsCarry,
         NEW t \in Handlers,
         calls[t] # Nil,
         \/ \E step \in {"update", "overlay", "clear", "cwd", "transcript", "end", "count"} :
              Goto(t, step)
         \/ Return(t)
  PROVE  CallsTyped' /\ StartsCarry'
<1>1. calls[t] \in Call
  BY DEF CallsTyped
<1>2. CASE Return(t)
  BY <1>2 DEF Return, CallsTyped, StartsCarry, At, MayCarry
<1>3. ASSUME NEW step \in {"update", "overlay", "clear", "cwd", "transcript", "end", "count"},
             Goto(t, step)
      PROVE  CallsTyped' /\ StartsCarry'
  <2> DEFINE call == [calls[t] EXCEPT !.at = step]
  <2>1. call \in Call /\ call.at = step
    BY <1>1 DEF Call
  <2>2. calls' = [calls EXCEPT ![t] = call]
    BY <1>3 DEF Goto
  <2> HIDE DEF call
  <2>3. \A u \in Handlers : calls'[u] = IF u = t THEN call ELSE calls[u]
    BY <2>2 DEF CallsTyped
  <2>4. QED BY <2>1, <2>2, <2>3 DEF CallsTyped, StartsCarry, At, MayCarry
<1>4. QED BY <1>2, <1>3

-----------------------------------------------------------------------------
\* The requests in flight stay well formed, whoever takes a step.
LEMMA CallsStep == CallsInv /\ [Next]_vars => CallsInv'
<1> SUFFICES ASSUME CallsInv, [Next]_vars PROVE CallsInv'
  OBVIOUS
<1> USE DEF CallsInv
<1>1. ASSUME NEW t \in Handlers, Arrive(t)
      PROVE  CallsInv'
  <2>0. verdicts' = verdicts
    BY <1>1 DEF Arrive, HookLookup, PostToolUseTouch, CwdChangedLookup, SessionEndSync
  <2>1. CASE HookLookup(t)
    <3>1. PICK id \in SessionIDs, project \in Projects, pid \in Pids, icon \in HookIcons :
            /\ MayCarry(id, project)
            /\ Enter(t, IF sessions[id] = Nil THEN "start" ELSE "update",
                     id, project, pid, icon)
      BY <2>1 DEF HookLookup
    <3>2. icon \in Inputs
      BY HandlerAssumption DEF Inputs
    <3>3. CallsTyped' /\ StartsCarry'
      BY <3>1, <3>2, EnterTyped
    <3>4. QED BY <2>0, <3>3 DEF VerdictsTyped
  <2>2. CASE PostToolUseTouch(t) \/ CwdChangedLookup(t) \/ SessionEndSync(t)
    <3>1. PICK id \in SessionIDs, step \in {"overlay", "cwd", "end"} :
            EnterWithID(t, step, id)
      BY <2>2 DEF PostToolUseTouch, CwdChangedLookup, SessionEndSync, Live
    <3>2. CallsTyped' /\ StartsCarry'
      BY <3>1, EnterWithIDTyped
    <3>3. QED BY <2>0, <3>2 DEF VerdictsTyped
  <2>3. QED BY <1>1, <2>1, <2>2 DEF Arrive
<1>2. ASSUME NEW t \in Handlers, Continue(t)
      PROVE  CallsInv'
  <2>1. /\ calls[t] # Nil /\ verdicts' = verdicts
        /\ \/ \E step \in {"update", "overlay", "clear", "cwd", "transcript", "end", "count"} :
                Goto(t, step)
           \/ Return(t)
    BY <1>2 DEF Continue, HookStart, HookUpdate, HookTranscript, PostToolUseOverlay,
                PostToolUseClear, CwdChangedUpdate, SessionEndRemove, SessionEndCount,
                TranscriptOrReturn, At
  <2>2. QED BY <2>1, GotoTyped DEF VerdictsTyped
<1>3. CASE Check
  <2>1. CallsTyped' /\ StartsCarry'
    BY <1>3 DEF Check, CheckSnapshot, CheckRemove, CheckIdle, CallsTyped, StartsCarry,
                At, MayCarry
  <2>2. VerdictsTyped'
    <3>1. CASE CheckSnapshot
      BY <3>1 DEF CheckSnapshot, VerdictsTyped, Verdict
    <3>2. CASE \E id \in SessionIDs : CheckRemove(id) \/ CheckIdle(id)
      BY <3>2 DEF CheckRemove, CheckIdle, VerdictsTyped
    <3>3. QED BY <1>3, <3>1, <3>2 DEF Check
  <2>3. QED BY <2>1, <2>2
<1>4. CASE UNCHANGED <<calls, verdicts>>
  BY <1>4 DEF CallsTyped, StartsCarry, VerdictsTyped, At, MayCarry
<1>5. QED
  BY <1>1, <1>2, <1>3, <1>4
     DEF Next, vars, StopFailure, SubagentStart, SubagentStop, Statusline,
         SyncAnalytics, TimePasses, Consume

\* Every step is a step of the registry, or leaves it alone.
LEMMA StepImplements == CallsInv /\ [Next]_vars => [RegistryNext]_registryVars
<1> SUFFICES ASSUME CallsInv, [Next]_vars PROVE [RegistryNext]_registryVars
  OBVIOUS
<1>0. \A t \in Handlers : calls[t] # Nil =>
        /\ calls[t].id \in SessionIDs /\ calls[t].project \in Projects
        /\ calls[t].pid \in Pids /\ calls[t].icon \in Inputs
  BY DEF CallsInv, CallsTyped, Call
<1>1. NoIcon \in Inputs /\ "error" \in Inputs /\ "coding" \in Inputs /\ "thinking" \in Inputs
  BY HandlerAssumption DEF Inputs
<1>2. ASSUME NEW t \in Handlers, Arrive(t)
      PROVE  [RegistryNext]_registryVars
  BY <1>2 DEF Arrive, HookLookup, PostToolUseTouch, CwdChangedLookup, SessionEndSync,
              RegistryNext, RegistryCall
<1>3. ASSUME NEW t \in Handlers, Continue(t)
      PROVE  [RegistryNext]_registryVars
  <2>0. calls[t] # Nil
    BY <1>3 DEF Continue, HookStart, HookUpdate, HookTranscript, PostToolUseOverlay,
                PostToolUseClear, CwdChangedUpdate, SessionEndRemove, SessionEndCount, At
  <2>1. CASE HookStart(t)
    <3>1. MayCarry(calls[t].id, calls[t].project)
      BY <2>1 DEF HookStart, CallsInv, StartsCarry
    <3>2. QED BY <1>0, <2>0, <2>1, <3>1 DEF HookStart, RegistryNext, RegistryCall
  <2>2. CASE HookUpdate(t) \/ PostToolUseClear(t) \/ CwdChangedUpdate(t)
    BY <1>0, <1>1, <2>0, <2>2 DEF HookUpdate, PostToolUseClear, CwdChangedUpdate, RegistryNext, RegistryCall
  <2>3. CASE HookTranscript(t) \/ SessionEndRemove(t)
    BY <1>0, <2>0, <2>3 DEF HookTranscript, SessionEndRemove, RegistryNext, RegistryCall
  <2>4. CASE PostToolUseOverlay(t) \/ SessionEndCount(t)
    BY <2>4 DEF PostToolUseOverlay, SessionEndCount, RegistryNext, RegistryCall
  <2>5. QED BY <1>3, <2>1, <2>2, <2>3, <2>4 DEF Continue
<1>4. ASSUME NEW id \in SessionIDs,
             \/ StopFailure(id) \/ SubagentStart(id) \/ SubagentStop(id)
             \/ Statusline(id) \/ SyncAnalytics(id)
      PROVE  [RegistryNext]_registryVars
  BY <1>1, <1>4 DEF StopFailure, SubagentStart, SubagentStop, Statusline, SyncAnalytics,
                    RegistryNext, RegistryCall
<1>5. CASE Check
  BY <1>5 DEF Check, CheckSnapshot, CheckRemove, CheckIdle, RegistryNext, RegistryCall
<1>6. CASE TimePasses \/ (\E channel \in Channels : Consume(channel)) \/ UNCHANGED vars
  BY <1>6 DEF TimePasses, Consume, vars, RegistryNext, RegistryCall
<1>7. QED BY <1>2, <1>3, <1>4, <1>5, <1>6 DEF Next

\* The requests in flight are always well formed.
THEOREM CallsInvariant == Spec => []CallsInv
<1>1. Init => CallsInv
  BY DEF Init, NoVerdicts, CallsInv, CallsTyped, StartsCarry, VerdictsTyped, At
<1>2. QED BY <1>1, CallsStep, PTL DEF Spec

\* The handlers and the stale checker implement the registry's specification.
THEOREM HandlersImplementRegistry == Spec => ImplementsRegistry
<1>1. Init => RegistryInit
  BY DEF Init
<1>2. QED BY <1>1, StepImplements, CallsInvariant, PTL
     DEF Spec, RegistrySpec, ImplementsRegistry

\* Hence no interleaving of handlers makes one window appear twice.
THEOREM HandlersSeparateWindows == Spec => []SeparateWindows
BY HandlersImplementRegistry, RegistrySeparatesWindows, PTL DEF ImplementsRegistry

\* And the handlers' state is well typed throughout.
THEOREM HandlersTyped == Spec => []HandlersTypeOK
<1>1. TypeOK /\ CallsInv => HandlersTypeOK
  BY DEF HandlersTypeOK, CallsInv, CallsTyped, StartsCarry, VerdictsTyped
<1>2. QED BY <1>1, CallsInvariant, HandlersImplementRegistry, RegistryTyped, PTL
     DEF ImplementsRegistry

-----------------------------------------------------------------------------
(* The auto-exit loop.                                                     *)
ZeroIsCurrent == (loop = "zero" /\ Live # {}) => "exit" \in signals

ExitInv == RegistryInv /\ AutoExitTypeOK /\ ArrivalIsSeen /\ ZeroIsCurrent

-----------------------------------------------------------------------------
\* The first session that arrives in an empty registry is announced.
LEMMA ArrivalPulses ==
  ASSUME RegistryInv, [RegistryNext]_registryVars, Live = {}, Live' # {}
  PROVE  "exit" \in signals'
<1>1. Starts
  BY OtherStepsKeep DEF KeepsWindows, Live
<1>2. PICK id \in SessionIDs, project \in Projects, pid \in Pids :
        StartSession(id, project, pid)
  BY <1>1 DEF Starts
<1>3. signals' = Channels
  BY <1>2 DEF StartSession, Decisive, NotifyChange
<1>4. QED BY <1>3, GraceAssumption

\* Other goroutines never take a pulse out of the auto-exit channel.
LEMMA PulseStays ==
  ASSUME RegistryCall \/ \E channel \in Channels \ {"exit"} : Receive(channel),
         "exit" \in signals
  PROVE  "exit" \in signals'
BY GraceAssumption
   DEF RegistryCall, StartSession, UpgradeSession, UpdateActivity, Touch,
       UpdateSessionData, UpdateTranscriptPath, UpdateAnalytics, Learn, EndSession,
       TransitionToIdle, RemoveSessionsBySource, OnAutoExit, Modify, NotifyChange,
       registryVars, Receive

\* Steps of the other goroutines keep the invariant.
LEMMA OthersKeep ==
  ASSUME ExitInv, OtherGoroutines
  PROVE  ExitInv'
<1>1. [RegistryNext]_registryVars /\ UNCHANGED loopVars
  BY DEF OtherGoroutines, RegistryNext
<1>2. RegistryInv'
  BY <1>1, RegistryStep DEF ExitInv
<1>3. Live # {} \/ Live' = {} \/ "exit" \in signals'
  BY <1>1, ArrivalPulses DEF ExitInv
<1>4. "exit" \in signals => "exit" \in signals'
  BY PulseStays DEF OtherGoroutines
<1>5. QED BY <1>1, <1>2, <1>3, <1>4
          DEF ExitInv, AutoExitTypeOK, ArrivalIsSeen, ZeroIsCurrent, loopVars

\* The steps of the loop keep the invariant.
LEMMA LoopKeeps ==
  ASSUME ExitInv, Loop
  PROVE  ExitInv'
<1>1. RegistryInv'
  <2>1. [RegistryNext]_registryVars
    BY GraceAssumption DEF Loop, LoopReceive, LoopCount, LoopArm, LoopAbort, LoopStop,
                           RegistryNext
  <2>2. QED BY <2>1, RegistryStep DEF ExitInv
<1>2. Live' = Live
  BY DEF Loop, LoopReceive, LoopCount, LoopArm, LoopAbort, LoopStop, Receive,
         registryVars, Live
<1>3. AutoExitTypeOK'
  <2>1. {Off, GracePeriod} \subseteq Off .. GracePeriod
    BY GraceAssumption DEF Off
  <2> USE DEF ExitInv, AutoExitTypeOK
  <2>2. CASE LoopReceive \/ LoopCount
    BY <2>2 DEF LoopReceive, LoopCount
  <2>3. CASE LoopArm
    BY <2>1, <2>3 DEF LoopArm
  <2>4. CASE LoopAbort \/ LoopStop
    BY <2>1, <2>4 DEF LoopAbort, LoopStop, Abort
  <2>5. QED BY <2>2, <2>3, <2>4 DEF Loop
<1>4. ArrivalIsSeen' /\ ZeroIsCurrent'
  BY <1>2 DEF ExitInv, ArrivalIsSeen, ZeroIsCurrent, Loop, LoopReceive, LoopCount,
              LoopArm, LoopAbort, LoopStop, Abort, Receive, registryVars
<1>5. QED BY <1>1, <1>3, <1>4 DEF ExitInv

\* The grace timer, its callback, termination and time keep the invariant.
LEMMA GraceKeeps ==
  ASSUME ExitInv, Grace \/ Terminate \/ GraceTicks
  PROVE  ExitInv'
<1>1. [RegistryNext]_registryVars /\ signals' = signals /\ loop' = loop /\ armed' = armed
  BY DEF Grace, GraceTimerFires, GraceCheck, GraceExit, Terminate, GraceTicks,
         RegistryNext, registryVars, Tick
<1>2. RegistryInv'
  BY <1>1, RegistryStep DEF ExitInv
<1>3. Live # {} \/ Live' = {} \/ "exit" \in signals'
  BY <1>1, ArrivalPulses DEF ExitInv
<1>4. AutoExitTypeOK'
  <2>1. Off \in Off .. GracePeriod /\ Off # 0
    BY GraceAssumption DEF Off
  <2> USE DEF ExitInv, AutoExitTypeOK
  <2>2. CASE GraceTimerFires
    BY <2>1, <2>2 DEF GraceTimerFires
  <2>3. CASE GraceCheck
    <3>1. exiting' \in BOOLEAN
      BY <2>3 DEF GraceCheck
    <3>2. QED BY <2>3, <3>1 DEF GraceCheck
  <2>4. CASE GraceExit \/ Terminate
    <3>1. ended' = TRUE /\ exiting' \in BOOLEAN /\ UNCHANGED <<loop, armed, timer, fired>>
      BY <2>4 DEF GraceExit, Terminate
    <3>2. QED BY <3>1
  <2>5. CASE GraceTicks
    <3>1. timer' \in Off .. GracePeriod /\ (timer' # Off => timer # Off)
      BY <2>5, GraceAssumption DEF GraceTicks, Off
    <3>2. QED BY <2>5, <3>1 DEF GraceTicks
  <2>6. QED BY <2>2, <2>3, <2>4, <2>5 DEF Grace
<1>5. QED BY <1>1, <1>2, <1>3, <1>4 DEF ExitInv, ArrivalIsSeen, ZeroIsCurrent

-----------------------------------------------------------------------------
\* The invariant holds in every state the daemon can reach.
THEOREM ExitInvariant == AutoExitSpec => []ExitInv
<1>1. AutoExitInit => ExitInv
  <2> SUFFICES ASSUME AutoExitInit PROVE ExitInv
    OBVIOUS
  <2>1. Live = {} /\ RegistryInv
    BY DEF AutoExitInit, RegistryInit, RegistryInv, TypeOK, KeysMatchSources,
           SeparateWindows, Live
  <2>2. timer \in Off .. GracePeriod
    BY GraceAssumption DEF AutoExitInit, Off
  <2>3. loop \in {"wait", "count", "zero", "some", "stopped"}
    BY DEF AutoExitInit
  <2>4. AutoExitTypeOK
    BY <2>2, <2>3 DEF AutoExitInit, AutoExitTypeOK
  <2>5. QED BY <2>1, <2>4 DEF ExitInv, ArrivalIsSeen, ZeroIsCurrent
<1>2. ExitInv /\ [AutoExitNext]_exitVars => ExitInv'
  <2> SUFFICES ASSUME ExitInv, [AutoExitNext]_exitVars PROVE ExitInv'
    OBVIOUS
  <2>1. CASE UNCHANGED exitVars
    BY <2>1 DEF exitVars, loopVars, registryVars, ExitInv, RegistryInv, TypeOK,
                KeysMatchSources, SeparateWindows, MayCarry, Live, AutoExitTypeOK,
                ArrivalIsSeen, ZeroIsCurrent
  <2>2. QED BY <2>1, LoopKeeps, GraceKeeps, OthersKeep DEF AutoExitNext
<1>3. QED BY <1>1, <1>2, PTL DEF AutoExitSpec

\* No timer or unchecked callback outlives the grace period it belongs to.
THEOREM AutoExitTyped == AutoExitSpec => []AutoExitTypeOK
<1>1. ExitInv => AutoExitTypeOK
  BY DEF ExitInv
<1>2. QED BY <1>1, ExitInvariant, PTL

\* The auto-exit loop overlooks no session that arrives in a grace period.
THEOREM AutoExitSeesArrivals == AutoExitSpec => []ArrivalIsSeen
<1>1. ExitInv => ArrivalIsSeen
  BY DEF ExitInv
<1>2. QED BY <1>1, ExitInvariant, PTL

-----------------------------------------------------------------------------
(* The resolver.                                                           *)

\* What Modify writes, it announces.
LEMMA ModifyPulses ==
  ASSUME NEW id, NEW s, Modify(id, s)
  PROVE  "update" \in signals' \/ UNCHANGED sessions
BY ResolverAssumption DEF Modify, NotifyChange, registryVars

\* Of the methods Touch alone changes a session without a pulse.
LEMMA CallPulses ==
  ASSUME RegistryCall, ~\E id \in SessionIDs : Touch(id)
  PROVE  "update" \in signals' \/ UNCHANGED sessions
<1>1. ASSUME NEW id \in SessionIDs, NEW project \in Projects, NEW pid \in Pids,
             StartSession(id, project, pid)
      PROVE  "update" \in signals' \/ UNCHANGED sessions
  BY <1>1, ResolverAssumption DEF StartSession, UpgradeSession, NotifyChange, registryVars
<1>2. ASSUME NEW source \in Sources, RemoveSessionsBySource(source)
      PROVE  "update" \in signals' \/ UNCHANGED sessions
  BY <1>2, ResolverAssumption DEF RemoveSessionsBySource, NotifyChange, registryVars
<1>3. CASE OnAutoExit
  BY <1>3 DEF OnAutoExit
<1>4. QED
  BY <1>1, <1>2, <1>3, ModifyPulses
     DEF RegistryCall, UpdateActivity, UpdateSessionData, UpdateTranscriptPath, UpdateAnalytics,
         Learn, EndSession, TransitionToIdle

\* Touch and the passage of time move activity clocks and nothing else.
LEMMA ClocksOnly ==
  ASSUME TypeOK, Tick \/ \E id \in SessionIDs : Touch(id)
  PROVE  OnlyClocks
<1>1. \A id \in SessionIDs : sessions[id] # Nil => sessions[id] \in Session
  BY DEF TypeOK
<1>2. Nil \notin Session
  BY RegistryAssumption
<1>3. CASE Tick
  <2>1. ASSUME NEW s \in Session
        PROVE  [s EXCEPT !.age = 0] = [Older(s) EXCEPT !.age = 0]
    BY DEF Session, Older
  <2>2. ASSUME NEW id \in SessionIDs, sessions[id] # Nil
        PROVE  sessions'[id] = Older(sessions[id]) /\ Older(sessions[id]) \in Session
    BY <1>1, <1>3, <2>2, OlderType DEF Tick
  <2>3. \A id \in SessionIDs : sessions[id] = Nil => sessions'[id] = Nil
    BY <1>3 DEF Tick
  <2>4. QED BY <1>1, <1>2, <2>1, <2>2, <2>3 DEF OnlyClocks
<1>4. ASSUME NEW t \in SessionIDs, Touch(t)
      PROVE  OnlyClocks
  <2>1. ASSUME NEW s \in Session
        PROVE  /\ [s EXCEPT !.age = 0] \in Session
               /\ [s EXCEPT !.age = 0] = [[s EXCEPT !.age = 0] EXCEPT !.age = 0]
    <3> DEFINE touched == [s EXCEPT !.age = 0]
    <3>1. touched \in Session /\ touched.age = 0
      BY RegistryAssumption DEF Session
    <3>2. \A r \in Session : r.age = 0 => r = [r EXCEPT !.age = 0]
      BY DEF Session
    <3> HIDE DEF touched
    <3>3. touched \in Session /\ touched = [touched EXCEPT !.age = 0]
      BY <3>1, <3>2
    <3>4. QED BY <3>3 DEF touched
  <2>2. \A id \in SessionIDs :
          sessions'[id] = IF id = t /\ sessions[t] # Nil THEN [sessions[t] EXCEPT !.age = 0]
                          ELSE sessions[id]
    BY <1>4 DEF Touch, TypeOK
  <2>3. QED BY <1>1, <1>2, <2>1, <2>2 DEF OnlyClocks
<1>5. QED BY <1>3, <1>4

\* Whatever changes for the presence leaves a pulse for the coalescer.
THEOREM ResolverIsPulsed == RegistrySpec => ChangeIsPulsed
<1>1. TypeOK /\ [RegistryNext]_registryVars =>
        ["update" \in signals' \/ OnlyClocks]_registryVars
  <2> SUFFICES ASSUME TypeOK, RegistryNext, ~UNCHANGED registryVars
               PROVE  "update" \in signals' \/ OnlyClocks
    OBVIOUS
  <2>1. UNCHANGED sessions => OnlyClocks
    BY DEF OnlyClocks
  <2>2. CASE RegistryCall \/ Tick
    BY <2>1, <2>2, CallPulses, ClocksOnly
  <2>3. CASE \E channel \in Channels : Receive(channel)
    BY <2>1, <2>3 DEF Receive
  <2>4. QED BY <2>2, <2>3 DEF RegistryNext
<1>2. ["update" \in signals' \/ OnlyClocks]_registryVars =>
        [\/ "update" \in signals'
         \/ OnlyClocks
         \/ \A detail \in Details : Presences(detail)' = Presences(detail)]_registryVars
  OBVIOUS
<1>3. QED BY <1>1, <1>2, RegistryTyped, PTL DEF RegistrySpec, ChangeIsPulsed

-----------------------------------------------------------------------------
(* The most recent session.  What the loop over a snapshot computes is     *)
(* found by an induction over the snapshot: a set of numbers that has 0    *)
(* and with each number the next one has them all.                         *)

LEMMA AllNumbers ==
  ASSUME NEW S \in SUBSET Nat, 0 \in S, \A n \in S : n + 1 \in S
  PROVE  S = Nat
<1> SUFFICES ASSUME Nat \ S # {} PROVE FALSE
  OBVIOUS
<1> DEFINE R == OpToRel(<, Nat)
           T == Nat \ S
<1>1. IsWellFoundedOn(R, Nat)
  BY NatLessThanWellFounded
<1>2. T \subseteq Nat /\ T # {}
  OBVIOUS
<1>3. \A m, n \in Nat : m < n => <<m, n>> \in R
  BY DEF OpToRel
<1> HIDE DEF R, T
<1>4. PICK n \in T : \A m \in T : ~ (<<m, n>> \in R)
  BY <1>1, <1>2, WFMin
<1> USE DEF T
<1>5. n \in Nat /\ n # 0
  BY <1>4
<1>6. n - 1 \in Nat /\ n - 1 < n
  BY <1>5
<1>7. n - 1 \in S
  BY <1>3, <1>4, <1>5, <1>6
<1>8. n - 1 + 1 \in S
  BY <1>7
<1> QED BY <1>4, <1>5, <1>8

\* One turn of the loop.
Preferred(best, id) == IF Better(sessions[best], sessions[id]) THEN id ELSE best

\* The loop, as a function of the positions that it has seen.
IsLoop(f, base, seq, n) ==
  f = [s \in SUBSET (1 .. n) |->
         IF s = {} THEN base ELSE Preferred(f[s \ {Max(s)}], seq[Max(s)])]

LEMMA LoopExists ==
  ASSUME NEW base, NEW seq, NEW n \in Nat
  PROVE  \E f : IsLoop(f, base, seq, n)
<1> DEFINE S == {k \in Nat : \E f : IsLoop(f, base, seq, k)}
<1>1. 0 \in S
  <2> DEFINE f == [s \in SUBSET (1 .. 0) |-> base]
  <2>1. \A s \in SUBSET (1 .. 0) : s = {}
    OBVIOUS
  <2>2. IsLoop(f, base, seq, 0)
    BY <2>1 DEF IsLoop
  <2> QED BY <2>2
<1>2. ASSUME NEW k \in S
      PROVE  k + 1 \in S
  <2>1. PICK f : IsLoop(f, base, seq, k)
    OBVIOUS
  <2> DEFINE Turn(g, s) == IF s = {} THEN base ELSE Preferred(g[s \ {Max(s)}], seq[Max(s)])
             g == [s \in SUBSET (1 .. k + 1) |->
                     IF k + 1 \in s THEN Preferred(f[s \ {k + 1}], seq[k + 1]) ELSE f[s]]
  <2>2. /\ \A s \in SUBSET (1 .. k) : f[s] = Turn(f, s)
        /\ \A s \in SUBSET (1 .. k) : s \in SUBSET (1 .. k + 1) /\ k + 1 \notin s
    <3>1. k \in Nat
      OBVIOUS
    <3>2. \A s \in SUBSET (1 .. k) : f[s] = Turn(f, s)
      BY <2>1 DEF IsLoop
    <3>3. \A i \in 1 .. k : i \in 1 .. k + 1 /\ i # k + 1
      BY <3>1
    <3> QED BY <3>2, <3>3
  <2>3. \A s \in SUBSET (1 .. k) : g[s] = f[s]
    BY <2>2
  <2>4. ASSUME NEW s \in SUBSET (1 .. k + 1)
        PROVE  g[s] = Turn(g, s)
    <3>1. CASE k + 1 \in s
      <4>1. Max(s) = k + 1
        <5>1. \A x \in s : (\A y \in s : x >= y) <=> x = k + 1
          BY <3>1
        <5> QED BY <3>1, <5>1 DEF Max
      <4>2. s \ {k + 1} \in SUBSET (1 .. k)
        OBVIOUS
      <4> QED BY <3>1, <4>1, <4>2, <2>3
    <3>2. CASE k + 1 \notin s
      <4>1. s \in SUBSET (1 .. k) /\ s \ {Max(s)} \in SUBSET (1 .. k)
        <5>1. \A i \in s : i \in 1 .. k
          BY <3>2
        <5> QED BY <5>1
      <4>2. g[s] = Turn(f, s)
        BY <4>1, <2>2, <2>3
      <4>3. g[s \ {Max(s)}] = f[s \ {Max(s)}]
        BY <4>1, <2>3
      <4> QED BY <4>2, <4>3
    <3> QED BY <3>1, <3>2
  <2>5. IsLoop(g, base, seq, k + 1)
    <3>1. g = [s \in SUBSET (1 .. k + 1) |-> g[s]]
      OBVIOUS
    <3> HIDE DEF g
    <3> QED BY <3>1, <2>4 DEF IsLoop
  <2> QED BY <2>5
<1>3. S = Nat
  <2>1. S \in SUBSET Nat
    OBVIOUS
  <2> HIDE DEF S
  <2> QED BY <1>1, <1>2, <2>1, AllNumbers
<1> QED BY <1>3

\* getMostRecentSession is what the loop has after the last position.
LEMMA FoldIsLoop ==
  ASSUME NEW snapshot, NEW seq, seq = Tail(snapshot), NEW n \in Nat, DOMAIN seq = 1 .. n
  PROVE  \E f : /\ IsLoop(f, snapshot[1], seq, n)
                /\ f[1 .. n] = getMostRecentSession(snapshot)
<1> DEFINE f == CHOOSE g : IsLoop(g, snapshot[1], seq, n)
<1>1. IsLoop(f, snapshot[1], seq, n)
  BY LoopExists
<1>2. f[1 .. n] = getMostRecentSession(snapshot)
  BY DEF getMostRecentSession, FoldLeft, MapThenFoldSet, IsLoop, Preferred
<1> QED BY <1>1, <1>2

-----------------------------------------------------------------------------
\* A session that the loop prefers to another: the relation that ShowsMostRecent
\* asks for between the best session and every other.
Beats(a, b) ==
  /\ sessions[b].status = "active" => sessions[a].status = "active"
  /\ sessions[b].status = sessions[a].status => sessions[a].age <= sessions[b].age

LEMMA BeatsChain ==
  ASSUME TypeOK, NEW a \in Live, NEW b \in Live
  PROVE  /\ Beats(a, a)
         /\ Better(sessions[a], sessions[b]) =>
              /\ Beats(b, a)
              /\ \A c \in Live : Beats(a, c) => Beats(b, c)
         /\ ~Better(sessions[a], sessions[b]) => Beats(a, b)
<1>1. \A id \in Live : /\ sessions[id].status \in {"active", "idle"}
                       /\ sessions[id].age \in Int
  BY RegistryAssumption DEF TypeOK, Live, Session
<1> QED BY <1>1 DEF Beats, Better

\* After each turn the best session beats all those that the loop has seen.
LEMMA LoopBeats ==
  ASSUME TypeOK, NEW n \in Nat, NEW snapshot \in [1 .. n + 1 -> Live],
         NEW seq, \A i \in 1 .. n : seq[i] = snapshot[i + 1],
         NEW f, IsLoop(f, snapshot[1], seq, n)
  PROVE  /\ f[1 .. n] \in Live
         /\ \A i \in 1 .. n + 1 : Beats(f[1 .. n], snapshot[i])
<1> DEFINE Seen(k) == /\ f[1 .. k] \in Live
                      /\ \A i \in 1 .. k + 1 : Beats(f[1 .. k], snapshot[i])
           S == {k \in Nat : k <= n => Seen(k)}
<1>1. f[{}] = snapshot[1]
  BY DEF IsLoop
<1>2. 0 \in S
  <2>1. 1 .. 0 = {} /\ 1 .. 0 + 1 = {1}
    OBVIOUS
  <2>2. snapshot[1] \in Live
    OBVIOUS
  <2> QED BY <1>1, <2>1, <2>2, BeatsChain
<1>3. ASSUME NEW k \in Nat, k + 1 <= n, Seen(k)
      PROVE  Seen(k + 1)
  <2> DEFINE s == 1 .. k + 1
             best == f[1 .. k]
             next == snapshot[k + 2]
  <2>1. s \in SUBSET (1 .. n) /\ s # {}
    <3>1. k + 1 \in s /\ \A i \in s : i \in 1 .. n
      BY <1>3
    <3> QED BY <3>1
  <2>2. Max(s) = k + 1
    <3>1. \A x \in s : (\A y \in s : x >= y) <=> x = k + 1
      OBVIOUS
    <3>2. k + 1 \in s
      OBVIOUS
    <3> HIDE DEF s
    <3> QED BY <3>1, <3>2 DEF Max
  <2>3. s \ {k + 1} = 1 .. k /\ seq[k + 1] = next /\ next \in Live /\ best \in Live
    BY <1>3
  <2>4. f[s] = Preferred(best, next)
    <3>1. f[s] = Preferred(f[s \ {k + 1}], seq[k + 1])
      <4> HIDE DEF s
      <4> QED BY <2>1, <2>2 DEF IsLoop
    <3> QED BY <2>3, <3>1
  <2>5. \A i \in 1 .. k + 1 : Beats(best, snapshot[i]) /\ snapshot[i] \in Live
    BY <1>3
  <2>6. \A i \in 1 .. k + 1 + 1 : i \in 1 .. k + 1 \/ snapshot[i] = next
    OBVIOUS
  <2> HIDE DEF s, best, next
  <2>7. f[s] \in Live
    BY <2>3, <2>4 DEF Preferred
  <2>8. \A i \in 1 .. k + 1 + 1 : Beats(f[s], snapshot[i])
    BY <2>3, <2>4, <2>5, <2>6, BeatsChain DEF Preferred
  <2> QED BY <2>7, <2>8 DEF s
<1>4. \A k \in S : k + 1 \in S
  <2> HIDE DEF Seen
  <2>1. ASSUME NEW k \in S PROVE k + 1 \in S
    <3>1. k \in Nat /\ (k <= n => Seen(k))
      OBVIOUS
    <3>2. k + 1 <= n => k <= n
      BY <3>1
    <3> QED BY <1>3, <3>1, <3>2
  <2> QED BY <2>1
<1>5. S = Nat
  <2>1. S \in SUBSET Nat
    OBVIOUS
  <2> HIDE DEF S
  <2> QED BY <1>2, <1>4, <2>1, AllNumbers
<1>6. n \in S
  BY <1>5
<1> QED BY <1>6

\* A snapshot has each of the sessions at some position.
LEMMA SnapshotHasAll ==
  ASSUME IsFiniteSet(Live), NEW snapshot \in Snapshots
  PROVE  /\ Cardinality(Live) \in Nat
         /\ snapshot \in [1 .. Cardinality(Live) -> Live]
         /\ \A id \in Live : \E i \in 1 .. Cardinality(Live) : snapshot[i] = id
<1> DEFINE n == Cardinality(Live)
<1>1. n \in Nat
  BY FS_CardinalityType
<1> HIDE DEF n
<1>2. IsFiniteSet(1 .. n) /\ Cardinality(1 .. n) = n
  <2>1. /\ IsFiniteSet(1 .. n)
        /\ Cardinality(1 .. n) = IF 1 > n THEN 0 ELSE n - 1 + 1
    BY <1>1, FS_Interval
  <2> QED BY <1>1, <2>1
<1>3. snapshot \in Injection(1 .. n, Live)
  BY DEF n, Snapshots, SetToSeqs, Injection, IsInjective
<1>4. snapshot \in Surjection(1 .. n, Live)
  <2>1. Cardinality(1 .. n) = Cardinality(Live)
    BY <1>2 DEF n
  <2> QED BY <1>3, <2>1, FS_Injection
<1> QED BY <1>1, <1>3, <1>4 DEF n, Injection, Surjection

LEMMA ShowsBest ==
  ASSUME TypeOK, IsFiniteSet(Live)
  PROVE  ShowsMostRecent
<1> SUFFICES ASSUME NEW snapshot \in Snapshots \ {<<>>}
             PROVE  \A id \in Live : Beats(getMostRecentSession(snapshot), id)
  BY DEF ShowsMostRecent, Beats
<1>1. PICK m \in Nat : /\ snapshot \in [1 .. m -> Live]
                       /\ \A id \in Live : \E i \in 1 .. m : snapshot[i] = id
  BY SnapshotHasAll
<1>2. m # 0
  BY <1>1
<1>3. PICK n \in Nat : m = n + 1
  <2>1. m - 1 \in Nat /\ m = (m - 1) + 1
    BY <1>2
  <2> QED BY <2>1
<1> DEFINE seq == Tail(snapshot)
<1>4. DOMAIN seq = 1 .. n /\ \A i \in 1 .. n : seq[i] = snapshot[i + 1]
  BY <1>1, <1>3, SeqDef
<1>5. seq = Tail(snapshot)
  OBVIOUS
<1> HIDE DEF seq
<1>6. PICK f : /\ IsLoop(f, snapshot[1], seq, n)
               /\ f[1 .. n] = getMostRecentSession(snapshot)
  BY <1>4, <1>5, FoldIsLoop, Zenon
<1>7. /\ snapshot \in [1 .. n + 1 -> Live]
      /\ \A id \in Live : \E i \in 1 .. n + 1 : snapshot[i] = id
  BY <1>1, <1>3
<1>8. \A i \in 1 .. n + 1 : Beats(f[1 .. n], snapshot[i])
  BY <1>4, <1>6, <1>7, LoopBeats
<1> QED BY <1>6, <1>7, <1>8

-----------------------------------------------------------------------------
\* The map never has more than finitely many sessions: each method adds one at most.
FinitelyMany == IsFiniteSet(Live)

LEMMA StaysFinite ==
  ASSUME RegistryInv, FinitelyMany, [RegistryNext]_registryVars
  PROVE  FinitelyMany'
<1>1. \E id : Live' \subseteq Live \cup {id}
  <2>1. CASE Starts
    <3>1. PICK id \in SessionIDs, project \in Projects, pid \in Pids :
            StartSession(id, project, pid)
      BY <2>1 DEF Starts
    <3>2. \A other \in SessionIDs \ {id} : sessions[other] = Nil => sessions'[other] = Nil
      BY <3>1 DEF StartSession, UpgradeSession, RegistryInv, TypeOK, registryVars
    <3> QED BY <3>2 DEF Live
  <2>2. CASE ~Starts
    BY <2>2, OtherStepsKeep DEF KeepsWindows, Live
  <2> QED BY <2>1, <2>2
<1> QED BY <1>1, FS_AddElement, FS_Subset DEF FinitelyMany

\* Whatever order a snapshot has, for any sessions, projects and timeouts: the
\* session that is shown is active if one is, and was used last among its equals.
THEOREM ResolverShowsMostRecent == RegistrySpec => []ShowsMostRecent
<1>1. RegistryInit => FinitelyMany
  <2>1. RegistryInit => Live = {}
    BY DEF RegistryInit, Live
  <2> QED BY <2>1, FS_EmptySet DEF FinitelyMany
<1>2. RegistryInv /\ FinitelyMany => ShowsMostRecent
  BY ShowsBest DEF RegistryInv, FinitelyMany
<1> QED BY <1>1, <1>2, StaysFinite, RegistryInvariant, PTL DEF RegistrySpec

-----------------------------------------------------------------------------
(* What carries over from the registry to those who use it.                *)

\* The interleaved handlers keep every promise of the registry and the resolver:
\* no step of theirs lowers a rank, loses history at an upgrade or changes the
\* presence in silence, and what is shown between two steps is the most recent.
THEOREM HandlersInherit ==
  Spec => /\ [](KeysMatchSources /\ SeparateWindows /\ ShowsMostRecent)
          /\ NoDowngrade /\ UpgradeKeepsHistory /\ ChangeIsPulsed
BY HandlersImplementRegistry, RegistryKeys, RegistrySeparatesWindows,
   RegistryNeverDowngrades, RegistryUpgradeKeepsHistory, ResolverShowsMostRecent,
   ResolverIsPulsed, PTL DEF ImplementsRegistry

\* The daemon with its auto-exit loop implements the registry's specification:
\* all the loop does to it is to take its pulses and to count.
THEOREM AutoExitImplementsRegistry == AutoExitSpec => RegistrySpec
<1>1. AutoExitInit => RegistryInit
  BY DEF AutoExitInit
<1>2. [AutoExitNext]_exitVars => [RegistryNext]_registryVars
  <2> SUFFICES ASSUME [AutoExitNext]_exitVars PROVE [RegistryNext]_registryVars
    OBVIOUS
  <2>1. CASE Loop
    BY <2>1, GraceAssumption DEF Loop, LoopReceive, LoopCount, LoopArm, LoopAbort,
       LoopStop, RegistryNext
  <2>2. CASE Grace \/ Terminate \/ GraceTicks
    BY <2>2 DEF Grace, GraceTimerFires, GraceCheck, GraceExit, Terminate, GraceTicks,
                RegistryNext
  <2>3. CASE OtherGoroutines
    BY <2>3 DEF OtherGoroutines, RegistryNext
  <2>4. CASE UNCHANGED exitVars
    BY <2>4 DEF exitVars
  <2> QED BY <2>1, <2>2, <2>3, <2>4 DEF AutoExitNext
<1> QED BY <1>1, <1>2, PTL DEF AutoExitSpec, RegistrySpec
=============================================================================
