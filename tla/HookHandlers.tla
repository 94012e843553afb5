---------------------------- MODULE HookHandlers ----------------------------
(***************************************************************************)
(* The goroutines that drive the session registry: the HTTP hook handlers  *)
(* (server/server.go), each of which makes several registry calls with the *)
(* mutex released in between, and the stale checker (session/stale.go),    *)
(* which decides on a snapshot of the registry and acts on it later.       *)
(*                                                                         *)
(* This is the projection of the handlers onto the registry: the calls     *)
(* into the analytics tracker and the statistics counters are left out.    *)
(* A handler that makes one registry call is one action; the background    *)
(* transcript reads of post-tool-use and pre-compact end in one            *)
(* UpdateAnalytics call, SyncAnalytics, at any later time.                 *)
(***************************************************************************)
EXTENDS SessionRegistry

CONSTANTS
  Handlers,     \* goroutines that can serve multi-call hooks at one time
  HookIcons,    \* the icons MapHookToActivity returns for the hooks sent
  DeadTimeout   \* ticks after which a session with a dead PID is removed

Call ==
  [at : {"start", "update", "overlay", "clear", "cwd", "transcript", "end", "count"},
   id : SessionIDs, project : Projects, pid : Pids, icon : Inputs]

ASSUME HandlerAssumption ==
  /\ HookIcons \subseteq CounterIcons \cup {"idle"}
  /\ DeadTimeout \in Nat
  /\ Projects # {} /\ Pids # {}
  /\ Nil \notin Call
  /\ {"coding", "thinking"} \subseteq CounterIcons

VARIABLES
  calls,      \* per handler: Nil, or the request and the registry call it is at
  verdicts    \* what CheckOnce has decided and not yet done, per session

vars == <<registryVars, calls, verdicts>>

\* The call a handler is at, where only the ID matters.
At(t, step) == calls[t] # Nil /\ calls[t].at = step
Goto(t, step) == calls' = [calls EXCEPT ![t].at = step]
Return(t) == calls' = [calls EXCEPT ![t] = Nil]

Enter(t, step, id, project, pid, icon) ==
  /\ calls[t] = Nil
  /\ calls' = [calls EXCEPT ![t] = [at |-> step, id |-> id, project |-> project,
                                    pid |-> pid, icon |-> icon]]

\* A handler whose later calls use nothing of the request but the session ID.
EnterWithID(t, step, id) ==
  Enter(t, step, id, CHOOSE p \in Projects : TRUE, CHOOSE p \in Pids : TRUE, NoIcon)

\* A hook stores the transcript path if its payload has one.
TranscriptOrReturn(t) == Goto(t, "transcript") \/ Return(t)

-----------------------------------------------------------------------------
(* handleHook: look the session up, start it if it is unknown, update it.  *)
HookLookup(t) ==
  \E id \in SessionIDs, project \in Projects, pid \in Pids, icon \in HookIcons :
    /\ MayCarry(id, project)
    /\ Enter(t, IF sessions[id] = Nil THEN "start" ELSE "update",
             id, project, pid, icon)
    /\ UNCHANGED <<registryVars, verdicts>>

\* Mutant of HookStart: the session is registered without deduplication.
HookStartUnconditionally(t) ==
  /\ At(t, "start")
  /\ LET call == calls[t]
     IN  sessions' = [sessions EXCEPT
           ![call.id] = Fresh(call.project, call.pid, SourceFromID[call.id])]
  /\ NotifyChange
  /\ Goto(t, "update")
  /\ UNCHANGED verdicts

HookStart(t) ==
  /\ At(t, "start")
  /\ StartSession(calls[t].id, calls[t].project, calls[t].pid)
  /\ Goto(t, "update")
  /\ UNCHANGED verdicts

HookUpdate(t) ==
  /\ At(t, "update")
  /\ UpdateActivity(calls[t].id, calls[t].icon)
  /\ TranscriptOrReturn(t)
  /\ UNCHANGED verdicts

HookTranscript(t) ==
  /\ At(t, "transcript")
  /\ UpdateTranscriptPath(calls[t].id)
  /\ Return(t)
  /\ UNCHANGED verdicts

(* handlePostToolUse: touch the session, clear the error overlay if there  *)
(* is one, store the transcript path.                                      *)
PostToolUseTouch(t) ==
  \E id \in SessionIDs :
    /\ Touch(id)
    /\ EnterWithID(t, "overlay", id)
    /\ UNCHANGED verdicts

PostToolUseOverlay(t) ==
  /\ At(t, "overlay")
  /\ LET s == sessions[calls[t].id]
     IN  IF s # Nil /\ s.icon = "error" THEN Goto(t, "clear")
         ELSE TranscriptOrReturn(t)
  /\ UNCHANGED <<registryVars, verdicts>>

PostToolUseClear(t) ==
  /\ At(t, "clear")
  /\ UpdateActivity(calls[t].id, "coding")
  /\ TranscriptOrReturn(t)
  /\ UNCHANGED verdicts

(* handleCwdChanged: ignored when the session is unknown.                  *)
CwdChangedLookup(t) ==
  \E id \in Live :
    /\ EnterWithID(t, "cwd", id)
    /\ UNCHANGED <<registryVars, verdicts>>

CwdChangedUpdate(t) ==
  /\ At(t, "cwd")
  /\ UpdateActivity(calls[t].id, NoIcon)
  /\ Return(t)
  /\ UNCHANGED verdicts

(* handleSessionEnd's background goroutine.                                *)
SessionEndSync(t) ==
  \E id \in SessionIDs :
    /\ UpdateAnalytics(id)
    /\ EnterWithID(t, "end", id)
    /\ UNCHANGED verdicts

SessionEndRemove(t) ==
  /\ At(t, "end")
  /\ EndSession(calls[t].id)
  /\ Goto(t, "count")
  /\ UNCHANGED verdicts

SessionEndCount(t) ==
  /\ At(t, "count")
  /\ IF Live = {} THEN OnAutoExit ELSE UNCHANGED registryVars
  /\ Return(t)
  /\ UNCHANGED verdicts

\* The hooks that make one registry call.
StopFailure(id)    == UpdateActivity(id, "error") /\ UNCHANGED <<calls, verdicts>>
SubagentStart(id)  == UpdateActivity(id, "thinking") /\ UNCHANGED <<calls, verdicts>>
SubagentStop(id)   == UpdateTranscriptPath(id) /\ UNCHANGED <<calls, verdicts>>
Statusline(id)     == UpdateSessionData(id) /\ UNCHANGED <<calls, verdicts>>
SyncAnalytics(id)  == UpdateAnalytics(id) /\ UNCHANGED <<calls, verdicts>>

-----------------------------------------------------------------------------
(* CheckOnce: the clock and a copy of every session are read once, and the *)
(* decisions taken on them are carried out one session at a time.  Only a  *)
(* session whose PID is authoritative is removed for a dead process.       *)
\* Mutant of Verdict: the exemption of sessions whose PID is not authoritative
\* covers the removal timeout too.
VerdictSparingClaude(s, dead) ==
  IF /\ s.source \notin {HTTP, Claude}
     /\ s.age > RemoveTimeout \/ (s.pid \in dead /\ s.age > DeadTimeout)
    THEN "remove"
    ELSE IF s.age > IdleTimeout /\ s.status = "active" THEN "idle" ELSE "keep"

Verdict(s, dead) ==
  IF \/ s.age > RemoveTimeout
     \/ s.pid \in dead /\ s.source \notin {HTTP, Claude} /\ s.age > DeadTimeout
    THEN "remove"
    ELSE IF s.age > IdleTimeout /\ s.status = "active" THEN "idle" ELSE "keep"

NoVerdicts == [id \in SessionIDs |-> "keep"]

CheckSnapshot ==
  /\ verdicts = NoVerdicts
  /\ \E dead \in SUBSET (Pids \ {0}) :
       verdicts' = [id \in SessionIDs |->
                      IF sessions[id] = Nil THEN "keep" ELSE Verdict(sessions[id], dead)]
  /\ UNCHANGED <<registryVars, calls>>

CheckRemove(id) ==
  /\ verdicts[id] = "remove"
  /\ EndSession(id)
  /\ verdicts' = [verdicts EXCEPT ![id] = "keep"]
  /\ UNCHANGED calls

CheckIdle(id) ==
  /\ verdicts[id] = "idle"
  /\ TransitionToIdle(id)
  /\ verdicts' = [verdicts EXCEPT ![id] = "keep"]
  /\ UNCHANGED calls

TimePasses == Tick /\ UNCHANGED <<calls, verdicts>>

\* The coalescer and the auto-exit loop take the pulses.
Consume(channel) == Receive(channel) /\ UNCHANGED <<calls, verdicts>>

-----------------------------------------------------------------------------
Init ==
  /\ RegistryInit
  /\ calls = [t \in Handlers |-> Nil]
  /\ verdicts = NoVerdicts

Arrive(t) ==
  HookLookup(t) \/ PostToolUseTouch(t) \/ CwdChangedLookup(t) \/ SessionEndSync(t)

Continue(t) ==
  \/ HookStart(t) \/ HookUpdate(t) \/ HookTranscript(t)
  \/ PostToolUseOverlay(t) \/ PostToolUseClear(t)
  \/ CwdChangedUpdate(t)
  \/ SessionEndRemove(t) \/ SessionEndCount(t)

Check == CheckSnapshot \/ \E id \in SessionIDs : CheckRemove(id) \/ CheckIdle(id)

Next ==
  \/ \E t \in Handlers : Arrive(t) \/ Continue(t)
  \/ \E id \in SessionIDs :
       \/ StopFailure(id) \/ SubagentStart(id) \/ SubagentStop(id)
       \/ Statusline(id) \/ SyncAnalytics(id)
  \/ Check
  \/ TimePasses
  \/ \E channel \in Channels : Consume(channel)

Spec == Init /\ [][Next]_vars

\* Started handlers run on, time passes and the ticker of the stale checker
\* keeps firing; nothing obliges a client to send a hook.
Fairness ==
  /\ \A t \in Handlers : WF_vars(Continue(t))
  /\ WF_vars(CheckSnapshot)
  /\ \A id \in SessionIDs : WF_vars(CheckRemove(id)) /\ WF_vars(CheckIdle(id))
  /\ WF_vars(TimePasses)

FairSpec == Spec /\ Fairness

-----------------------------------------------------------------------------
\* A handler that is busy is at one of the calls of its handler, and the
\* request it carries is one a client can send.
HandlersTypeOK ==
  /\ TypeOK
  /\ calls \in [Handlers -> Call \cup {Nil}]
  /\ \A t \in Handlers : At(t, "start") => MayCarry(calls[t].id, calls[t].project)
  /\ verdicts \in [SessionIDs -> {"keep", "remove", "idle"}]

\* The hook handlers and the stale checker, however they interleave, use the
\* registry only as its methods allow: RegistrySpec is implemented.
ImplementsRegistry == RegistrySpec

\* No zombies: a session from which nothing is heard is removed in the end,
\* even if a late hook re-created it after its session-end and status lines or
\* analytics keep arriving for it (stale.go:9-12).
SilentSessionsLeave ==
  \A id \in SessionIDs :
    sessions[id] # Nil ~> (sessions[id] = Nil \/ sessions[id].age = 0)

\* "Ensure session exists before updating activity" (server.go:435): when
\* handleHook has started the session of a real Claude ID, it is registered.
HookEnsuresSession ==
  [][\A t \in Handlers :
       LET id == calls[t].id
       IN  (At(t, "start") /\ ~At(t, "start")' /\ SourceFromID[id] = Claude) =>
             sessions'[id] # Nil]_vars
=============================================================================
