--------------------------- MODULE SessionRegistry ---------------------------
(***************************************************************************)
(* The in-memory registry of Claude Code sessions (session/registry.go).   *)
(* Every method holds the registry mutex from its first line to its last,  *)
(* so a method is one action.  The map from session ID to *Session is a    *)
(* total function whose value is Nil where the map has no entry.           *)
(*                                                                         *)
(* Data is kept only as far as properties can tell it apart:               *)
(*   - project  the base name of the working directory;                    *)
(*   - acts     the sum of the five activity counters, distinguished up to *)
(*              MaxActs (one more than MaxActs is still MaxActs);          *)
(*   - known    which of the other data (transcript path, status-line      *)
(*              metadata, analytics) has been stored, as far as Tracked;   *)
(*   - icon     SmallImageKey; the keys of CounterMap are a constant;      *)
(*   - age      the time since LastActivityAt, in ticks, distinguished up  *)
(*              to one more than RemoveTimeout.                            *)
(* StartedAt is never written after creation and travels with the counters.*)
(***************************************************************************)
EXTENDS Naturals

CONSTANTS
  SessionIDs,     \* the IDs that hooks may carry, synthetic ones included
  Projects,       \* base names of working directories
  Pids,           \* PIDs a request may report; 0 is "unknown"
  SourceFromID,   \* the source an ID's prefix stands for
  SyntheticID,    \* the synthetic ID ("jsonl-p", "http-p") of each project
  IdleTimeout,    \* ticks without activity before a session turns idle
  RemoveTimeout,  \* ticks without activity before a session is removed
  CounterIcons,   \* the keys of CounterMap
  Channels,       \* the channels onChange signals: "update", "exit"
  Tracked,        \* the other data that is kept track of
  MaxActs,        \* bound: activity counts are distinguished up to MaxActs
  Nil             \* no session

JSONL  == 0
HTTP   == 1
Claude == 2
Sources == {JSONL, HTTP, Claude}

Icons    == CounterIcons \cup {"starting", "idle", "error"}
NoIcon   == "none"          \* an empty SmallImageKey in an ActivityRequest
Inputs   == CounterIcons \cup {"idle", "error", NoIcon}

Session == [project : Projects, pid : Pids, source : Sources, icon : Icons,
            status : {"active", "idle"}, acts : 0 .. MaxActs,
            known : SUBSET Tracked, age : 0 .. RemoveTimeout + 1]

ASSUME RegistryAssumption ==
  /\ Pids \subseteq Nat
  /\ SourceFromID \in [SessionIDs -> Sources]
  /\ SyntheticID \in [{JSONL, HTTP} -> [Projects -> SessionIDs]]
  /\ IdleTimeout \in Nat
  /\ RemoveTimeout \in Nat
  /\ "coding" \in CounterIcons
  /\ {"starting", "idle", "error", NoIcon} \cap CounterIcons = {}
  /\ MaxActs \in Nat
  /\ Nil \notin Session

VARIABLES
  sessions,   \* SessionRegistry.sessions
  signals     \* which of updateChan and autoExitChan (capacity 1) is full

registryVars == <<sessions, signals>>

Live == {id \in SessionIDs : sessions[id] # Nil}

(***************************************************************************)
(* The IDs that a hook sent from a project can carry: the UUID of a Claude *)
(* session, or the synthetic ID the daemon derives from the project.       *)
(***************************************************************************)
MayCarry(id, project) ==
  SourceFromID[id] # Claude => id = SyntheticID[SourceFromID[id]][project]

-----------------------------------------------------------------------------
\* onChange as main.go installs it: a non-blocking send on both channels.
NotifyChange == signals' = Channels

\* Mutant of Fresh: the new session has no image key yet.
FreshWithoutIcon(project, pid, source) ==
  [project |-> project, pid |-> pid, source |-> source, icon |-> NoIcon,
   status |-> "active", acts |-> 0, known |-> {}, age |-> 0]

Fresh(project, pid, source) ==
  [project |-> project, pid |-> pid, source |-> source, icon |-> "starting",
   status |-> "active", acts |-> 0, known |-> {}, age |-> 0]

\* Mutant of Decisive: a reconnecting window is not recognised by its PID.
DecisiveWithoutPid(project, pid, source) ==
  {e \in Live : sessions[e].project = project /\ sessions[e].source # source}

\* The sessions at which StartSession's loop over the map can stop: those of
\* the project except the ones of equal rank that belong to another window.
Decisive(project, pid, source) ==
  {e \in Live : /\ sessions[e].project = project
                /\ \/ sessions[e].source # source
                   \/ sessions[e].pid = pid
                   \/ 0 \in {pid, sessions[e].pid}}

\* Mutants of UpgradeSession: the rank is not raised; the entry starts afresh.
UpgradeKeepingRank(e, id, pid, source) ==
  /\ sessions' = [sessions EXCEPT ![e]  = Nil, ![id] = [sessions[e] EXCEPT !.pid = pid]]
  /\ NotifyChange
UpgradeAfresh(e, id, pid, source) ==
  /\ sessions' = [sessions EXCEPT ![e]  = Nil,
                                  ![id] = Fresh(sessions[e].project, pid, source)]
  /\ NotifyChange

UpgradeSession(e, id, pid, source) ==
  /\ sessions' = [sessions EXCEPT
                    ![e]  = Nil,
                    ![id] = [sessions[e] EXCEPT !.pid = pid, !.source = source]]
  /\ NotifyChange

\* Mutant of StartSession: any other rank replaces the one that is registered.
StartSessionOfAnyRank(id, project, pid) ==
  LET source   == SourceFromID[id]
      decisive == Decisive(project, pid, source)
  IN  \/ /\ decisive = {}
         /\ sessions' = [sessions EXCEPT ![id] = Fresh(project, pid, source)]
         /\ NotifyChange
      \/ \E e \in decisive :
           IF source # sessions[e].source
             THEN UpgradeSession(e, id, pid, source)
             ELSE UNCHANGED registryVars

\* Go iterates over the map in any order: any decisive session may come first.
StartSession(id, project, pid) ==
  LET source   == SourceFromID[id]
      decisive == Decisive(project, pid, source)
  IN  \/ /\ decisive = {}
         /\ sessions' = [sessions EXCEPT ![id] = Fresh(project, pid, source)]
         /\ NotifyChange
      \/ \E e \in decisive :
           IF source > sessions[e].source
             THEN UpgradeSession(e, id, pid, source)
             ELSE UNCHANGED registryVars

\* Mutant of Modify: the change is not notified.
ModifyQuietly(id, s) ==
  /\ sessions' = IF sessions[id] = Nil THEN sessions ELSE [sessions EXCEPT ![id] = s]
  /\ UNCHANGED signals

\* The methods below do nothing when the ID is unknown.
Modify(id, s) ==
  IF sessions[id] = Nil
    THEN UNCHANGED registryVars
    ELSE /\ sessions' = [sessions EXCEPT ![id] = s]
         /\ NotifyChange

Count(s, icon) ==
  IF icon \in CounterIcons /\ s.acts < MaxActs THEN s.acts + 1 ELSE s.acts

\* An empty icon keeps the old one, and the counter of the resulting icon grows.
Refreshed(s, icon) ==
  LET shown == IF icon = NoIcon THEN s.icon ELSE icon
  IN  [s EXCEPT !.icon = shown, !.acts = Count(s, shown),
                !.age = 0, !.status = "active"]

UpdateActivity(id, icon) == Modify(id, Refreshed(sessions[id], icon))

\* Touch alone refreshes the activity clock without a notification.
Touch(id) ==
  /\ sessions' = IF sessions[id] = Nil THEN sessions
                 ELSE [sessions EXCEPT ![id].age = 0]
  /\ UNCHANGED signals

Learn(id, what) ==
  Modify(id, [sessions[id] EXCEPT !.known = @ \cup ({what} \cap Tracked)])

UpdateSessionData(id)    == Learn(id, "metadata")
UpdateTranscriptPath(id) == Learn(id, "transcript")
UpdateAnalytics(id)      == Learn(id, "analytics")

EndSession(id) == Modify(id, Nil)

TransitionToIdle(id) ==
  Modify(id, [sessions[id] EXCEPT !.status = "idle", !.icon = "idle"])

RemoveSessionsBySource(source) ==
  LET gone == {id \in Live : sessions[id].source = source}
  IN  IF gone = {} THEN UNCHANGED registryVars
      ELSE /\ sessions' = [id \in SessionIDs |->
                             IF id \in gone THEN Nil ELSE sessions[id]]
           /\ NotifyChange

Older(s) ==
  IF s.age > RemoveTimeout THEN s ELSE [s EXCEPT !.age = @ + 1]

\* One unit of wall-clock time passes.
Tick ==
  /\ sessions' = [id \in SessionIDs |->
                    IF sessions[id] = Nil THEN Nil ELSE Older(sessions[id])]
  /\ UNCHANGED signals

\* Server.onAutoExit: a non-blocking send on the auto-exit channel alone.
OnAutoExit == signals' = signals \cup ({"exit"} \cap Channels) /\ UNCHANGED sessions

\* The goroutine that reads a channel takes the pulse out of it.
Receive(channel) ==
  /\ channel \in signals
  /\ signals' = signals \ {channel}
  /\ UNCHANGED sessions

-----------------------------------------------------------------------------
RegistryInit ==
  /\ sessions = [id \in SessionIDs |-> Nil]
  /\ signals = {}

\* Any goroutine may call any method with arguments a hook can produce.
RegistryCall ==
  \/ \E id \in SessionIDs, project \in Projects, pid \in Pids :
       MayCarry(id, project) /\ StartSession(id, project, pid)
  \/ \E id \in SessionIDs, icon \in Inputs : UpdateActivity(id, icon)
  \/ \E id \in SessionIDs : Touch(id)
  \/ \E id \in SessionIDs : UpdateSessionData(id)
  \/ \E id \in SessionIDs : UpdateTranscriptPath(id)
  \/ \E id \in SessionIDs : UpdateAnalytics(id)
  \/ \E id \in SessionIDs : EndSession(id)
  \/ \E id \in SessionIDs : TransitionToIdle(id)
  \/ \E source \in Sources : RemoveSessionsBySource(source)
  \/ OnAutoExit

RegistryNext ==
  \/ RegistryCall
  \/ Tick
  \/ \E channel \in Channels : Receive(channel)

RegistrySpec == RegistryInit /\ [][RegistryNext]_registryVars

-----------------------------------------------------------------------------
\* Every entry is a session or Nil, and only the two channels can be full.
TypeOK ==
  /\ sessions \in [SessionIDs -> Session \cup {Nil}]
  /\ signals \subseteq Channels

\* The source recorded in an entry is the one its key's prefix stands for,
\* and a synthetic entry sits under the synthetic ID of its project: an
\* upgrade re-keys the entry and its fields together (registry.go:123-135).
KeysMatchSources ==
  \A id \in Live : /\ sessions[id].source = SourceFromID[id]
                   /\ MayCarry(id, sessions[id].project)

\* Two sessions of one project are two windows: both are real Claude sessions
\* and they have different, known PIDs.  A synthetic session never stands
\* beside another session of its project, so Discord never counts one Claude
\* Code window twice (the dedup of registry.go:62-95).
SeparateWindows ==
  \A a, b \in Live :
    (a # b /\ sessions[a].project = sessions[b].project) =>
      /\ sessions[a].source = Claude /\ sessions[b].source = Claude
      /\ sessions[a].pid # sessions[b].pid
      /\ 0 \notin {sessions[a].pid, sessions[b].pid}

\* A session enters a project only if no session there outranks it: the
\* upgrade chain JSONL < HTTP < Claude never runs backwards.
NoDowngrade ==
  [][\A id \in SessionIDs \ Live :
       sessions'[id] # Nil =>
         \A e \in Live : sessions[e].project = sessions'[id].project =>
                           sessions[e].source <= sessions'[id].source]_sessions

\* When one ID leaves and another appears in the same step, the entry was
\* re-keyed: counters, stored data and activity clock travel with it (D-04).
UpgradeKeepsHistory ==
  [][\A old \in Live, new \in SessionIDs \ Live :
       (sessions'[old] = Nil /\ sessions'[new] # Nil) =>
         /\ sessions'[new].acts = sessions[old].acts
         /\ sessions'[new].known = sessions[old].known
         /\ sessions'[new].age = sessions[old].age
         /\ sessions'[new].source > sessions[old].source]_sessions
=============================================================================
