------------------------------ MODULE Subagents ------------------------------
(***************************************************************************)
(* The subagents of one session: the tree that the tracker keeps           *)
(* (analytics/subagent.go, tracker.go) and the hooks that report on agents *)
(* (server/server.go).  An agent is reported by up to three hooks: that of *)
(* the Agent tool, subagent-start and subagent-stop.  Each request is      *)
(* served by a goroutine of its own; a spawn reads the clock before it has *)
(* the tracker's mutex.  A stop looks for the entry to complete by four    *)
(* strategies, the first that finds one decides.                           *)
(*                                                                         *)
(* A name is a type or a description; a description stands for its first   *)
(* 57 characters.  Claude Code is taken to send the agent's ID and type    *)
(* with subagent-start, and the ID with subagent-stop.  Prompts, display   *)
(* and persistence are left out, and so is the registry: HookHandlers has  *)
(* what the hooks do to it.                                                *)
(***************************************************************************)
EXTENDS Integers, Sequences, FiniteSets

CONSTANTS
  Agents,     \* the agents that the session runs
  Names,      \* types and descriptions
  Type,       \* the type of an agent
  Task,       \* the description that it was given
  MaxSpawns,  \* bound: requests that report a spawn
  Nil         \* no name; an ID that no stop carries

Spawns == {"agent-tool", "subagent-start"}
Hooks  == Spawns \cup {"subagent-stop"}
Entry  == [id : Agents \cup {Nil}, type : Names \cup {Nil}, description : Names,
           status : {"working", "completed"}, time : Nat]
Request == [hook : Hooks, agent : Agents, time : Nat]

ASSUME SubagentAssumption ==
  /\ Type \in [Agents -> Names] /\ Task \in [Agents -> Names]
  /\ MaxSpawns \in Nat
  /\ Nil \notin Agents \cup Names

VARIABLES
  installed,  \* the hooks that Claude Code is configured to send
  sent,       \* per agent: the hooks that were sent
  inflight,   \* requests whose goroutine has not had the mutex yet
  clock,      \* the time that was last read
  agents,     \* SubagentTree: the entries in the order of their arrival
  handled,    \* per agent: the hooks that have been handled
  disturbed   \* was a hook ever handled twice, or a stop before its spawns?

subagentVars == <<installed, sent, inflight, clock, agents, handled, disturbed>>

-----------------------------------------------------------------------------
\* Claude Code sends the hooks of an agent in order, but may not wait for the
\* answer; a hook that is installed twice has a twin with the same body.
Arrive(hook, a) ==
  LET time == IF hook \in Spawns THEN clock + 1 ELSE 0
  IN  /\ hook \in installed
      /\ \/ hook \in sent[a]
         \/ hook = "agent-tool"
         \/ hook = "subagent-start" /\ ("agent-tool" \in installed => "agent-tool" \in sent[a])
         \/ hook = "subagent-stop" /\ installed \ sent[a] = {hook}
      /\ time <= MaxSpawns
      /\ sent' = [sent EXCEPT ![a] = @ \cup {hook}]
      /\ inflight' = inflight \cup {[hook |-> hook, agent |-> a, time |-> time]}
      /\ clock' = IF hook \in Spawns THEN time ELSE clock
      /\ UNCHANGED <<installed, agents, handled, disturbed>>

\* The daemon cannot be reached, or the body cannot be decoded.
Lose(r) ==
  /\ inflight' = inflight \ {r}
  /\ UNCHANGED <<installed, sent, clock, agents, handled, disturbed>>

\* A request has been handled, as it should have been or not.
Handle(r) ==
  /\ inflight' = inflight \ {r}
  /\ handled' = [handled EXCEPT ![r.agent] = @ \cup {r.hook}]
  /\ disturbed' = (disturbed \/ r.hook \in handled[r.agent]
                             \/ (r.hook = "subagent-stop"
                                   /\ ~(installed \cap Spawns \subseteq handled[r.agent])))
  /\ UNCHANGED <<installed, sent, clock>>

\* Mutant of Spawn: the entry keeps the empty status that the handlers give it.
SpawnAsGiven(id, type, description, time) ==
  agents' = Append(agents, [id |-> id, type |-> type, description |-> description,
                            status |-> Nil, time |-> time])

Spawn(id, type, description, time) ==
  agents' = Append(agents, [id |-> id, type |-> type, description |-> description,
                            status |-> "working", time |-> time])

\* handleHook invents an ID for the agent, and its type may be missing.
AgentTool(r) ==
  /\ r.hook = "agent-tool"
  /\ \E type \in {Type[r.agent], Nil} : Spawn(Nil, type, Task[r.agent], r.time)
  /\ Handle(r)

\* handleSubagentStart has no description and takes the type for it.
SubagentStart(r) ==
  /\ r.hook = "subagent-start"
  /\ Spawn(r.agent, Type[r.agent], Type[r.agent], r.time)
  /\ Handle(r)

-----------------------------------------------------------------------------
\* Mutant of WithType: the status is not looked at.
WithTypeOfAnyStatus(type) == {i \in DOMAIN agents : type # Nil /\ agents[i].type = type}

\* The entries that a strategy finds among those that are working.
Working == {i \in DOMAIN agents : agents[i].status = "working"}
WithID(a) == {i \in Working : agents[i].id = a}
WithDescription(description) == {i \in Working : agents[i].description = description}
WithType(type) == {i \in Working : type # Nil /\ agents[i].type = type}

\* A strategy takes the first that it finds, the last strategy the oldest.
First(found)  == {i \in found : \A j \in found : i <= j}
Oldest(found) == {i \in found : \A j \in found : agents[i].time <= agents[j].time}

\* Mutant of Match: the type is compared before the ID.
MatchTypeFirst(a, description, type) ==
  IF WithType(type) # {} THEN First(WithType(type))
  ELSE IF WithID(a) # {} THEN First(WithID(a))
  ELSE IF WithDescription(description) # {} THEN First(WithDescription(description))
  ELSE Oldest(Working)

Match(a, description, type) ==
  IF WithID(a) # {} THEN First(WithID(a))
  ELSE IF WithDescription(description) # {} THEN First(WithDescription(description))
  ELSE IF WithType(type) # {} THEN First(WithType(type))
  ELSE Oldest(Working)

Complete(found) ==
  agents' = [i \in DOMAIN agents |->
               IF i \in found THEN [agents[i] EXCEPT !.status = "completed"] ELSE agents[i]]

\* handleSubagentStop; description and type may be missing.
SubagentStop(r) ==
  /\ r.hook = "subagent-stop"
  /\ \E description \in {Task[r.agent], Nil}, type \in {Type[r.agent], Nil} :
       Complete(Match(r.agent, description, type))
  /\ Handle(r)

-----------------------------------------------------------------------------
SubagentInit ==
  /\ installed \in {{"subagent-stop"} \cup spawns : spawns \in (SUBSET Spawns) \ {{}}}
  /\ sent = [a \in Agents |-> {}]
  /\ inflight = {} /\ clock = 0
  /\ agents = <<>>
  /\ handled = [a \in Agents |-> {}]
  /\ disturbed = FALSE

Serve(r) == AgentTool(r) \/ SubagentStart(r) \/ SubagentStop(r)

SubagentNext ==
  \/ \E hook \in Hooks, a \in Agents : Arrive(hook, a)
  \/ \E r \in inflight : Lose(r) \/ Serve(r)

SubagentSpec == SubagentInit /\ [][SubagentNext]_subagentVars

-----------------------------------------------------------------------------
\* Entries and requests are what the handlers make them; an entry with an ID was
\* reported by subagent-start.
SubagentTypeOK ==
  /\ installed \in SUBSET Hooks
  /\ sent \in [Agents -> SUBSET Hooks] /\ handled \in [Agents -> SUBSET Hooks]
  /\ inflight \subseteq Request
  /\ clock \in Nat
  /\ agents \in Seq(Entry)
  /\ disturbed \in BOOLEAN
  /\ \A i \in DOMAIN agents :
       agents[i].id # Nil => "subagent-start" \in handled[agents[i].id]

\* As long as each hook has been handled once, and stops after their spawns, an
\* entry with an agent's ID is completed when that agent has stopped, and not
\* before: the other strategies take over from the exact match only when there
\* is nothing to match (tracker.go:112-135).
StopsCompleteTheirOwn ==
  ~disturbed =>
    \A i \in DOMAIN agents :
      agents[i].id # Nil =>
        (agents[i].status = "completed" <=> "subagent-stop" \in handled[agents[i].id])

\* Under the same condition no stop is wasted and none completes two agents,
\* whichever hooks are installed and whatever fields are missing: the last
\* strategy always finds an entry (subagent.go:117-138).
StopsBalance ==
  ~disturbed =>
    Cardinality(DOMAIN agents \ Working) =
      Cardinality({a \in Agents : "subagent-stop" \in handled[a]})
=============================================================================
