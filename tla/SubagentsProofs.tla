--------------------------- MODULE SubagentsProofs ---------------------------
(***************************************************************************)
(* For any agents and any number of requests: the tree of the subagents is *)
(* well typed, and without twins and overtaken spawns a stop completes the *)
(* entry of its own agent.  The invariant that carries the second is that  *)
(* the entry which the exact match looks for is there, is the only one     *)
(* with that ID, and is working.  And stops balance: at most one agent is  *)
(* known for each entry, and those that have stopped are known, so a stop  *)
(* that comes in its turn finds an entry that is working; no two entries   *)
(* have the same time, so whichever strategy finds entries chooses one.    *)
(***************************************************************************)
EXTENDS Subagents, SequenceTheorems, FiniteSetTheorems, TLAPS

-----------------------------------------------------------------------------
(* What the parts of a step do.                                            *)
LEMMA EntryTyped ==
  ASSUME SubagentTypeOK
  PROVE  \A i \in DOMAIN agents : agents[i] \in Entry
BY DEF SubagentTypeOK

LEMMA HandleKeeps ==
  ASSUME SubagentTypeOK, NEW r \in inflight, Handle(r)
  PROVE  /\ r \in Request
         /\ inflight' \subseteq inflight
         /\ UNCHANGED <<installed, sent, clock>>
         /\ disturbed' \in BOOLEAN /\ (disturbed => disturbed')
         /\ handled' \in [Agents -> SUBSET Hooks]
         /\ handled'[r.agent] = handled[r.agent] \cup {r.hook}
         /\ \A a \in Agents \ {r.agent} : handled'[a] = handled[a]
BY DEF SubagentTypeOK, Handle, Request

\* A spawn adds an entry that is working, after all the others.
LEMMA SpawnAppends ==
  ASSUME SubagentTypeOK, NEW id, NEW type, NEW description, NEW time,
         Spawn(id, type, description, time)
  PROVE  /\ DOMAIN agents' = DOMAIN agents \cup {Len(agents) + 1}
         /\ Len(agents) + 1 \notin DOMAIN agents
         /\ \A i \in DOMAIN agents : agents'[i] = agents[i]
         /\ agents'[Len(agents) + 1] =
              [id |-> id, type |-> type, description |-> description,
               status |-> "working", time |-> time]
         /\ agents'[Len(agents) + 1].id = id
         /\ agents'[Len(agents) + 1].status = "working"
<1> DEFINE new == [id |-> id, type |-> type, description |-> description,
                   status |-> "working", time |-> time]
<1>1. /\ DOMAIN agents' = DOMAIN agents \cup {Len(agents) + 1}
      /\ Len(agents) + 1 \notin DOMAIN agents
      /\ \A i \in DOMAIN agents : agents'[i] = agents[i]
      /\ agents'[Len(agents) + 1] = new
  BY DEF SubagentTypeOK, Spawn
<1>2. new.id = id /\ new.status = "working"
  OBVIOUS
<1> QED BY <1>1, <1>2

\* A completion changes the status of the entries found, and nothing else.
LEMMA CompleteKeeps ==
  ASSUME SubagentTypeOK, NEW found, Complete(found)
  PROVE  /\ agents' \in Seq(Entry)
         /\ DOMAIN agents' = DOMAIN agents
         /\ \A i \in DOMAIN agents :
              /\ agents'[i].id = agents[i].id
              /\ agents'[i].time = agents[i].time
              /\ i \notin found => agents'[i] = agents[i]
              /\ i \in found => agents'[i].status = "completed"
<1>1. PICK n \in Nat : agents \in [1 .. n -> Entry]
  BY SeqDef DEF SubagentTypeOK
<1>2. \A i \in DOMAIN agents : agents[i] \in Entry
  BY <1>1
<1>3. agents' \in [1 .. n -> Entry]
  BY <1>1 DEF Complete, Entry
<1>4. agents' \in Seq(Entry)
  BY <1>3, SeqDef
<1>5. ASSUME NEW i \in DOMAIN agents
      PROVE  /\ agents'[i].id = agents[i].id
             /\ agents'[i].time = agents[i].time
             /\ i \notin found => agents'[i] = agents[i]
             /\ i \in found => agents'[i].status = "completed"
  BY <1>5, <1>2 DEF Complete, Entry
<1> QED BY <1>1, <1>3, <1>4, <1>5

\* Every handler handles its request, and adds an entry or completes some.
LEMMA ServeCases ==
  ASSUME NEW r, Serve(r)
  PROVE  /\ Handle(r)
         /\ \/ /\ r.hook = "agent-tool"
               /\ \E type \in {Type[r.agent], Nil} : Spawn(Nil, type, Task[r.agent], r.time)
            \/ /\ r.hook = "subagent-start"
               /\ Spawn(r.agent, Type[r.agent], Type[r.agent], r.time)
            \/ /\ r.hook = "subagent-stop"
               /\ \E description, type : Complete(Match(r.agent, description, type))
BY DEF Serve, AgentTool, SubagentStart, SubagentStop

-----------------------------------------------------------------------------
LEMMA SpawnTyped ==
  ASSUME SubagentTypeOK, NEW r \in inflight, Handle(r),
         NEW id \in Agents \cup {Nil}, NEW type \in Names \cup {Nil}, NEW description \in Names,
         Spawn(id, type, description, r.time),
         id # Nil => id = r.agent /\ r.hook = "subagent-start"
  PROVE  SubagentTypeOK'
<1> DEFINE new == [id |-> id, type |-> type, description |-> description,
                   status |-> "working", time |-> r.time]
<1>1. new \in Entry
  BY HandleKeeps DEF Entry, Request
<1>2. agents' \in Seq(Entry)
  BY <1>1, AppendProperties DEF Spawn, SubagentTypeOK
<1>3. DOMAIN agents' = DOMAIN agents \cup {Len(agents) + 1}
  BY SpawnAppends
<1>4. ASSUME NEW i \in DOMAIN agents', agents'[i].id # Nil
      PROVE  "subagent-start" \in handled'[agents'[i].id]
  <2>1. CASE i \in DOMAIN agents
    <3>1. agents'[i] = agents[i] /\ agents[i].id \in Agents
      BY <2>1, <1>4, SpawnAppends, EntryTyped DEF Entry
    <3> QED BY <3>1, <2>1, <1>4, HandleKeeps DEF SubagentTypeOK
  <2>2. CASE i = Len(agents) + 1
    BY <2>2, <1>4, SpawnAppends, HandleKeeps
  <2> QED BY <2>1, <2>2, <1>3
<1> QED BY <1>2, <1>4, HandleKeeps DEF SubagentTypeOK

LEMMA CompleteTyped ==
  ASSUME SubagentTypeOK, NEW r \in inflight, Handle(r), NEW found, Complete(found)
  PROVE  SubagentTypeOK'
<1>1. ASSUME NEW i \in DOMAIN agents', agents'[i].id # Nil
      PROVE  "subagent-start" \in handled'[agents'[i].id]
  <2>1. i \in DOMAIN agents /\ agents'[i].id = agents[i].id /\ agents[i].id \in Agents
    BY <1>1, CompleteKeeps, EntryTyped DEF Entry
  <2> QED BY <2>1, <1>1, HandleKeeps DEF SubagentTypeOK
<1> QED BY <1>1, CompleteKeeps, HandleKeeps DEF SubagentTypeOK

LEMMA StepTyped ==
  ASSUME SubagentTypeOK, [SubagentNext]_subagentVars
  PROVE  SubagentTypeOK'
<1>1. CASE UNCHANGED subagentVars
  BY <1>1 DEF subagentVars, SubagentTypeOK
<1>2. ASSUME NEW hook \in Hooks, NEW a \in Agents, Arrive(hook, a)
      PROVE  SubagentTypeOK'
  BY <1>2 DEF Arrive, SubagentTypeOK, Request
<1>3. ASSUME NEW r \in inflight, Lose(r)
      PROVE  SubagentTypeOK'
  BY <1>3 DEF Lose, SubagentTypeOK
<1>4. ASSUME NEW r \in inflight, Serve(r)
      PROVE  SubagentTypeOK'
  <2>1. Type[r.agent] \in Names /\ Task[r.agent] \in Names /\ r.agent \in Agents
    BY SubagentAssumption DEF SubagentTypeOK, Request
  <2> QED BY <1>4, <2>1, ServeCases, SpawnTyped, CompleteTyped
<1> QED BY <1>1, <1>2, <1>3, <1>4 DEF SubagentNext

\* The entries, the requests and the history are typed, for any agents, names
\* and number of requests.
THEOREM SubagentsTyped == SubagentSpec => []SubagentTypeOK
<1>1. SubagentInit => SubagentTypeOK
  <2> SUFFICES ASSUME SubagentInit PROVE SubagentTypeOK
    OBVIOUS
  <2>1. installed \in SUBSET Hooks
    BY DEF SubagentInit, Hooks
  <2>2. agents \in Seq(Entry) /\ DOMAIN agents = {}
    BY DEF SubagentInit
  <2> QED BY <2>1, <2>2 DEF SubagentInit, SubagentTypeOK
<1> QED BY <1>1, StepTyped, PTL DEF SubagentSpec

-----------------------------------------------------------------------------
\* Only hooks that are installed are sent.
AsInstalled ==
  /\ \A r \in inflight : r.hook \in installed
  /\ \A a \in Agents : handled[a] \subseteq installed

\* Undisturbed stops come after the spawns of their agents.
StopsLast ==
  ~disturbed =>
    \A a \in Agents :
      "subagent-stop" \in handled[a] => installed \cap Spawns \subseteq handled[a]

\* An agent whose subagent-start was handled has an entry with its ID, and only
\* one if it was handled once.
Reported ==
  \A a \in Agents :
    "subagent-start" \in handled[a] => \E i \in DOMAIN agents : agents[i].id = a
ReportedOnce ==
  ~disturbed =>
    \A i, j \in DOMAIN agents :
      (agents[i].id # Nil /\ agents[i].id = agents[j].id) => i = j

Matching == AsInstalled /\ StopsLast /\ Reported /\ ReportedOnce /\ StopsCompleteTheirOwn

LEMMA HandleUndisturbed ==
  ASSUME SubagentTypeOK, NEW r \in inflight, Handle(r), ~disturbed'
  PROVE  /\ ~disturbed
         /\ r.hook \notin handled[r.agent]
         /\ r.hook = "subagent-stop" => installed \cap Spawns \subseteq handled[r.agent]
BY DEF Handle

LEMMA HandleKeepsOrder ==
  ASSUME SubagentTypeOK, AsInstalled, StopsLast, NEW r \in inflight, Handle(r)
  PROVE  AsInstalled' /\ StopsLast'
<1>1. AsInstalled'
  BY HandleKeeps DEF AsInstalled, SubagentTypeOK, Request
<1>2. ASSUME ~disturbed', NEW a \in Agents, "subagent-stop" \in handled'[a]
      PROVE  installed \cap Spawns \subseteq handled'[a]
  BY <1>2, HandleKeeps, HandleUndisturbed DEF StopsLast, Request
<1> QED BY <1>1, <1>2, HandleKeeps DEF StopsLast

\* A spawn that no stop can match by ID.
LEMMA ToolKeepsMatching ==
  ASSUME SubagentTypeOK, Matching, NEW r \in inflight, Handle(r), r.hook = "agent-tool",
         NEW type, Spawn(Nil, type, Task[r.agent], r.time)
  PROVE  Matching'
<1> DEFINE n == Len(agents) + 1
<1>1. /\ agents'[n].id = Nil /\ n \notin DOMAIN agents
      /\ DOMAIN agents' = DOMAIN agents \cup {n}
      /\ \A i \in DOMAIN agents : agents'[i] = agents[i]
  BY SpawnAppends
<1> HIDE DEF n
<1>2. \A a \in Agents : \A hook \in {"subagent-start", "subagent-stop"} :
        hook \in handled'[a] <=> hook \in handled[a]
  BY HandleKeeps DEF Request
<1>3. \A i \in DOMAIN agents : agents[i].id # Nil => agents[i].id \in Agents
  BY EntryTyped DEF Entry
<1>4. Reported'
  BY <1>1, <1>2 DEF Matching, Reported
<1>5. ReportedOnce'
  BY <1>1, HandleUndisturbed DEF Matching, ReportedOnce
<1>6. StopsCompleteTheirOwn'
  BY <1>1, <1>2, <1>3, HandleUndisturbed DEF Matching, StopsCompleteTheirOwn
<1> QED BY <1>4, <1>5, <1>6, HandleKeepsOrder DEF Matching

\* A subagent-start that is handled once comes before the stop of its agent.
LEMMA StartKeepsMatching ==
  ASSUME SubagentTypeOK, Matching, NEW r \in inflight, Handle(r), r.hook = "subagent-start",
         Spawn(r.agent, Type[r.agent], Type[r.agent], r.time)
  PROVE  Matching'
<1> DEFINE n == Len(agents) + 1
<1>1. /\ agents'[n].id = r.agent /\ agents'[n].status = "working" /\ n \notin DOMAIN agents
      /\ DOMAIN agents' = DOMAIN agents \cup {n}
      /\ \A i \in DOMAIN agents : agents'[i] = agents[i]
  BY SpawnAppends
<1> HIDE DEF n
<1>2. /\ r.agent \in Agents
      /\ \A i \in DOMAIN agents : agents[i].id # Nil => agents[i].id \in Agents
  BY EntryTyped, HandleKeeps DEF Entry, Request
<1>3. Reported'
  <2>1. ASSUME NEW a \in Agents, "subagent-start" \in handled'[a]
        PROVE  \E i \in DOMAIN agents' : agents'[i].id = a
    <3>1. CASE a = r.agent
      BY <3>1, <1>1
    <3>2. CASE a # r.agent
      BY <3>2, <2>1, <1>1, HandleKeeps DEF Matching, Reported
    <3> QED BY <3>1, <3>2
  <2> QED BY <2>1 DEF Reported
<1>4. ASSUME ~disturbed'
      PROVE  /\ "subagent-stop" \notin handled'[r.agent]
             /\ \A i \in DOMAIN agents : agents[i].id # r.agent
  <2>1. ~disturbed /\ "subagent-start" \notin handled[r.agent] /\ "subagent-start" \in installed
    BY <1>4, HandleUndisturbed DEF Matching, AsInstalled
  <2>2. "subagent-stop" \notin handled[r.agent]
    BY <2>1, <1>2 DEF Matching, StopsLast, Spawns
  <2>3. \A i \in DOMAIN agents : agents[i].id # r.agent
    BY <2>1, <1>2, SubagentAssumption DEF SubagentTypeOK
  <2> QED BY <2>2, <2>3, HandleKeeps
<1>5. ReportedOnce'
  BY <1>1, <1>4, HandleUndisturbed DEF Matching, ReportedOnce
<1>6. ASSUME ~disturbed', NEW i \in DOMAIN agents', agents'[i].id # Nil
      PROVE  agents'[i].status = "completed" <=> "subagent-stop" \in handled'[agents'[i].id]
  <2>1. CASE i = n
    BY <2>1, <1>1, <1>4, <1>6
  <2>2. CASE i \in DOMAIN agents
    <3>1. agents'[i] = agents[i] /\ agents[i].id \in Agents \ {r.agent}
      BY <2>2, <1>1, <1>2, <1>4, <1>6
    <3> QED BY <2>2, <3>1, <1>6, HandleKeeps, HandleUndisturbed
            DEF Matching, StopsCompleteTheirOwn
  <2> QED BY <2>1, <2>2, <1>1
<1> QED BY <1>3, <1>5, <1>6, HandleKeepsOrder DEF Matching, StopsCompleteTheirOwn

\* The exact match finds the entry of the agent that has stopped, if there is one.
LEMMA StopKeepsMatching ==
  ASSUME SubagentTypeOK, Matching, NEW r \in inflight, Handle(r), r.hook = "subagent-stop",
         NEW description, NEW type, Complete(Match(r.agent, description, type))
  PROVE  Matching'
<1> DEFINE found == Match(r.agent, description, type)
<1>1. /\ DOMAIN agents' = DOMAIN agents
      /\ \A i \in DOMAIN agents : agents'[i].id = agents[i].id
  BY CompleteKeeps
<1>2. \A i \in DOMAIN agents : agents[i] \in Entry
  BY EntryTyped
<1>3. r.agent \in Agents
  BY HandleKeeps DEF Request
<1>4. Reported'
  BY <1>1, HandleKeeps DEF Matching, Reported
<1>5. ReportedOnce'
  BY <1>1, HandleUndisturbed DEF Matching, ReportedOnce
<1>6. ASSUME ~disturbed', NEW i \in DOMAIN agents, agents[i].id # Nil
      PROVE  agents'[i].status = "completed" <=> "subagent-stop" \in handled'[agents[i].id]
  <2>1. /\ ~disturbed /\ "subagent-stop" \notin handled[r.agent]
        /\ installed \cap Spawns \subseteq handled[r.agent]
    BY <1>6, HandleUndisturbed
  <2>2. agents[i].id \in Agents
    BY <1>2, <1>6 DEF Entry
  <2>3. "subagent-start" \in installed
    BY <2>2, <1>6 DEF Matching, AsInstalled, SubagentTypeOK
  <2>4. PICK k \in DOMAIN agents : agents[k].id = r.agent
    BY <2>1, <2>3, <1>3 DEF Matching, Reported, Spawns
  <2>5. agents[k].status = "working"
    BY <2>1, <2>4, <1>2, <1>3, SubagentAssumption
       DEF Matching, StopsCompleteTheirOwn, Entry
  <2>6. WithID(r.agent) = {k}
    BY <2>1, <2>4, <2>5, <1>3, SubagentAssumption
       DEF Matching, ReportedOnce, WithID, Working
  <2>7. found = {k}
    <3>1. k \in Int
      BY SeqDef DEF SubagentTypeOK
    <3> QED BY <2>6, <3>1 DEF Match, First
  <2>8. CASE i = k
    BY <2>8, <2>4, <2>7, CompleteKeeps, HandleKeeps
  <2>9. CASE i # k
    <3>1. agents'[i] = agents[i]
      BY <2>7, <2>9, CompleteKeeps
    <3>2. agents[i].id # r.agent
      BY <2>1, <2>4, <2>9, <1>6 DEF Matching, ReportedOnce
    <3>3. handled'[agents[i].id] = handled[agents[i].id]
      BY <2>2, <3>2, HandleKeeps
    <3> QED BY <2>1, <3>1, <3>3, <1>6 DEF Matching, StopsCompleteTheirOwn
  <2> QED BY <2>8, <2>9
<1> QED BY <1>1, <1>4, <1>5, <1>6, HandleKeepsOrder DEF Matching, StopsCompleteTheirOwn

LEMMA StepKeepsMatching ==
  ASSUME SubagentTypeOK, Matching, [SubagentNext]_subagentVars
  PROVE  Matching'
<1>1. CASE UNCHANGED subagentVars
  BY <1>1 DEF subagentVars, Matching, AsInstalled, StopsLast, Reported, ReportedOnce,
              StopsCompleteTheirOwn
<1>2. ASSUME NEW hook \in Hooks, NEW a \in Agents, Arrive(hook, a)
      PROVE  Matching'
  BY <1>2 DEF Arrive, Matching, AsInstalled, StopsLast, Reported, ReportedOnce,
              StopsCompleteTheirOwn
<1>3. ASSUME NEW r \in inflight, Lose(r)
      PROVE  Matching'
  BY <1>3 DEF Lose, Matching, AsInstalled, StopsLast, Reported, ReportedOnce,
              StopsCompleteTheirOwn
<1>4. ASSUME NEW r \in inflight, Serve(r)
      PROVE  Matching'
  <2>1. CASE r.hook = "agent-tool"
    BY <1>4, <2>1, ServeCases, ToolKeepsMatching
  <2>2. CASE r.hook = "subagent-start"
    BY <1>4, <2>2, ServeCases, StartKeepsMatching
  <2>3. CASE r.hook = "subagent-stop"
    BY <1>4, <2>3, ServeCases, StopKeepsMatching
  <2> QED BY <1>4, <2>1, <2>2, <2>3, ServeCases
<1> QED BY <1>1, <1>2, <1>3, <1>4 DEF SubagentNext

\* As long as each hook is handled once and stops come last, a stop completes the
\* entry of its own agent, for any agents of whatever types and descriptions.
THEOREM StopsMatchExactly == SubagentSpec => []StopsCompleteTheirOwn
<1>1. SubagentInit => Matching
  BY DEF SubagentInit, Matching, AsInstalled, StopsLast, Reported, ReportedOnce,
         StopsCompleteTheirOwn
<1>2. Matching => StopsCompleteTheirOwn
  BY DEF Matching
<1> QED BY <1>1, <1>2, StepKeepsMatching, SubagentsTyped, PTL DEF SubagentSpec

-----------------------------------------------------------------------------
\* Spawns read the clock one after the other, each its own time.
Timed ==
  /\ \A i \in DOMAIN agents : agents[i].time <= clock
  /\ \A r \in inflight : r.hook \in Spawns => r.time <= clock
ReadOnce ==
  /\ \A i, j \in DOMAIN agents : agents[i].time = agents[j].time => i = j
  /\ \A r, q \in inflight :
       (r.hook \in Spawns /\ q.hook \in Spawns /\ r.time = q.time) => r = q
  /\ \A r \in inflight : r.hook \in Spawns => \A i \in DOMAIN agents : agents[i].time # r.time

\* Some hook reports the agents before they stop, and each agent that was
\* reported has brought an entry.
SpawnInstalled == installed \cap Spawns # {}
Known == {a \in Agents : handled[a] \cap Spawns # {}}
EntryForEach == IsFiniteSet(Known) /\ Cardinality(Known) <= Len(agents)

Balance == Timed /\ ReadOnce /\ SpawnInstalled /\ EntryForEach /\ StopsBalance

Stopped == {a \in Agents : "subagent-stop" \in handled[a]}
Done    == DOMAIN agents \ Working

-----------------------------------------------------------------------------
LEMMA LeastNumber ==
  ASSUME NEW S \in SUBSET Nat, S # {}
  PROVE  \E n \in S : \A m \in S : n <= m
<1>1. PICK n \in S : \A m \in S : ~ (<<m, n>> \in OpToRel(<, Nat))
  <2> DEFINE R == OpToRel(<, Nat)
  <2>1. IsWellFoundedOn(R, Nat)
    BY NatLessThanWellFounded
  <2> HIDE DEF R
  <2>2. \E n \in S : \A m \in S : ~ (<<m, n>> \in R)
    BY <2>1, WFMin
  <2> QED BY <2>2 DEF R
<1>2. \A m \in S : m < n => <<m, n>> \in OpToRel(<, Nat)
  BY DEF OpToRel
<1>3. n \in Nat /\ \A m \in S : m \in Nat
  OBVIOUS
<1>4. ASSUME NEW m \in S PROVE n <= m
  <2>1. ~ (m < n)
    BY <1>1, <1>2
  <2> QED BY <2>1, <1>3
<1> QED BY <1>4

\* Every strategy that finds an entry chooses one, and one that is working.
LEMMA MatchesOne ==
  ASSUME SubagentTypeOK, ReadOnce, Working # {},
         NEW a, NEW description, NEW type
  PROVE  \E k \in Working : Match(a, description, type) = {k}
<1>1. \A i \in DOMAIN agents : i \in Nat /\ agents[i].time \in Nat
  BY EntryTyped, SeqDef DEF SubagentTypeOK, Entry
<1>2. ASSUME NEW found \in SUBSET Working, found # {}
      PROVE  \E k \in Working : First(found) = {k}
  <2>1. found \in SUBSET Nat
    BY <1>1 DEF Working
  <2>2. PICK k \in found : \A j \in found : k <= j
    BY <1>2, <2>1, LeastNumber
  <2>3. \A i \in found : (\A j \in found : i <= j) <=> i = k
    BY <2>1, <2>2
  <2>4. First(found) = {k}
    BY <2>3 DEF First
  <2> QED BY <2>4
<1>3. \E k \in Working : Oldest(Working) = {k}
  <2> DEFINE times == {agents[i].time : i \in Working}
  <2>1. times \in SUBSET Nat /\ times # {}
    BY <1>1 DEF Working
  <2>2. PICK t \in times : \A u \in times : t <= u
    BY <2>1, LeastNumber
  <2>3. PICK k \in Working : t = agents[k].time
    BY <2>2
  <2>4. \A j \in Working : agents[k].time <= agents[j].time
    BY <2>2, <2>3
  <2>5. Oldest(Working) = {k}
    BY <1>1, <2>4 DEF Oldest, Working, ReadOnce
  <2> QED BY <2>5
<1> QED BY <1>2, <1>3 DEF Match, WithID, WithDescription, WithType

-----------------------------------------------------------------------------
\* What handling a request does to the agents that are counted.
LEMMA HandleCounts ==
  ASSUME SubagentTypeOK, NEW r \in inflight, Handle(r)
  PROVE  /\ r.hook \in Spawns => Known' \subseteq Known \cup {r.agent} /\ Stopped' = Stopped
         /\ r.hook = "subagent-stop" => Known' = Known /\ Stopped' = Stopped \cup {r.agent}
<1>1. /\ r.agent \in Agents /\ r.hook \in Hooks
      /\ handled' = [handled EXCEPT ![r.agent] = @ \cup {r.hook}]
      /\ handled \in [Agents -> SUBSET Hooks]
  BY DEF SubagentTypeOK, Handle, Request
<1>2. \A a \in Agents :
        handled'[a] = IF a = r.agent THEN handled[a] \cup {r.hook} ELSE handled[a]
  BY <1>1
<1>3. r.hook \in Spawns => Known' \subseteq Known \cup {r.agent} /\ Stopped' = Stopped
  BY <1>1, <1>2 DEF Known, Stopped, Spawns
<1>4. r.hook = "subagent-stop" => Known' = Known /\ Stopped' = Stopped \cup {r.agent}
  BY <1>1, <1>2 DEF Known, Stopped, Spawns
<1> QED BY <1>3, <1>4

LEMMA DoneFinite ==
  ASSUME SubagentTypeOK
  PROVE  /\ IsFiniteSet(DOMAIN agents) /\ Cardinality(DOMAIN agents) = Len(agents)
         /\ IsFiniteSet(Done)
         /\ Len(agents) \in Nat
<1>1. DOMAIN agents = 1 .. Len(agents) /\ Len(agents) \in Nat
  BY DEF SubagentTypeOK
<1>2. IsFiniteSet(1 .. Len(agents)) /\ Cardinality(1 .. Len(agents)) = Len(agents)
  <2> DEFINE n == Len(agents)
  <2>1. n \in Nat
    BY <1>1
  <2> HIDE DEF n
  <2>2. /\ IsFiniteSet(1 .. n)
        /\ Cardinality(1 .. n) = IF 1 > n THEN 0 ELSE n - 1 + 1
    BY <2>1, FS_Interval
  <2>3. IsFiniteSet(1 .. n) /\ Cardinality(1 .. n) = n
    BY <2>1, <2>2
  <2> QED BY <2>3 DEF n
<1>3. Done \in SUBSET DOMAIN agents
  BY DEF Done
<1> QED BY <1>1, <1>2, <1>3, FS_Subset

\* A spawn brings one entry, with a time of its own, for one agent.
LEMMA SpawnKeepsBalance ==
  ASSUME SubagentTypeOK, SubagentTypeOK', Balance, NEW r \in inflight, Handle(r),
         r.hook \in Spawns,
         NEW id, NEW type, NEW description, Spawn(id, type, description, r.time)
  PROVE  Balance'
<1> DEFINE n == Len(agents) + 1
<1>1. /\ agents'[n].status = "working" /\ n \notin DOMAIN agents
      /\ DOMAIN agents' = DOMAIN agents \cup {n}
      /\ \A i \in DOMAIN agents : agents'[i] = agents[i]
      /\ agents'[n] = [id |-> id, type |-> type, description |-> description,
                       status |-> "working", time |-> r.time]
  BY SpawnAppends
<1>2. agents'[n].time = r.time
  BY <1>1
<1>3. Len(agents') = Len(agents) + 1
  BY DEF Spawn, SubagentTypeOK
<1> HIDE DEF n
<1>4. Timed'
  BY <1>1, <1>2, HandleKeeps DEF Balance, Timed
<1>5. ReadOnce'
  BY <1>1, <1>2, HandleKeeps DEF Balance, ReadOnce, Handle
<1>6. EntryForEach'
  <2>1. IsFiniteSet(Known \cup {r.agent}) /\ Cardinality(Known \cup {r.agent}) <= Len(agents')
    <3>1. IsFiniteSet(Known) /\ Cardinality(Known) <= Len(agents) /\ Len(agents) \in Nat
      BY DoneFinite DEF Balance, EntryForEach
    <3>2. Cardinality(Known) \in Nat
      BY <3>1, FS_CardinalityType
    <3>3. /\ IsFiniteSet(Known \cup {r.agent})
          /\ \/ Cardinality(Known \cup {r.agent}) = Cardinality(Known)
             \/ Cardinality(Known \cup {r.agent}) = Cardinality(Known) + 1
      BY <3>1, FS_AddElement
    <3> QED BY <1>3, <3>1, <3>2, <3>3
  <2>2. Known' \in SUBSET (Known \cup {r.agent})
    BY HandleCounts
  <2>3. IsFiniteSet(Known') /\ Cardinality(Known') <= Cardinality(Known \cup {r.agent})
    BY <2>1, <2>2, FS_Subset
  <2> QED BY <2>1, <2>3, FS_CardinalityType, DoneFinite, <1>3 DEF EntryForEach
<1>7. StopsBalance'
  <2>1. Done' = Done
    BY <1>1 DEF Done, Working
  <2> QED BY <2>1, HandleCounts, HandleUndisturbed DEF Balance, StopsBalance, Done, Stopped
<1> QED BY <1>4, <1>5, <1>6, <1>7, HandleKeeps DEF Balance, SpawnInstalled

\* An undisturbed stop finds an entry that is working: more agents are known than
\* have stopped.  So it completes one more, for one more agent.
LEMMA StopKeepsBalance ==
  ASSUME SubagentTypeOK, StopsLast, Balance, NEW r \in inflight, Handle(r),
         r.hook = "subagent-stop",
         NEW description, NEW type, Complete(Match(r.agent, description, type))
  PROVE  Balance'
<1>1. /\ DOMAIN agents' = DOMAIN agents
      /\ \A i \in DOMAIN agents : agents'[i].time = agents[i].time
      /\ Len(agents') = Len(agents)
  <2>1. DOMAIN agents' = 1 .. Len(agents') /\ Len(agents') \in Nat
    BY CompleteKeeps
  <2> QED BY <2>1, CompleteKeeps, DoneFinite DEF SubagentTypeOK
<1>2. Timed'
  BY <1>1, HandleKeeps DEF Balance, Timed
<1>3. ReadOnce'
  BY <1>1, HandleKeeps DEF Balance, ReadOnce
<1>4. EntryForEach'
  BY <1>1, HandleCounts DEF Balance, EntryForEach
<1>5. ASSUME ~disturbed'
      PROVE  Cardinality(Done') = Cardinality(Stopped')
  <2>1. /\ ~disturbed /\ r.agent \notin Stopped /\ r.agent \in Agents
        /\ installed \cap Spawns \subseteq handled[r.agent]
    BY <1>5, HandleUndisturbed, HandleKeeps DEF Stopped, Request
  <2>2. Stopped \cup {r.agent} \in SUBSET Known
    BY <2>1 DEF StopsLast, Stopped, Known, Balance, SpawnInstalled
  <2>3. /\ IsFiniteSet(Stopped) /\ Cardinality(Stopped) \in Nat
        /\ Cardinality(Stopped \cup {r.agent}) = Cardinality(Stopped) + 1
        /\ Cardinality(Stopped \cup {r.agent}) <= Cardinality(Known)
        /\ Cardinality(Known) \in Nat
    <3>1. IsFiniteSet(Known)
      BY DEF Balance, EntryForEach
    <3>2. IsFiniteSet(Stopped)
      BY <2>2, <3>1, FS_Subset
    <3> QED BY <2>1, <2>2, <3>1, <3>2, FS_Subset, FS_AddElement, FS_CardinalityType
  <2>4. Cardinality(Done) = Cardinality(Stopped)
    BY <2>1 DEF Balance, StopsBalance, Done, Stopped
  <2>5. Working # {}
    <3>1. Working = {} => Cardinality(Done) = Len(agents)
      BY DoneFinite DEF Done
    <3> QED BY <3>1, <2>3, <2>4, DoneFinite DEF Balance, EntryForEach
  <2>6. PICK k \in Working : Match(r.agent, description, type) = {k}
    BY <2>5, MatchesOne DEF Balance
  <2>7. /\ agents'[k].status = "completed"
        /\ \A i \in DOMAIN agents \ {k} : agents'[i] = agents[i]
        /\ k \in DOMAIN agents
    BY <2>6, CompleteKeeps DEF Working
  <2>8. Done' = Done \cup {k} /\ k \notin Done
    BY <1>1, <2>6, <2>7 DEF Done, Working
  <2>9. Cardinality(Done') = Cardinality(Done) + 1
    BY <2>8, DoneFinite, FS_AddElement
  <2> QED BY <2>3, <2>4, <2>9, HandleCounts
<1>6. StopsBalance'
  BY <1>5 DEF StopsBalance, Done, Stopped
<1> QED BY <1>2, <1>3, <1>4, <1>6, HandleKeeps DEF Balance, SpawnInstalled

LEMMA StepKeepsBalance ==
  ASSUME SubagentTypeOK, SubagentTypeOK', Matching, Balance, [SubagentNext]_subagentVars
  PROVE  Balance'
<1> USE DEF Balance, Timed, ReadOnce, SpawnInstalled, EntryForEach, StopsBalance,
            Known, Working
<1>1. CASE UNCHANGED subagentVars
  BY <1>1 DEF subagentVars
<1>2. ASSUME NEW hook \in Hooks, NEW a \in Agents, Arrive(hook, a)
      PROVE  Balance'
  <2>1. /\ \A i \in DOMAIN agents : agents[i].time \in Nat
        /\ \A r \in inflight : r.time \in Nat
        /\ clock \in Nat
    BY EntryTyped DEF SubagentTypeOK, Entry, Request
  <2>2. EntryForEach' /\ StopsBalance' /\ SpawnInstalled'
    BY <1>2 DEF Arrive
  <2> DEFINE new == [hook |-> hook, agent |-> a,
                     time |-> IF hook \in Spawns THEN clock + 1 ELSE 0]
  <2>3. /\ inflight' = inflight \cup {new} /\ UNCHANGED agents
        /\ clock' = IF hook \in Spawns THEN clock + 1 ELSE clock
    BY <1>2 DEF Arrive
  <2>4. /\ new.hook = hook /\ (hook \in Spawns => new.time = clock + 1)
    OBVIOUS
  <2> HIDE DEF new
  <2>5. Timed' /\ ReadOnce'
    BY <2>1, <2>3, <2>4
  <2> QED BY <2>2, <2>5
<1>3. ASSUME NEW r \in inflight, Lose(r)
      PROVE  Balance'
  BY <1>3 DEF Lose
<1>4. ASSUME NEW r \in inflight, Serve(r)
      PROVE  Balance'
  BY <1>4, ServeCases, SpawnKeepsBalance, StopKeepsBalance DEF Matching, Spawns
<1> QED BY <1>1, <1>2, <1>3, <1>4 DEF SubagentNext

\* As long as each hook is handled once and stops come last, as many entries are
\* completed as agents have stopped, whichever spawns are installed, whatever
\* fields are missing and however many agents there are: a stop always finds an
\* entry that is working, and completes exactly one.
THEOREM StopsAreCounted == SubagentSpec => []StopsBalance
<1>1. SubagentInit => Matching
  BY DEF SubagentInit, Matching, AsInstalled, StopsLast, Reported, ReportedOnce,
         StopsCompleteTheirOwn
<1>2. ASSUME SubagentInit
      PROVE  Balance
  <2>1. DOMAIN agents = {} /\ Len(agents) = 0 /\ inflight = {}
    BY <1>2 DEF SubagentInit
  <2>2. Known = {} /\ Stopped = {} /\ Done = {}
    BY <1>2, <2>1 DEF SubagentInit, Known, Stopped, Done
  <2>3. SpawnInstalled
    BY <1>2 DEF SubagentInit, SpawnInstalled
  <2>4. EntryForEach
    BY <2>1, <2>2, FS_EmptySet DEF EntryForEach
  <2>5. StopsBalance
    BY <2>2 DEF StopsBalance, Done, Stopped
  <2> QED BY <2>1, <2>3, <2>4, <2>5 DEF Balance, Timed, ReadOnce
<1>3. Balance => StopsBalance
  BY DEF Balance
<1> QED BY <1>1, <1>2, <1>3, StepKeepsMatching, StepKeepsBalance, SubagentsTyped,
           PTL DEF SubagentSpec
=============================================================================
