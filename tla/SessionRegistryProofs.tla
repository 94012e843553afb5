----------------------- MODULE SessionRegistryProofs -----------------------
(***************************************************************************)
(* For every set of session IDs, projects and PIDs, and for every timeout: *)
(* the registry is well typed, its keys match its entries, and two         *)
(* sessions of one project are two Claude windows with different PIDs.     *)
(*                                                                         *)
(* SeparateWindows is not inductive alone.  An upgrade replaces one entry  *)
(* of a project; that no second synthetic entry stays behind follows from  *)
(* KeysMatchSources, by which a project has one synthetic ID per source.   *)
(***************************************************************************)
EXTENDS SessionRegistry, TLAPS

RegistryInv == TypeOK /\ KeysMatchSources /\ SeparateWindows

\* All registry methods except StartSession leave the window an entry stands
\* for alone, or drop the entry.
KeepsWindows ==
  \A id \in SessionIDs :
    sessions'[id] # Nil =>
      /\ sessions[id] # Nil
      /\ sessions'[id].project = sessions[id].project
      /\ sessions'[id].pid = sessions[id].pid
      /\ sessions'[id].source = sessions[id].source

\* Some request starts a session.
Starts ==
  \E id \in SessionIDs, project \in Projects, pid \in Pids :
    MayCarry(id, project) /\ StartSession(id, project, pid)

-----------------------------------------------------------------------------
\* A method that keeps windows keeps the two invariants about windows.
LEMMA WindowsKept ==
  ASSUME KeysMatchSources, SeparateWindows, KeepsWindows
  PROVE  KeysMatchSources' /\ SeparateWindows'
BY DEF KeysMatchSources, SeparateWindows, KeepsWindows, Live, MayCarry

\* A newly started session is a session.
LEMMA FreshType ==
  ASSUME NEW project \in Projects, NEW pid \in Pids, NEW source \in Sources
  PROVE  Fresh(project, pid, source) \in Session
BY RegistryAssumption DEF Fresh, Session, Icons

\* Activity keeps an entry a session of the same window.
LEMMA RefreshedType ==
  ASSUME NEW s \in Session, NEW icon \in Inputs
  PROVE  /\ Refreshed(s, icon) \in Session
         /\ Refreshed(s, icon).project = s.project
         /\ Refreshed(s, icon).pid = s.pid
         /\ Refreshed(s, icon).source = s.source
<1> DEFINE shown == IF icon = NoIcon THEN s.icon ELSE icon
<1>1. shown \in Icons
  BY DEF Inputs, Icons, Session, NoIcon
<1>2. Count(s, shown) \in 0 .. MaxActs
  BY RegistryAssumption DEF Count, Session
<1>3. 0 \in 0 .. RemoveTimeout + 1
  BY RegistryAssumption
<1>4. Refreshed(s, icon) =
        [s EXCEPT !.icon = shown, !.acts = Count(s, shown), !.age = 0, !.status = "active"]
  BY DEF Refreshed
<1> HIDE DEF shown
<1>5. QED BY <1>1, <1>2, <1>3, <1>4 DEF Session

\* Ageing keeps an entry a session of the same window.
LEMMA OlderType ==
  ASSUME NEW s \in Session
  PROVE  /\ Older(s) \in Session
         /\ Older(s).project = s.project
         /\ Older(s).pid = s.pid
         /\ Older(s).source = s.source
<1>1. s.age <= RemoveTimeout => s.age + 1 \in 0 .. RemoveTimeout + 1
  BY RegistryAssumption DEF Session
<1>2. QED BY <1>1, RegistryAssumption DEF Older, Session

\* A method built on Modify writes an entry of the same window, or removes it.
LEMMA ModifyKeeps ==
  ASSUME RegistryInv,
         NEW id \in SessionIDs,
         NEW s,
         sessions[id] # Nil =>
           s = Nil \/ (/\ s \in Session
                       /\ s.project = sessions[id].project
                       /\ s.pid = sessions[id].pid
                       /\ s.source = sessions[id].source),
         Modify(id, s)
  PROVE  TypeOK' /\ KeepsWindows
<1>1. CASE sessions[id] = Nil
  BY <1>1 DEF Modify, RegistryInv, registryVars, TypeOK, KeepsWindows
<1>2. CASE sessions[id] # Nil
  <2>1. sessions' = [sessions EXCEPT ![id] = s] /\ signals' = Channels
    BY <1>2 DEF Modify, NotifyChange
  <2>2. TypeOK'
    BY <1>2, <2>1 DEF RegistryInv, TypeOK
  <2>3. KeepsWindows
    BY <1>2, <2>1 DEF KeepsWindows, RegistryInv, TypeOK
  <2>4. QED BY <2>2, <2>3
<1>3. QED BY <1>1, <1>2

-----------------------------------------------------------------------------
\* An upgrade leaves the project with the upgraded session alone in it.
LEMMA UpgradeKeeps ==
  ASSUME RegistryInv,
         NEW id \in SessionIDs, NEW project \in Projects, NEW pid \in Pids,
         MayCarry(id, project),
         NEW e \in Decisive(project, pid, SourceFromID[id]),
         SourceFromID[id] > sessions[e].source,
         UpgradeSession(e, id, pid, SourceFromID[id])
  PROVE  RegistryInv'
<1> DEFINE source == SourceFromID[id]
           upgraded == [sessions[e] EXCEPT !.pid = pid, !.source = source]
<1>1. /\ e \in SessionIDs /\ sessions[e] # Nil /\ sessions[e].project = project
      /\ source \in Sources
  BY RegistryAssumption DEF Decisive, Live
<1>2. sessions[e] \in Session
  BY <1>1 DEF RegistryInv, TypeOK
<1>3. /\ upgraded \in Session /\ upgraded # Nil
      /\ upgraded.project = project /\ upgraded.pid = pid /\ upgraded.source = source
  BY <1>1, <1>2, RegistryAssumption DEF Session
<1>4. sessions' = [sessions EXCEPT ![e] = Nil, ![id] = upgraded] /\ signals' = Channels
  BY DEF UpgradeSession, NotifyChange
<1>5. e # id /\ sessions[e].source # Claude
  BY <1>1, <1>2 DEF RegistryInv, KeysMatchSources, Live, Session, Sources, Claude, JSONL, HTTP
<1> HIDE DEF source, upgraded
<1>6. /\ sessions'[e] = Nil /\ sessions'[id] = upgraded
      /\ \A i \in SessionIDs \ {e, id} : sessions'[i] = sessions[i]
  BY <1>1, <1>4, <1>5 DEF RegistryInv, TypeOK
<1>7. TypeOK'
  BY <1>1, <1>3, <1>4 DEF RegistryInv, TypeOK
<1>8. KeysMatchSources'
  BY <1>3, <1>6 DEF RegistryInv, KeysMatchSources, Live, MayCarry, source
<1>9. \A i \in Live : i # e => sessions[i].project # project
  BY <1>1, <1>5 DEF RegistryInv, SeparateWindows, Live
<1>10. \A a \in Live' : a # id => a \in Live /\ a # e /\ sessions'[a] = sessions[a]
  BY <1>6 DEF Live
<1>11. SeparateWindows'
  <2> SUFFICES ASSUME NEW a \in Live', NEW b \in Live', a # b,
                      sessions'[a].project = sessions'[b].project
               PROVE  /\ sessions'[a].source = Claude /\ sessions'[b].source = Claude
                      /\ sessions'[a].pid # sessions'[b].pid
                      /\ 0 \notin {sessions'[a].pid, sessions'[b].pid}
    BY DEF SeparateWindows
  <2>1. a # id /\ b # id
    BY <1>3, <1>6, <1>9, <1>10
  <2>2. QED BY <2>1, <1>10 DEF RegistryInv, SeparateWindows
<1>12. QED BY <1>7, <1>8, <1>11 DEF RegistryInv

\* A session that is created joins only other windows of equal rank.
LEMMA CreateKeeps ==
  ASSUME RegistryInv,
         NEW id \in SessionIDs, NEW project \in Projects, NEW pid \in Pids,
         MayCarry(id, project),
         Decisive(project, pid, SourceFromID[id]) = {},
         sessions' = [sessions EXCEPT ![id] = Fresh(project, pid, SourceFromID[id])],
         NotifyChange
  PROVE  RegistryInv'
<1> DEFINE source == SourceFromID[id]
           new == Fresh(project, pid, source)
<1>1. source \in Sources
  BY RegistryAssumption
<1>2. new \in Session /\ new # Nil
  BY <1>1, FreshType, RegistryAssumption
<1>3. new.project = project /\ new.pid = pid /\ new.source = source
  BY DEF Fresh
<1>4. sessions' = [sessions EXCEPT ![id] = new] /\ signals' = Channels
  BY DEF NotifyChange
<1>5. \A i \in Live : sessions[i].project = project =>
        /\ sessions[i].source = source /\ sessions[i].pid # pid
        /\ 0 \notin {pid, sessions[i].pid}
  BY DEF Decisive
<1>6. \A i \in Live : sessions[i].project = project /\ i # id => source = Claude
  BY <1>5 DEF RegistryInv, KeysMatchSources, MayCarry
<1> HIDE DEF source, new
<1>7. TypeOK'
  BY <1>2, <1>4 DEF RegistryInv, TypeOK
<1>8. sessions'[id] = new /\ \A i \in SessionIDs \ {id} : sessions'[i] = sessions[i]
  BY <1>4 DEF RegistryInv, TypeOK
<1>9. KeysMatchSources'
  BY <1>3, <1>8 DEF RegistryInv, KeysMatchSources, Live, MayCarry, source
<1>10. SeparateWindows'
  BY <1>3, <1>5, <1>6, <1>8 DEF RegistryInv, SeparateWindows, Live
<1>11. QED BY <1>7, <1>9, <1>10 DEF RegistryInv

\* StartSession keeps the invariant whichever session its loop stops at.
LEMMA StartKeeps ==
  ASSUME RegistryInv,
         NEW id \in SessionIDs, NEW project \in Projects, NEW pid \in Pids,
         MayCarry(id, project),
         StartSession(id, project, pid)
  PROVE  RegistryInv'
<1>1. CASE /\ Decisive(project, pid, SourceFromID[id]) = {}
           /\ sessions' = [sessions EXCEPT ![id] = Fresh(project, pid, SourceFromID[id])]
           /\ NotifyChange
  BY <1>1, CreateKeeps
<1>2. CASE \E e \in Decisive(project, pid, SourceFromID[id]) :
             IF SourceFromID[id] > sessions[e].source
               THEN UpgradeSession(e, id, pid, SourceFromID[id])
               ELSE UNCHANGED registryVars
  <2>1. PICK e \in Decisive(project, pid, SourceFromID[id]) :
          IF SourceFromID[id] > sessions[e].source
            THEN UpgradeSession(e, id, pid, SourceFromID[id])
            ELSE UNCHANGED registryVars
    BY <1>2
  <2>2. CASE SourceFromID[id] > sessions[e].source
    BY <2>1, <2>2, UpgradeKeeps
  <2>3. CASE ~(SourceFromID[id] > sessions[e].source)
    BY <2>1, <2>3 DEF registryVars, RegistryInv, TypeOK, KeysMatchSources,
                      SeparateWindows, Live, MayCarry
  <2>4. QED BY <2>2, <2>3
<1>3. QED BY <1>1, <1>2 DEF StartSession

-----------------------------------------------------------------------------
\* Every other step is well typed and keeps the windows.
LEMMA OtherStepsKeep ==
  ASSUME RegistryInv, [RegistryNext]_registryVars, ~Starts
  PROVE  TypeOK' /\ KeepsWindows
<1>0. \A id \in SessionIDs : sessions[id] # Nil => sessions[id] \in Session
  BY DEF RegistryInv, TypeOK
<1>1. ASSUME NEW id \in SessionIDs, NEW icon \in Inputs, UpdateActivity(id, icon)
      PROVE  TypeOK' /\ KeepsWindows
  BY <1>0, <1>1, RefreshedType, ModifyKeeps DEF UpdateActivity
<1>2. ASSUME NEW id \in SessionIDs, Touch(id)
      PROVE  TypeOK' /\ KeepsWindows
  <2>1. \A s \in Session : [s EXCEPT !.age = 0] \in Session
    BY RegistryAssumption DEF Session
  <2>2. TypeOK'
    BY <1>0, <1>2, <2>1 DEF Touch, RegistryInv, TypeOK
  <2>3. KeepsWindows
    BY <1>0, <1>2 DEF Touch, KeepsWindows, RegistryInv, TypeOK, Session
  <2>4. QED BY <2>2, <2>3
<1>3. ASSUME NEW id \in SessionIDs, NEW what, Learn(id, what)
      PROVE  TypeOK' /\ KeepsWindows
  <2> DEFINE s == [sessions[id] EXCEPT !.known = @ \cup ({what} \cap Tracked)]
  <2>1. sessions[id] # Nil => /\ s \in Session
                              /\ s.project = sessions[id].project
                              /\ s.pid = sessions[id].pid
                              /\ s.source = sessions[id].source
    BY <1>0 DEF Session
  <2>2. Modify(id, s)
    BY <1>3 DEF Learn
  <2> HIDE DEF s
  <2>3. QED BY <2>1, <2>2, ModifyKeeps
<1>4. ASSUME NEW id \in SessionIDs, EndSession(id)
      PROVE  TypeOK' /\ KeepsWindows
  BY <1>4, ModifyKeeps DEF EndSession
<1>5. ASSUME NEW id \in SessionIDs, TransitionToIdle(id)
      PROVE  TypeOK' /\ KeepsWindows
  <2> DEFINE s == [sessions[id] EXCEPT !.status = "idle", !.icon = "idle"]
  <2>1. sessions[id] # Nil => /\ s \in Session
                              /\ s.project = sessions[id].project
                              /\ s.pid = sessions[id].pid
                              /\ s.source = sessions[id].source
    BY <1>0 DEF Session, Icons
  <2>2. Modify(id, s)
    BY <1>5 DEF TransitionToIdle
  <2> HIDE DEF s
  <2>3. QED BY <2>1, <2>2, ModifyKeeps
<1>6. ASSUME NEW source \in Sources, RemoveSessionsBySource(source)
      PROVE  TypeOK' /\ KeepsWindows
  BY <1>6 DEF RemoveSessionsBySource, NotifyChange, RegistryInv, TypeOK,
              KeepsWindows, registryVars
<1>7. CASE Tick
  <2>1. TypeOK'
    BY <1>0, <1>7, OlderType DEF Tick, RegistryInv, TypeOK
  <2>2. KeepsWindows
    BY <1>0, <1>7, OlderType DEF Tick, KeepsWindows
  <2>3. QED BY <2>1, <2>2
<1>8. CASE OnAutoExit \/ (\E channel \in Channels : Receive(channel)) \/ UNCHANGED registryVars
  BY <1>8 DEF OnAutoExit, Receive, registryVars, RegistryInv, TypeOK, KeepsWindows
<1>9. QED
  BY <1>1, <1>2, <1>3, <1>4, <1>5, <1>6, <1>7, <1>8
     DEF RegistryNext, RegistryCall, Starts, UpdateSessionData, UpdateTranscriptPath, UpdateAnalytics

\* RegistryInv is inductive: no method of the registry breaks it.
LEMMA RegistryStep == RegistryInv /\ [RegistryNext]_registryVars => RegistryInv'
<1> SUFFICES ASSUME RegistryInv, [RegistryNext]_registryVars
             PROVE  RegistryInv'
  OBVIOUS
<1>1. CASE Starts
  BY <1>1, StartKeeps DEF Starts
<1>2. CASE ~Starts
  BY <1>2, OtherStepsKeep, WindowsKept DEF RegistryInv
<1>3. QED BY <1>1, <1>2

\* The invariant holds in every state the registry can reach.
THEOREM RegistryInvariant == RegistrySpec => []RegistryInv
<1>1. RegistryInit => RegistryInv
  BY DEF RegistryInit, RegistryInv, TypeOK, KeysMatchSources, SeparateWindows, Live
<1>2. QED BY <1>1, RegistryStep, PTL DEF RegistrySpec

\* The registry is well typed.
THEOREM RegistryTyped == RegistrySpec => []TypeOK
<1>1. RegistryInv => TypeOK
  BY DEF RegistryInv
<1>2. QED BY <1>1, RegistryInvariant, PTL

\* Keys and entries agree: no upgrade leaves an entry under a foreign key.
THEOREM RegistryKeys == RegistrySpec => []KeysMatchSources
<1>1. RegistryInv => KeysMatchSources
  BY DEF RegistryInv
<1>2. QED BY <1>1, RegistryInvariant, PTL

\* Two sessions of a project are two Claude windows with different PIDs.
THEOREM RegistrySeparatesWindows == RegistrySpec => []SeparateWindows
<1>1. RegistryInv => SeparateWindows
  BY DEF RegistryInv
<1>2. QED BY <1>1, RegistryInvariant, PTL

-----------------------------------------------------------------------------
\* The two ways in which StartSession changes the map.
Creates(id, project, pid) ==
  /\ \A e \in Live : sessions[e].project = project =>
                       sessions[e].source = SourceFromID[id]
  /\ sessions' = [sessions EXCEPT ![id] = Fresh(project, pid, SourceFromID[id])]

Rekeyed(s, pid, source) == [s EXCEPT !.pid = pid, !.source = source]

Upgrades(e, id, project, pid) ==
  /\ sessions[e].project = project
  /\ SourceFromID[id] > sessions[e].source
  /\ sessions' = [sessions EXCEPT
                    ![e]  = Nil,
                    ![id] = Rekeyed(sessions[e], pid, SourceFromID[id])]

\* A re-keyed session keeps everything but its PID and its source.
LEMMA RekeyedFields ==
  ASSUME NEW s \in Session, NEW pid \in Pids, NEW source \in Sources
  PROVE  LET r == Rekeyed(s, pid, source)
         IN  /\ r \in Session
             /\ r.project = s.project /\ r.source = source
             /\ r.acts = s.acts /\ r.known = s.known /\ r.age = s.age
BY DEF Rekeyed, Session

\* A StartSession that changes the map does one or the other.
LEMMA StartEffect ==
  ASSUME NEW id \in SessionIDs, NEW project \in Projects, NEW pid \in Pids,
         StartSession(id, project, pid),
         sessions' # sessions
  PROVE  Creates(id, project, pid) \/ \E e \in Live : Upgrades(e, id, project, pid)
<1>1. CASE Decisive(project, pid, SourceFromID[id]) = {} /\
           sessions' = [sessions EXCEPT ![id] = Fresh(project, pid, SourceFromID[id])]
  BY <1>1 DEF Decisive, Creates
<1>2. ASSUME NEW e \in Decisive(project, pid, SourceFromID[id]),
             IF SourceFromID[id] > sessions[e].source
               THEN UpgradeSession(e, id, pid, SourceFromID[id])
               ELSE UNCHANGED registryVars
      PROVE  e \in Live /\ Upgrades(e, id, project, pid)
  <2>1. e \in Live /\ sessions[e].project = project
    BY DEF Decisive
  <2>2. /\ SourceFromID[id] > sessions[e].source
        /\ UpgradeSession(e, id, pid, SourceFromID[id])
    BY <1>2 DEF registryVars
  <2>3. QED BY <2>1, <2>2 DEF UpgradeSession, Upgrades, Rekeyed
<1>3. QED BY <1>1, <1>2 DEF StartSession

\* The newcomer of a step is never outranked.
LEMMA NoDowngradeStep ==
  ASSUME RegistryInv, [RegistryNext]_registryVars,
         NEW id \in SessionIDs, sessions[id] = Nil, sessions'[id] # Nil,
         NEW e \in Live, sessions[e].project = sessions'[id].project
  PROVE  sessions[e].source <= sessions'[id].source
<1>1. Starts
  BY OtherStepsKeep DEF KeepsWindows
<1>2. PICK i \in SessionIDs, project \in Projects, pid \in Pids :
        MayCarry(i, project) /\ StartSession(i, project, pid)
  BY <1>1 DEF Starts
<1>3. sessions' # sessions
  OBVIOUS
<1>4. sessions[e] \in Session /\ SourceFromID[i] \in Sources
  BY RegistryAssumption DEF RegistryInv, TypeOK, Live
<1>5. CASE Creates(i, project, pid)
  <2>1. i = id /\ sessions'[id] = Fresh(project, pid, SourceFromID[i])
    BY <1>5 DEF Creates, RegistryInv, TypeOK
  <2>2. sessions'[id].project = project /\ sessions'[id].source = SourceFromID[i]
    BY <2>1 DEF Fresh
  <2>3. QED BY <1>4, <1>5, <2>2 DEF Creates, Sources, JSONL, HTTP, Claude
<1>6. ASSUME NEW l \in Live, Upgrades(l, i, project, pid)
      PROVE  sessions[e].source <= sessions'[id].source
  <2> DEFINE upgraded == Rekeyed(sessions[l], pid, SourceFromID[i])
  <2>1. sessions[l] \in Session /\ l \in SessionIDs
    BY DEF RegistryInv, TypeOK, Live
  <2>2. upgraded.project = sessions[l].project /\ upgraded.source = SourceFromID[i]
    BY <1>4, <2>1, RekeyedFields
  <2> HIDE DEF upgraded
  <2>3. sessions' = [sessions EXCEPT ![l] = Nil, ![i] = upgraded]
    BY <1>6 DEF Upgrades, upgraded
  <2>4. i = id /\ sessions'[id] = upgraded
    BY <2>1, <2>3 DEF RegistryInv, TypeOK
  <2>5. sessions[e].project = sessions[l].project /\ SourceFromID[i] > sessions[l].source
    BY <1>6, <2>2, <2>4 DEF Upgrades
  <2>6. e = l
    BY <1>4, <2>1, <2>5
       DEF RegistryInv, SeparateWindows, Session, Sources, JSONL, HTTP, Claude
  <2>7. QED BY <1>4, <2>1, <2>2, <2>4, <2>5, <2>6 DEF Session, Sources, JSONL, HTTP, Claude
<1>7. QED BY <1>2, <1>3, <1>5, <1>6, StartEffect

\* The upgrade chain never runs backwards.
THEOREM RegistryNeverDowngrades == RegistrySpec => NoDowngrade
<1>1. RegistryInv /\ [RegistryNext]_registryVars =>
        [\A id \in SessionIDs \ Live :
           sessions'[id] # Nil =>
             \A e \in Live : sessions[e].project = sessions'[id].project =>
                               sessions[e].source <= sessions'[id].source]_sessions
  BY NoDowngradeStep DEF Live
<1>2. QED BY <1>1, RegistryInvariant, PTL DEF RegistrySpec, NoDowngrade

\* A re-keyed entry takes its counters, data and activity clock along.
LEMMA UpgradeStep ==
  ASSUME RegistryInv, [RegistryNext]_registryVars,
         NEW old \in SessionIDs, NEW new \in SessionIDs,
         sessions[old] # Nil, sessions'[old] = Nil,
         sessions[new] = Nil, sessions'[new] # Nil
  PROVE  /\ sessions'[new].acts = sessions[old].acts
         /\ sessions'[new].known = sessions[old].known
         /\ sessions'[new].age = sessions[old].age
         /\ sessions'[new].source > sessions[old].source
<1>1. PICK i \in SessionIDs, project \in Projects, pid \in Pids :
        StartSession(i, project, pid)
  BY OtherStepsKeep DEF KeepsWindows, Starts
<1>2. sessions' # sessions
  OBVIOUS
<1>3. ~Creates(i, project, pid)
  BY FreshType, RegistryAssumption DEF Creates, RegistryInv, TypeOK
<1>4. PICK e \in Live : Upgrades(e, i, project, pid)
  BY <1>1, <1>2, <1>3, StartEffect
<1> DEFINE upgraded == Rekeyed(sessions[e], pid, SourceFromID[i])
<1>5. e \in SessionIDs /\ sessions[e] \in Session /\ SourceFromID[i] \in Sources
  BY RegistryAssumption DEF RegistryInv, TypeOK, Live
<1>6. /\ upgraded.acts = sessions[e].acts /\ upgraded.known = sessions[e].known
      /\ upgraded.age = sessions[e].age /\ upgraded.source = SourceFromID[i]
  BY <1>5, RekeyedFields
<1>7. sessions' = [sessions EXCEPT ![e] = Nil, ![i] = upgraded]
  BY <1>4 DEF Upgrades
<1> HIDE DEF upgraded
<1>8. i = new /\ e = old /\ sessions'[new] = upgraded
  BY <1>5, <1>7 DEF RegistryInv, TypeOK
<1>9. QED BY <1>4, <1>6, <1>8 DEF Upgrades

\* An upgrade loses none of the history of a session.
THEOREM RegistryUpgradeKeepsHistory == RegistrySpec => UpgradeKeepsHistory
<1>1. RegistryInv /\ [RegistryNext]_registryVars =>
        [\A old \in Live, new \in SessionIDs \ Live :
           (sessions'[old] = Nil /\ sessions'[new] # Nil) =>
             /\ sessions'[new].acts = sessions[old].acts
             /\ sessions'[new].known = sessions[old].known
             /\ sessions'[new].age = sessions[old].age
             /\ sessions'[new].source > sessions[old].source]_sessions
  BY UpgradeStep DEF Live
<1>2. QED BY <1>1, RegistryInvariant, PTL DEF RegistrySpec, UpgradeKeepsHistory
=============================================================================
