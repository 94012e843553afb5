------------------------------ MODULE Resolver ------------------------------
(***************************************************************************)
(* The presence resolver (resolver/resolver.go): from a snapshot of the    *)
(* registry, which has its sessions in any order, and the detail level to  *)
(* the activity that Discord is to show.                                   *)
(*                                                                         *)
(* An activity is the data that its texts are made of.  The wording, which *)
(* rotates with the clock, the buttons, durations and the start time, and  *)
(* what the minimal, standard and verbose levels show of the same data,    *)
(* are left out.                                                           *)
(***************************************************************************)
EXTENDS SessionRegistry, Sequences, FiniteSets, SequencesExt

\* The registry's onChange pulses the channel that the coalescer reads.
ASSUME ResolverAssumption == "update" \in Channels

Details == {"open", "private"}

\* GetAllSessions copies a Go map.
Snapshots == SetToSeqs(Live)

\* Mutant of Better: the clock alone decides, except that an active session
\* always replaces an idle one.
BetterByTime(best, s) ==
  (best.status = "idle" /\ s.status = "active") \/ s.age < best.age

\* Does the loop of getMostRecentSession leave the best so far for s?
Better(best, s) ==
  \/ best.status = "idle" /\ s.status = "active"
  \/ ~(best.status = "active" /\ s.status = "idle") /\ s.age < best.age

getMostRecentSession(snapshot) ==
  FoldLeft(LAMBDA best, id : IF Better(sessions[best], sessions[id]) THEN id ELSE best,
           snapshot[1], Tail(snapshot))

\* The placeholder values that come of one session's stored data.
Values(s, detail) == IF detail = "private" THEN {} ELSE s.known \ {"transcript"}

resolveSingle(id, detail) ==
  [project |-> IF detail = "private" THEN Nil ELSE sessions[id].project,
   icon    |-> sessions[id].icon,
   values  |-> Values(sessions[id], detail)]

\* How many sessions each project has.
Windows(ids) ==
  [p \in {sessions[id].project : id \in ids} |->
     Cardinality({id \in ids : sessions[id].project = p})]

\* Counters, tokens and costs are summed up over the sessions; tools, subagents
\* and context are those of the most recent one.
buildMultiPlaceholderValues(snapshot, detail) ==
  LET ids == ToSet(snapshot)
  IN  [windows |-> IF detail = "private" THEN Len(snapshot) ELSE Windows(ids),
       acts    |-> FoldLeft(LAMBDA n, id : n + sessions[id].acts, 0, snapshot),
       totals  |-> UNION {Values(sessions[id], detail) : id \in ids},
       values  |-> Values(sessions[getMostRecentSession(snapshot)], detail)]

resolveMulti(snapshot, detail) ==
  [count |-> Cardinality({sessions[id].project : id \in ToSet(snapshot)}),
   icon  |-> sessions[getMostRecentSession(snapshot)].icon]
  @@ buildMultiPlaceholderValues(snapshot, detail)

\* Two windows on one project are shown as one session, the most recent.
ResolvePresence(snapshot, detail) ==
  IF snapshot = <<>> THEN Nil
  ELSE IF Cardinality({sessions[id].project : id \in ToSet(snapshot)}) = 1
    THEN resolveSingle(getMostRecentSession(snapshot), detail)
  ELSE resolveMulti(snapshot, detail)

Presences(detail) == {ResolvePresence(snapshot, detail) : snapshot \in Snapshots}

-----------------------------------------------------------------------------
\* Whatever order the map is read in, the session that is shown is an active one
\* if there is one, and of those no other was used later: the presence does not
\* flicker between windows, except between equals (resolver.go:387-407).
ShowsMostRecent ==
  \A snapshot \in Snapshots \ {<<>>} :
    LET best == sessions[getMostRecentSession(snapshot)]
    IN  \A id \in Live :
          /\ sessions[id].status = "active" => best.status = "active"
          /\ sessions[id].status = best.status => best.age <= sessions[id].age

\* A step that changes nothing but activity clocks: Touch, which is silent by
\* intent, and the passage of time.
OnlyClocks ==
  \A id \in SessionIDs :
    \/ sessions[id] = sessions'[id]
    \/ /\ Nil \notin {sessions[id], sessions'[id]}
       /\ [sessions[id] EXCEPT !.age = 0] = [sessions'[id] EXCEPT !.age = 0]

\* Every other step that changes what is to be shown, at any detail level, leaves
\* a pulse for the coalescer: the presence cannot stay behind the registry
\* (registry.go calls notifyChange, main.go:139-148, coalescer.go:123-135).
ChangeIsPulsed ==
  [][\/ "update" \in signals'
     \/ OnlyClocks
     \/ \A detail \in Details : Presences(detail)' = Presences(detail)]_registryVars
=============================================================================
