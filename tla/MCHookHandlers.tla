--------------------------- MODULE MCHookHandlers ---------------------------
(* One project whose hooks carry its synthetic ID or the ID of one of two  *)
(* Claude windows, and two hooks in flight at a time.                      *)
EXTENDS HookHandlers

CONSTANTS http, claude1, claude2, project, t1, t2

MCSessionIDs == {http, claude1, claude2}
MCTwoIDs     == {http, claude1}
MCProjects   == {project}
MCSourceFromID == [id \in MCSessionIDs |-> IF id = http THEN HTTP ELSE Claude]
MCTwoSources == [id \in MCTwoIDs |-> MCSourceFromID[id]]
\* No JSONL session is ever started: main.go has no JSONL ingestion.
MCSyntheticID == [s \in {JSONL, HTTP} |-> [p \in MCProjects |-> http]]
MCCounterIcons == {"coding", "thinking"}
=============================================================================
