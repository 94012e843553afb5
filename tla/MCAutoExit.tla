----------------------------- MODULE MCAutoExit -----------------------------
(* One project with its synthetic session and two Claude windows.          *)
EXTENDS AutoExit

CONSTANTS http, claude1, claude2, project

MCSessionIDs == {http, claude1, claude2}
MCProjects   == {project}
MCSourceFromID == [id \in MCSessionIDs |-> IF id = http THEN HTTP ELSE Claude]
MCSyntheticID == [s \in {JSONL, HTTP} |-> [p \in MCProjects |-> http]]
MCCounterIcons == {"coding"}
=============================================================================
