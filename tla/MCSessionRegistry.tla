------------------------- MODULE MCSessionRegistry -------------------------
(* Two projects with their synthetic IDs, and two Claude windows, each of  *)
(* which may report PID 1, PID 2 or no PID.                                *)
EXTENDS Resolver

CONSTANTS jsonl1, jsonl2, http1, http2, claude1, claude2, p1, p2

MCSessionIDs == {jsonl1, jsonl2, http1, http2, claude1, claude2}
MCProjects   == {p1, p2}
MCSourceFromID ==
  [id \in MCSessionIDs |-> IF id \in {jsonl1, jsonl2} THEN JSONL
                           ELSE IF id \in {http1, http2} THEN HTTP ELSE Claude]
MCSyntheticID ==
  [s \in {JSONL, HTTP} |->
     [p \in MCProjects |-> IF s = JSONL THEN IF p = p1 THEN jsonl1 ELSE jsonl2
                           ELSE IF p = p1 THEN http1 ELSE http2]]
MCCounterIcons == {"coding"}

\* The Claude sessions are interchangeable, and so are the projects together
\* with their synthetic IDs.
Swap(a, b) == a :> b @@ b :> a
MCSymmetry ==
  {windows @@ others : windows \in Permutations({claude1, claude2}),
                       others  \in {[x \in {p1, p2, jsonl1, jsonl2, http1, http2} |-> x],
                                    Swap(p1, p2) @@ Swap(jsonl1, jsonl2) @@ Swap(http1, http2)}}
=============================================================================
