----------------------------- MODULE MCSubagents -----------------------------
(* Agents of two types, two of the same one; descriptions that differ, and *)
(* one that is also the name of a type.                                    *)
EXTENDS Subagents

CONSTANTS a1, a2, a3, explore, review, look

MCAgents == {a1, a2, a3}
MCNames  == {explore, review, look}
MCType   == [a \in Agents |-> IF a = a3 THEN review ELSE explore]
MCTask   == [a \in Agents |-> IF a = a2 THEN explore ELSE look]
=============================================================================
