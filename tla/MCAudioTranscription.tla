------------------------- MODULE MCAudioTranscription -------------------------
(* Two requests to one agent, and one to another. *)
EXTENDS AudioTranscription

CONSTANTS r1, r2, r3, a1, a2

MCAgentOf == [r \in Requests |-> IF r = r3 THEN a2 ELSE a1]
===============================================================================
