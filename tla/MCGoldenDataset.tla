---------------------------- MODULE MCGoldenDataset ----------------------------
(* GoldenDataset on small instances. *)
EXTENDS GoldenDataset

MCObjects == 1 .. 3

(* Two documents in different folders have one file name. *)
MCFileName == [o \in MCObjects |-> IF o = 3 THEN "notes.txt" ELSE "guide.pdf"]
===============================================================================
