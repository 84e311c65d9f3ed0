-------------------------- MODULE MCDocumentIngestion --------------------------
(* DocumentIngestion on small instances. *)
EXTENDS DocumentIngestion

CONSTANTS a, b

(* One or two documents, with the object in common last or first, a list   *)
(* with a duplicate, one with an unsupported file and one with nothing.    *)
SmallPlans == {<<>>, <<a, b>>, <<b>>, <<a, a>>, <<Unsupported, b>>}
===============================================================================
