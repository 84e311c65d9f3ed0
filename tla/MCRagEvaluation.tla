---------------------------- MODULE MCRagEvaluation ----------------------------
(* References of each kind that check_references tells apart. *)
EXTENDS RagEvaluation

Ref(pdf, page) == [pdf |-> pdf, page |-> page]
MCReferenceSets ==
  {{}, {Ref(TRUE, "expected")}, {Ref(TRUE, "unknown"), Ref(FALSE, "expected")},
   {Ref(TRUE, "other"), Ref(FALSE, "expected")}, {Ref(FALSE, "expected")}}
===============================================================================
