---------------------------- MODULE StreamContract ----------------------------
(***************************************************************************)
(* The order of the events of an answer stream, as its readers rely on it: *)
(* the transcript of a voice question first, then the conversation, the    *)
(* tokens, the references, the usage if it is known, and "done"; "error"   *)
(* instead of what is left, before the references.  Nothing follows "done" *)
(* or "error".                                                             *)
(***************************************************************************)
VARIABLE last   \* the event sent last, "start" before the first

Events == {"transcript", "metadata", "token", "references", "usage", "done", "error"}

Follows(e) ==
  CASE e = "start"      -> {"transcript", "metadata", "error"}
    [] e = "transcript" -> {"metadata", "error"}
    [] e = "metadata"   -> {"token", "references", "error"}
    [] e = "token"      -> {"token", "references", "error"}
    [] e = "references" -> {"usage", "done"}
    [] e = "usage"      -> {"done"}
    [] OTHER            -> {}

Init == last = "start"
Next == last' \in Follows(last)
Spec == Init /\ [][Next]_last
===============================================================================
