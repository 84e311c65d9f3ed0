----------------------------- MODULE MCFoundation -----------------------------
(* Foundation on small instances. *)
EXTENDS Foundation, TLC

(* Two runs that want the same things made. *)
CreatingModes == {[bucket |-> "create", store |-> "create", connector |-> c] :
                    c \in {"create", "reuse"}}

(* The same with runs that only reuse or are given identifiers. *)
MixedModes == CreatingModes \cup
  {[bucket |-> "reuse", store |-> "reuse", connector |-> "id"],
   [bucket |-> "reuse", store |-> "id", connector |-> "skip"]}

Symmetry == Permutations(Runs) \cup Permutations(Old)
===============================================================================
