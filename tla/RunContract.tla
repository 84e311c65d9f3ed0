----------------------------- MODULE RunContract -----------------------------
(***************************************************************************)
(* What a deployment run promises, whatever its steps do: the run begins   *)
(* once, its steps are worked on one at a time and in order, nothing is    *)
(* worked on after the run ended, and a run that succeeded has finished    *)
(* every step.  A run may also be recorded when it is already over (a dry  *)
(* run), and it may be abandoned.                                          *)
(***************************************************************************)
EXTENDS Naturals

CONSTANT N   \* number of steps

VARIABLES
  status,    \* "none", "running", "succeeded" or "failed"
  active,    \* the step being worked on, if any, as a set
  finished   \* number of steps finished

vars == <<status, active, finished>>

Init == status = "none" /\ active = {} /\ finished = 0

Begin ==
  /\ status = "none" /\ status' = "running"
  /\ active' = {} /\ finished' \in 0..N

(* A run recorded after the fact: complete, or stopped at some step. *)
RecordEnded ==
  /\ status = "none" /\ active' = {}
  /\ \/ status' = "succeeded" /\ finished' = N
     \/ status' = "failed" /\ finished' \in 0..N

StartStep ==
  /\ status = "running" /\ active = {} /\ finished < N
  /\ active' = {finished + 1}
  /\ UNCHANGED <<status, finished>>

FinishStep ==
  /\ status = "running" /\ active \subseteq {finished + 1} /\ finished < N
  /\ finished' = finished + 1 /\ active' = {}
  /\ UNCHANGED status

Succeed ==
  /\ status = "running" /\ active = {} /\ finished = N
  /\ status' = "succeeded"
  /\ UNCHANGED <<active, finished>>

(* The work on the step in progress ends with the run. *)
Fail ==
  /\ status = "running" /\ status' = "failed" /\ active' = {}
  /\ UNCHANGED finished

(* The worker disappears; the record keeps saying "running". *)
Abandon ==
  /\ status = "running" /\ active' = {}
  /\ UNCHANGED <<status, finished>>

Next == Begin \/ RecordEnded \/ StartStep \/ FinishStep \/ Succeed \/ Fail \/ Abandon

Spec == Init /\ [][Next]_vars
===============================================================================
