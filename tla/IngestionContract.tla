--------------------------- MODULE IngestionContract ---------------------------
(***************************************************************************)
(* What document ingestion promises (specs/0008, specs/0013): a task asks  *)
(* for some objects; it is refused without a trace, or stores objects it   *)
(* was asked for, and only when all of them are in the bucket may a job be *)
(* created that feeds them to the vector store.                            *)
(***************************************************************************)
CONSTANTS Tasks, Objects

VARIABLES
  phase,   \* task -> "new", "open", "refused", "failed" or "submitted"
  want,    \* task -> objects it was asked to ingest
  stored,  \* objects in the bucket
  wrote,   \* task -> objects it stored
  jobs     \* tasks whose job was created

vars == <<phase, want, stored, wrote, jobs>>

Init ==
  /\ phase = [t \in Tasks |-> "new"] /\ want = [t \in Tasks |-> {}]
  /\ stored \in SUBSET Objects
  /\ wrote = [t \in Tasks |-> {}] /\ jobs = {}

Open(t) ==
  /\ phase[t] = "new" /\ phase' = [phase EXCEPT ![t] = "open"]
  /\ \E W \in SUBSET Objects : want' = [want EXCEPT ![t] = W]
  /\ UNCHANGED <<stored, wrote, jobs>>

(* Invalid, or it names what must not be replaced. *)
Refuse(t) ==
  /\ phase[t] \in {"new", "open"} /\ wrote[t] = {}
  /\ phase' = [phase EXCEPT ![t] = "refused"]
  /\ UNCHANGED <<want, stored, wrote, jobs>>

(* An object is stored, with which the task may fail. *)
Store(t) ==
  /\ phase[t] = "open"
  /\ \E n \in want[t] :
       stored' = stored \cup {n} /\ wrote' = [wrote EXCEPT ![t] = @ \cup {n}]
  /\ phase' \in {phase, [phase EXCEPT ![t] = "failed"]}
  /\ UNCHANGED <<want, jobs>>

(* The job is created, whether or not the task hears of it. *)
Ingest(t) ==
  /\ phase[t] = "open" /\ want[t] \subseteq stored
  /\ jobs' = jobs \cup {t}
  /\ \E p \in {"submitted", "failed"} : phase' = [phase EXCEPT ![t] = p]
  /\ UNCHANGED <<want, stored, wrote>>

Fail(t) ==
  /\ phase[t] = "open" /\ phase' = [phase EXCEPT ![t] = "failed"]
  /\ UNCHANGED <<want, stored, wrote, jobs>>

Next == \E t \in Tasks : Open(t) \/ Refuse(t) \/ Store(t) \/ Ingest(t) \/ Fail(t)

Spec == Init /\ [][Next]_vars
===============================================================================
