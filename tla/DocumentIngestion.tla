--------------------------- MODULE DocumentIngestion ---------------------------
(***************************************************************************)
(* Documents on their way into the vector store: submissions to the agent  *)
(* (agent/document_ingestion.py) and runs of the bulk loader               *)
(* (management/load_documents.py) work on one bucket.  Every call to       *)
(* Object Storage or to the connector is a step.  The agent's handler      *)
(* awaits nothing, so its one process serves one submission at a time;     *)
(* loaders run beside it.                                                  *)
(*                                                                         *)
(* A call can fail after it took effect: its answer is lost.  Nothing here *)
(* deletes an object.                                                      *)
(***************************************************************************)
EXTENDS Naturals, Sequences, FiniteSets

CONSTANTS
  Requests,     \* submissions to the agent
  Loaders,      \* runs of the loader
  Objects,      \* object names
  Unsupported,  \* a file with an unsupported name or extension
  Plans,        \* the lists of files that are submitted or found in a directory
  MaxFiles,     \* DOCUMENT_INGESTION_MAX_FILES
  None, Old     \* content of an object: absent, or from an earlier time

Tasks == Requests \cup Loaders
Refers(p, n) == \E i \in DOMAIN p : p[i] = n
Distinct(p) == \A i, j \in DOMAIN p : i # j => p[i] # p[j]

ASSUME NamesAssumption ==
  Requests \cap Loaders = {} /\ {None, Old} \cap Tasks = {} /\ None # Old /\ Unsupported \notin Objects
ASSUME PlansAssumption == Plans \subseteq Seq(Objects \cup {Unsupported}) /\ MaxFiles \in Nat

VARIABLES
  content,    \* object -> None, Old, or the task that wrote it last
  jobs,       \* tasks whose file sync was created
  pc,         \* task -> "new", "check", "put", "sync" or "done"
  plan,       \* task -> the objects of its documents, in order
  overwrite,  \* task -> it may replace objects
  next,       \* task -> position in its plan
  found,      \* task -> objects found to exist
  uploaded,   \* task -> objects it reports as uploaded
  failed,     \* loader -> objects it reports as failed
  answer,     \* task -> what it answers or prints at its end
  before,     \* history: task -> objects in the bucket when it began
  wrote       \* history: task -> objects it wrote

progress == <<pc, next, answer>>
report   == <<found, uploaded, failed>>
asked    == <<plan, overwrite, before>>
cloud    == <<content, wrote, jobs>>
vars     == <<cloud, progress, report, asked>>

Stored      == {n \in Objects : content[n] # None}
Documents(t) == {plan[t][i] : i \in DOMAIN plan[t]}
Active(t)   == pc[t] \in {"check", "put", "sync"}

Init ==
  /\ content \in [Objects -> {None, Old}] /\ jobs = {}
  /\ pc = [t \in Tasks |-> "new"] /\ plan = [t \in Tasks |-> <<>>]
  /\ overwrite = [t \in Tasks |-> FALSE] /\ next = [t \in Tasks |-> 1]
  /\ found = [t \in Tasks |-> {}] /\ uploaded = [t \in Tasks |-> {}]
  /\ failed = [t \in Tasks |-> {}] /\ answer = [t \in Tasks |-> "none"]
  /\ before = [t \in Tasks |-> {}] /\ wrote = [t \in Tasks |-> {}]

Goto(t, place) == pc' = [pc EXCEPT ![t] = place] /\ UNCHANGED answer
End(t, a)      == pc' = [pc EXCEPT ![t] = "done"] /\ answer' = [answer EXCEPT ![t] = a]

Add(f, t, n) == f' = [f EXCEPT ![t] = @ \cup {n}]

-------------------------------------------------------------------------------
(* The beginning of a task. *)

(* _build_upload_plan refuses the whole submission. *)
Acceptable(p) == p # <<>> /\ Len(p) <= MaxFiles /\ Distinct(p) /\ ~Refers(p, Unsupported)

Begin(t, p, o) ==
  /\ pc[t] = "new"
  /\ plan' = [plan EXCEPT ![t] = p] /\ overwrite' = [overwrite EXCEPT ![t] = o]
  /\ before' = [before EXCEPT ![t] = Stored]
  /\ Goto(t, IF o THEN "put" ELSE "check")
  /\ UNCHANGED <<cloud, next, report>>

Submit(t, p, o) ==
  /\ \A r \in Requests : ~Active(r)
  /\ Acceptable(p) /\ Begin(t, p, o)

Reject(t, p) ==
  /\ \A r \in Requests : ~Active(r)
  /\ pc[t] = "new" /\ ~Acceptable(p) /\ End(t, "invalid")
  /\ UNCHANGED <<cloud, next, report, asked>>

(* discover_documents finds the supported files of a directory; what it    *)
(* passes over is not in p.                                                *)
Load(t, p, o) == p # <<>> /\ Distinct(p) /\ ~Refers(p, Unsupported) /\ Begin(t, p, o)

LoadNothing(t) ==
  /\ pc[t] = "new" /\ End(t, "invalid")
  /\ UNCHANGED <<cloud, next, report, asked>>

-------------------------------------------------------------------------------
(* The next document, or what follows the last one. *)

Object(t) == plan[t][next[t]]

IsLast(t) == next[t] = Len(plan[t])

Advance(t, place) ==
  next' = [next EXCEPT ![t] = IF IsLast(t) THEN 1 ELSE @ + 1] /\ Goto(t, place)

(* Defect: the loader asks for a sync whatever became of its documents. *)
NextThenSync(t) ==
  IF ~IsLast(t) THEN Advance(t, IF overwrite[t] THEN "put" ELSE "check")
  ELSE UNCHANGED next /\ Goto(t, "sync")

(* Defect: the loader stops at its first failure. *)
NextUnlessFailed(t) ==
  IF failed'[t] # {} THEN UNCHANGED next /\ End(t, "incomplete")
  ELSE IF ~IsLast(t) THEN Advance(t, IF overwrite[t] THEN "put" ELSE "check")
  ELSE UNCHANGED next /\ Goto(t, "sync")

(* The loader goes on whatever became of a document, and asks for a sync   *)
(* only if all went well.                                                  *)
NextDocument(t) ==
  IF ~IsLast(t) THEN Advance(t, IF overwrite[t] THEN "put" ELSE "check")
  ELSE UNCHANGED next /\ IF failed'[t] = {} THEN Goto(t, "sync") ELSE End(t, "incomplete")

-------------------------------------------------------------------------------
(* object_exists. *)

Exists(t) == content[Object(t)] # None

(* Defect: the last object decides. *)
CheckLastObject(t) ==
  /\ pc[t] = "check"
  /\ found' = [found EXCEPT ![t] = IF Exists(t) THEN {Object(t)} ELSE {}]
  /\ IF ~IsLast(t) THEN Advance(t, "check")
     ELSE IF found'[t] = {} THEN Advance(t, "put")
     ELSE UNCHANGED next /\ End(t, "conflict")
  /\ UNCHANGED <<cloud, uploaded, failed, asked>>

(* _reject_existing_objects looks at every object before it decides. *)
CheckObject(t) ==
  /\ pc[t] = "check"
  /\ found' = IF Exists(t) THEN [found EXCEPT ![t] = @ \cup {Object(t)}] ELSE found
  /\ IF ~IsLast(t) THEN Advance(t, "check")
     ELSE IF found'[t] = {} THEN Advance(t, "put")
     ELSE UNCHANGED next /\ End(t, "conflict")
  /\ UNCHANGED <<cloud, uploaded, failed, asked>>

(* An error other than 404. *)
CheckBreaks(t) ==
  /\ pc[t] = "check" /\ End(t, "error")
  /\ UNCHANGED <<cloud, next, report, asked>>

(* The loader skips what exists. *)
SkipObject(t) ==
  /\ pc[t] = "check" /\ Exists(t)
  /\ Add(found, t, Object(t)) /\ UNCHANGED <<uploaded, failed>>
  /\ NextDocument(t)
  /\ UNCHANGED <<cloud, asked>>

FindNoObject(t) ==
  /\ pc[t] = "check" /\ ~Exists(t) /\ Goto(t, "put")
  /\ UNCHANGED <<cloud, next, report, asked>>

CheckFails(t) ==
  /\ pc[t] = "check"
  /\ Add(failed, t, Object(t)) /\ UNCHANGED <<found, uploaded>>
  /\ NextDocument(t)
  /\ UNCHANGED <<cloud, asked>>

-------------------------------------------------------------------------------
(* put_object. *)

Write(t) == content' = [content EXCEPT ![Object(t)] = t] /\ Add(wrote, t, Object(t))

(* Defect: every object is looked at again just before its upload. *)
UploadThenCheck(t) ==
  /\ pc[t] = "put" /\ Write(t)
  /\ Add(uploaded, t, Object(t))
  /\ IF IsLast(t) THEN UNCHANGED next /\ Goto(t, "sync")
     ELSE Advance(t, IF overwrite[t] THEN "put" ELSE "check")
  /\ UNCHANGED <<jobs, found, failed, asked>>

(* _upload_planned_documents. *)
UploadObject(t) ==
  /\ pc[t] = "put" /\ Write(t)
  /\ Add(uploaded, t, Object(t))
  /\ IF IsLast(t) THEN UNCHANGED next /\ Goto(t, "sync") ELSE Advance(t, "put")
  /\ UNCHANGED <<jobs, found, failed, asked>>

(* Defect: a failed upload is passed over. *)
UploadPassesOver(t) ==
  /\ pc[t] = "put" /\ (Write(t) \/ UNCHANGED <<content, wrote>>)
  /\ IF IsLast(t) THEN UNCHANGED next /\ Goto(t, "sync") ELSE Advance(t, "put")
  /\ UNCHANGED <<jobs, report, asked>>

UploadBreaks(t) ==
  /\ pc[t] = "put" /\ (Write(t) \/ UNCHANGED <<content, wrote>>)
  /\ End(t, "upload_failed")
  /\ UNCHANGED <<jobs, next, report, asked>>

(* upload_documents. *)
LoadObject(t) ==
  /\ pc[t] = "put" /\ Write(t)
  /\ Add(uploaded, t, Object(t)) /\ UNCHANGED <<found, failed>>
  /\ NextDocument(t)
  /\ UNCHANGED <<jobs, asked>>

LoadFails(t) ==
  /\ pc[t] = "put" /\ (Write(t) \/ UNCHANGED <<content, wrote>>)
  /\ Add(failed, t, Object(t)) /\ UNCHANGED <<found, uploaded>>
  /\ NextDocument(t)
  /\ UNCHANGED <<jobs, asked>>

-------------------------------------------------------------------------------
(* trigger_file_sync. *)

SyncCreated(t) ==
  /\ pc[t] = "sync" /\ jobs' = jobs \cup {t}
  /\ \E a \in {"submitted", "sync_failed"} : End(t, a)
  /\ UNCHANGED <<content, wrote, next, report, asked>>

SyncRefused(t) ==
  /\ pc[t] = "sync" /\ End(t, "sync_failed")
  /\ UNCHANGED <<cloud, next, report, asked>>

(* The process of the agent is restarted, or the loader is stopped. *)
Crash(t) ==
  /\ Active(t) /\ End(t, "crashed")
  /\ UNCHANGED <<cloud, next, report, asked>>

-------------------------------------------------------------------------------
AgentStep(t) == CheckObject(t) \/ CheckBreaks(t) \/ UploadObject(t) \/ UploadBreaks(t)
LoaderStep(t) == SkipObject(t) \/ FindNoObject(t) \/ CheckFails(t) \/ LoadObject(t) \/ LoadFails(t)

Next ==
  \/ \E t \in Requests, p \in Plans : Reject(t, p) \/ \E o \in BOOLEAN : Submit(t, p, o)
  \/ \E t \in Loaders : LoadNothing(t) \/ \E p \in Plans, o \in BOOLEAN : Load(t, p, o)
  \/ \E t \in Requests : AgentStep(t)
  \/ \E t \in Loaders : LoaderStep(t)
  \/ \E t \in Tasks : SyncCreated(t) \/ SyncRefused(t) \/ Crash(t)

Spec == Init /\ [][Next]_vars

-------------------------------------------------------------------------------
(* Properties. *)

TypeOK ==
  /\ content \in [Objects -> Tasks \cup {None, Old}] /\ jobs \in SUBSET Tasks
  /\ pc \in [Tasks -> {"new", "check", "put", "sync", "done"}]
  /\ plan \in [Tasks -> Seq(Objects)] /\ overwrite \in [Tasks -> BOOLEAN]
  /\ next \in [Tasks -> Nat \ {0}] /\ \A t \in Tasks : plan[t] # <<>> => next[t] <= Len(plan[t])
  /\ found \in [Tasks -> SUBSET Objects] /\ uploaded \in [Tasks -> SUBSET Objects]
  /\ failed \in [Tasks -> SUBSET Objects]
  /\ answer \in [Tasks -> {"none", "invalid", "conflict", "error", "upload_failed", "incomplete",
                           "submitted", "sync_failed", "crashed"}]
  /\ before \in [Tasks -> SUBSET Objects] /\ wrote \in [Tasks -> SUBSET Objects]

(* A job is created only for a complete set: every document of the task is *)
(* in the bucket, and was put there by the task unless a loader skipped it *)
(* (specs/0013:146-147, specs/0008:225).                                   *)
JobsAreComplete ==
  \A t \in jobs :
    /\ Documents(t) \subseteq Stored /\ failed[t] = {}
    /\ Documents(t) = uploaded[t] \cup (IF t \in Loaders THEN found[t] ELSE {})
    /\ uploaded[t] \subseteq wrote[t]

(* What was in the bucket when a task without overwrite began is not       *)
(* replaced by it, whatever the other tasks do meanwhile                   *)
(* (specs/0013:170-174, specs/0008:167-169).                               *)
ExistingObjectsAreKept ==
  \A t \in Tasks : ~overwrite[t] => wrote[t] \cap before[t] = {}

(* A refused submission left nothing behind, and one whose job failed      *)
(* names all it left, for the operator to retry or to remove               *)
(* (specs/0013:149-151, 173-174).                                          *)
AnswersAccountForObjects ==
  \A t \in Requests :
    /\ answer[t] \in {"invalid", "conflict", "error"} => wrote[t] = {}
    /\ answer[t] \in {"submitted", "sync_failed"} => uploaded[t] = wrote[t] /\ uploaded[t] = Documents(t)

(* Planned = uploaded + skipped + failed in the summary of a loader that   *)
(* came to its end, and it tried all of its documents                      *)
(* (load_documents.py:252-296).  The code counts a sync that failed as one *)
(* failure more; here the answer says so.                                  *)
SummariesAddUp ==
  \A t \in Loaders : answer[t] \in {"incomplete", "submitted", "sync_failed"} =>
    /\ Documents(t) = uploaded[t] \cup found[t] \cup failed[t]
    /\ Len(plan[t]) = Cardinality(uploaded[t]) + Cardinality(found[t]) + Cardinality(failed[t])
    /\ answer[t] = "incomplete" <=> failed[t] # {}

(* The two programs keep the contract of ingestion. *)
PhaseOf(place, a) ==
  IF place = "new" THEN "new"
  ELSE IF place \in {"check", "put", "sync"} THEN "open"
  ELSE IF a \in {"invalid", "conflict"} THEN "refused"
  ELSE IF a = "submitted" THEN "submitted" ELSE "failed"

Phase(t) == PhaseOf(pc[t], answer[t])

Contract == INSTANCE IngestionContract
              WITH phase <- [t \in Tasks |-> Phase(t)], want <- [t \in Tasks |-> Documents(t)],
                   stored <- Stored
ImplementsContract == Contract!Spec
===============================================================================
