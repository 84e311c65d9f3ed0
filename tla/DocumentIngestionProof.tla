------------------------ MODULE DocumentIngestionProof ------------------------
(***************************************************************************)
(* Proofs about DocumentIngestion, for any number of submissions, loaders, *)
(* objects and lists of files.                                             *)
(***************************************************************************)
EXTENDS DocumentIngestion, SequenceTheorems, FiniteSetTheorems, TLAPS

(* The documents a task has dealt with. *)
Tried(t) == {plan[t][i] : i \in 1 .. next[t] - 1}

(* A task that has not begun has no trace. *)
Fresh(t) ==
  pc[t] = "new" =>
    /\ plan[t] = <<>> /\ before[t] = {} /\ wrote[t] = {} /\ next[t] = 1
    /\ found[t] = {} /\ uploaded[t] = {} /\ failed[t] = {} /\ answer[t] = "none"

(* One at work has no job and no answer. *)
Going(t) ==
  /\ Active(t) => plan[t] # <<>> /\ answer[t] = "none"
  /\ t \in jobs => pc[t] = "done"

(* What it saw and wrote is in the bucket, and nothing from before was     *)
(* replaced.                                                               *)
Kept(t) ==
  /\ before[t] \subseteq Stored /\ found[t] \subseteq Stored
  /\ wrote[t] \subseteq Stored /\ wrote[t] \subseteq Documents(t)
  /\ uploaded[t] \subseteq wrote[t]
  /\ ~overwrite[t] => wrote[t] \cap before[t] = {}

(* A submission looks at all of its objects first, then writes in order. *)
AsRequest(t) ==
  /\ failed[t] = {}
  /\ pc[t] = "check" => /\ uploaded[t] = {} /\ wrote[t] = {}
                        /\ found[t] = {} => Tried(t) \cap before[t] = {}
  /\ pc[t] = "put" => /\ uploaded[t] = Tried(t) /\ wrote[t] = Tried(t)
                      /\ ~overwrite[t] => Documents(t) \cap before[t] = {}
  /\ pc[t] = "sync" => uploaded[t] = Documents(t) /\ wrote[t] = Documents(t)
  /\ answer[t] \in {"invalid", "conflict", "error"} => wrote[t] = {}
  /\ answer[t] \in {"submitted", "sync_failed"} => uploaded[t] = Documents(t) /\ wrote[t] = Documents(t)

(* A loader accounts for each document before it goes on. *)
AsLoader(t) ==
  /\ pc[t] \in {"check", "put"} => Tried(t) = uploaded[t] \cup found[t] \cup failed[t]
  /\ pc[t] = "put" /\ ~overwrite[t] => Object(t) \notin before[t]
  /\ pc[t] = "sync" => failed[t] = {} /\ Documents(t) = uploaded[t] \cup found[t]
  /\ answer[t] \notin {"conflict", "error"}
  /\ answer[t] = "invalid" => wrote[t] = {}

JobIsComplete(t) ==
  t \in jobs =>
    /\ Documents(t) \subseteq Stored /\ failed[t] = {}
    /\ Documents(t) = uploaded[t] \cup (IF t \in Loaders THEN found[t] ELSE {})
    /\ uploaded[t] \subseteq wrote[t]

TaskInv(t) ==
  /\ Fresh(t) /\ Going(t) /\ Kept(t) /\ JobIsComplete(t)
  /\ t \in Requests => AsRequest(t)
  /\ t \in Loaders => AsLoader(t)

IInv == TypeOK /\ \A t \in Tasks : TaskInv(t)

-------------------------------------------------------------------------------
(* Lists of documents. *)

(* Acceptable lists name objects only. *)
LEMMA PlansOfObjects ==
  ASSUME NEW p \in Plans, ~Refers(p, Unsupported)
  PROVE  p \in Seq(Objects)
<1>1. p \in Seq(Objects \cup {Unsupported})
  BY PlansAssumption
<1>2. \A i \in 1 .. Len(p) : p[i] \in Objects
  BY <1>1 DEF Refers
<1> QED BY <1>1, <1>2

(* The document at work is one of the list; after it, it is among those    *)
(* dealt with, which after the last are all.                               *)
LEMMA AtWork ==
  ASSUME TypeOK, NEW t \in Tasks, plan[t] # <<>>
  PROVE  /\ Object(t) \in Documents(t) /\ Object(t) \in Objects
         /\ Documents(t) \subseteq Objects
         /\ IsLast(t) => Documents(t) = Tried(t) \cup {Object(t)}
         /\ next[t] = 1 => Tried(t) = {}
         /\ Tried(t) \subseteq Documents(t)
<1>1. /\ plan[t] \in Seq(Objects) /\ next[t] \in 1 .. Len(plan[t]) /\ Len(plan[t]) \in Nat
      /\ DOMAIN plan[t] = 1 .. Len(plan[t])
  BY DEF TypeOK
<1>2. \A i \in 1 .. Len(plan[t]) : plan[t][i] \in Objects
  BY <1>1
<1>3. IsLast(t) => 1 .. Len(plan[t]) = (1 .. next[t] - 1) \cup {next[t]}
  BY <1>1 DEF IsLast
<1>4. IsLast(t) => Documents(t) = Tried(t) \cup {Object(t)}
  BY <1>1, <1>3 DEF Documents, Tried, Object
<1>5. Object(t) \in Documents(t) /\ Object(t) \in Objects
  BY <1>1, <1>2 DEF Documents, Object
<1>6. Documents(t) \subseteq Objects
  BY <1>1, <1>2 DEF Documents
<1>7. next[t] = 1 => Tried(t) = {}
  BY DEF Tried
<1>8. Tried(t) \subseteq Documents(t)
  <2>1. 1 .. next[t] - 1 \subseteq 1 .. Len(plan[t])
    BY <1>1
  <2> QED BY <1>1, <2>1 DEF Documents, Tried
<1> QED BY <1>4, <1>5, <1>6, <1>7, <1>8

LEMMA TriedGrows ==
  ASSUME TypeOK, NEW t \in Tasks, plan[t] # <<>>, next'[t] = next[t] + 1, plan' = plan
  PROVE  Tried(t)' = Tried(t) \cup {Object(t)}
<1>1. next[t] \in Nat \ {0}
  BY DEF TypeOK
<1>2. 1 .. next'[t] - 1 = (1 .. next[t] - 1) \cup {next[t]}
  BY <1>1
<1> QED BY <1>2 DEF Tried, Object

-------------------------------------------------------------------------------
(* What a step leaves alone. *)

(* Nothing of task u changes. *)
Same(u) ==
  /\ pc'[u] = pc[u] /\ plan'[u] = plan[u] /\ overwrite'[u] = overwrite[u] /\ next'[u] = next[u]
  /\ found'[u] = found[u] /\ uploaded'[u] = uploaded[u] /\ failed'[u] = failed[u]
  /\ answer'[u] = answer[u] /\ before'[u] = before[u] /\ wrote'[u] = wrote[u]
  /\ (u \in jobs') = (u \in jobs)

StepOf(t) ==
  \/ t \in Requests /\ \/ \E p \in Plans : Reject(t, p) \/ \E o \in BOOLEAN : Submit(t, p, o)
                       \/ AgentStep(t)
  \/ t \in Loaders /\ \/ LoadNothing(t) \/ \E p \in Plans, o \in BOOLEAN : Load(t, p, o)
                      \/ LoaderStep(t)
  \/ SyncCreated(t) \/ SyncRefused(t) \/ Crash(t)

LEMMA EveryStep == Next => \E t \in Tasks : StepOf(t)
BY DEF Next, StepOf, Tasks

(* Only the object at work is written, and nothing is deleted. *)
LEMMA BucketOnlyGrows ==
  ASSUME TypeOK, NEW t \in Tasks, Write(t), plan[t] # <<>>
  PROVE  /\ Stored' = Stored \cup {Object(t)}
         /\ wrote'[t] = wrote[t] \cup {Object(t)}
         /\ \A u \in Tasks \ {t} : wrote'[u] = wrote[u]
<1>1. Object(t) \in Objects /\ t # None
  BY AtWork, NamesAssumption
<1> QED BY <1>1 DEF Write, Add, Stored, TypeOK

(* A step of one task changes nothing of the others, ... *)
LEMMA OthersAreSame ==
  ASSUME TypeOK, NEW t \in Tasks, StepOf(t)
  PROVE  \A u \in Tasks \ {t} : Same(u)
<1> USE DEF TypeOK, Same, Goto, End, Add
<1>1. ASSUME NEW p \in Plans, Reject(t, p)
      PROVE  \A u \in Tasks \ {t} : Same(u)
  BY <1>1 DEF Reject, cloud, report, asked
<1>2. ASSUME NEW p \in Plans, NEW o \in BOOLEAN, Submit(t, p, o) \/ Load(t, p, o)
      PROVE  \A u \in Tasks \ {t} : Same(u)
  BY <1>2 DEF Submit, Load, Begin, cloud, report
<1>3. CASE LoadNothing(t) \/ SyncRefused(t) \/ Crash(t) \/ CheckBreaks(t)
  BY <1>3 DEF LoadNothing, SyncRefused, Crash, CheckBreaks, cloud, report, asked
<1>4. CASE CheckObject(t)
  BY <1>4 DEF CheckObject, Advance, cloud, asked
<1>5. CASE UploadObject(t) \/ UploadBreaks(t)
  BY <1>5 DEF UploadObject, UploadBreaks, Write, Advance, report, asked
<1>6. CASE SkipObject(t) \/ CheckFails(t)
  BY <1>6 DEF SkipObject, CheckFails, NextDocument, Advance, cloud, asked
<1>7. CASE FindNoObject(t)
  BY <1>7 DEF FindNoObject, cloud, report, asked
<1>8. CASE LoadObject(t) \/ LoadFails(t)
  BY <1>8 DEF LoadObject, LoadFails, Write, NextDocument, Advance, asked
<1>9. CASE SyncCreated(t)
  BY <1>9 DEF SyncCreated, report, asked
<1> HIDE DEF TypeOK, Same, Goto, End, Add
<1> QED
  BY <1>1, <1>2, <1>3, <1>4, <1>5, <1>6, <1>7, <1>8, <1>9 DEF StepOf, AgentStep, LoaderStep

(* ... whose invariant it keeps as long as the bucket only grows. *)
LEMMA OthersKeepInv ==
  ASSUME NEW u \in Tasks, TaskInv(u), Same(u), Stored \subseteq Stored'
  PROVE  TaskInv(u)'
<1>1. /\ Documents(u)' = Documents(u) /\ Tried(u)' = Tried(u) /\ Object(u)' = Object(u)
      /\ Active(u)' = Active(u)
  BY DEF Same, Documents, Tried, Object, Active
<1>2. Fresh(u)' /\ Going(u)'
  BY <1>1 DEF TaskInv, Same, Fresh, Going
<1>3. Kept(u)'
  BY <1>1 DEF TaskInv, Same, Kept
<1>4. JobIsComplete(u)'
  BY <1>1 DEF TaskInv, Same, JobIsComplete
<1>5. u \in Requests => AsRequest(u)'
  BY <1>1 DEF TaskInv, Same, AsRequest
<1>6. u \in Loaders => AsLoader(u)'
  BY <1>1 DEF TaskInv, Same, AsLoader
<1> QED BY <1>2, <1>3, <1>4, <1>5, <1>6 DEF TaskInv

-------------------------------------------------------------------------------
(* What a step does for its own task.  The type of the state comes first. *)

LEMMA InitType == Init => TypeOK
<1>1. \A S : <<>> \in Seq(S)
  OBVIOUS
<1> QED BY <1>1 DEF Init, TypeOK

(* The position stays within the list. *)
LEMMA PositionType ==
  ASSUME TypeOK, NEW t \in Tasks, plan[t] # <<>>, plan' = plan,
         next' \in {next, [next EXCEPT ![t] = IF IsLast(t) THEN 1 ELSE @ + 1]}
  PROVE  /\ next' \in [Tasks -> Nat \ {0}]
         /\ \A u \in Tasks : plan'[u] # <<>> => next'[u] <= Len(plan'[u])
<1>1. plan[t] \in Seq(Objects) /\ next[t] \in 1 .. Len(plan[t]) /\ Len(plan[t]) \in Nat
  BY DEF TypeOK
<1>2. CASE next' = next
  BY <1>2 DEF TypeOK
<1>3. CASE next' = [next EXCEPT ![t] = IF IsLast(t) THEN 1 ELSE @ + 1]
  <2>1. next'[t] \in Nat \ {0} /\ next'[t] <= Len(plan[t])
    BY <1>1, <1>3 DEF IsLast, TypeOK
  <2> QED BY <1>3, <2>1 DEF TypeOK
<1> QED BY <1>2, <1>3

(* What the steps of task t do to its progress, the bucket and its report. *)
Moved(t) ==
  \/ \E place \in {"check", "put", "sync"} : Goto(t, place)
  \/ \E a \in {"invalid", "conflict", "error", "upload_failed", "incomplete", "submitted",
               "sync_failed", "crashed"} : End(t, a)

Written(t) ==
  /\ UNCHANGED <<content, wrote>> \/ Write(t)
  /\ jobs' = jobs /\ overwrite' = overwrite /\ before' = before

Reported(t) ==
  /\ found' = found \/ Add(found, t, Object(t))
  /\ uploaded' = uploaded \/ Add(uploaded, t, Object(t))
  /\ failed' = failed \/ Add(failed, t, Object(t))

LEMMA TypeStep ==
  ASSUME IInv, NEW t \in Tasks, StepOf(t)
  PROVE  TypeOK'
<1>0. TypeOK /\ (Active(t) => plan[t] # <<>>) /\ (pc[t] = "new" => plan[t] = <<>> /\ next[t] = 1)
  BY DEF IInv, TaskInv, Going, Fresh
<1>a. Active(t) => Object(t) \in Objects
  BY <1>0, AtWork
<1>b. ASSUME Active(t), UNCHANGED plan,
             next' \in {next, [next EXCEPT ![t] = IF IsLast(t) THEN 1 ELSE @ + 1]}
      PROVE  /\ next' \in [Tasks -> Nat \ {0}]
             /\ \A u \in Tasks : plan'[u] # <<>> => next'[u] <= Len(plan'[u])
  BY <1>0, <1>b, PositionType
<1>d. ASSUME Active(t), Written(t), Reported(t)
      PROVE  /\ content' \in [Objects -> Tasks \cup {None, Old}] /\ jobs' \in SUBSET Tasks
             /\ overwrite' \in [Tasks -> BOOLEAN] /\ before' \in [Tasks -> SUBSET Objects]
             /\ found' \in [Tasks -> SUBSET Objects] /\ uploaded' \in [Tasks -> SUBSET Objects]
             /\ failed' \in [Tasks -> SUBSET Objects] /\ wrote' \in [Tasks -> SUBSET Objects]
  <2>1. /\ content \in [Objects -> Tasks \cup {None, Old}] /\ wrote \in [Tasks -> SUBSET Objects]
        /\ found \in [Tasks -> SUBSET Objects] /\ uploaded \in [Tasks -> SUBSET Objects]
        /\ failed \in [Tasks -> SUBSET Objects] /\ Object(t) \in Objects
    BY <1>0, <1>a, <1>d DEF TypeOK
  <2>2. content' \in [Objects -> Tasks \cup {None, Old}]
    BY <2>1, <1>d DEF Written, Write
  <2>3. wrote' \in [Tasks -> SUBSET Objects]
    BY <2>1, <1>d DEF Written, Write, Add
  <2>4. found' \in [Tasks -> SUBSET Objects]
    BY <2>1, <1>d DEF Reported, Add
  <2>5. uploaded' \in [Tasks -> SUBSET Objects]
    BY <2>1, <1>d DEF Reported, Add
  <2>6. failed' \in [Tasks -> SUBSET Objects]
    BY <2>1, <1>d DEF Reported, Add
  <2> QED BY <1>0, <1>d, <2>2, <2>3, <2>4, <2>5, <2>6 DEF Written, TypeOK
<1>e. ASSUME Moved(t)
      PROVE  /\ pc' \in [Tasks -> {"new", "check", "put", "sync", "done"}]
             /\ answer' \in [Tasks -> {"none", "invalid", "conflict", "error", "upload_failed", "incomplete",
                                       "submitted", "sync_failed", "crashed"}]
  <2>1. /\ pc \in [Tasks -> {"new", "check", "put", "sync", "done"}]
        /\ answer \in [Tasks -> {"none", "invalid", "conflict", "error", "upload_failed", "incomplete",
                                 "submitted", "sync_failed", "crashed"}]
    BY <1>0 DEF TypeOK
  <2>2. CASE \E place \in {"check", "put", "sync"} : Goto(t, place)
    BY <2>1, <2>2 DEF Goto
  <2>3. CASE \E a \in {"invalid", "conflict", "error", "upload_failed", "incomplete", "submitted",
                       "sync_failed", "crashed"} : End(t, a)
    BY <2>1, <2>3 DEF End
  <2> QED BY <1>e, <2>2, <2>3 DEF Moved
<1> USE <1>0 DEF TypeOK, Add
<1>1. ASSUME NEW p \in Plans, Reject(t, p)
      PROVE  TypeOK'
  BY <1>1 DEF End, Reject, cloud, report, asked
<1>2. ASSUME NEW p \in Plans, NEW o \in BOOLEAN, Submit(t, p, o) \/ Load(t, p, o)
      PROVE  TypeOK'
  <2>1. p \in Seq(Objects) /\ p # <<>> /\ Begin(t, p, o)
    BY <1>2, PlansOfObjects DEF Submit, Load, Acceptable
  <2>2. Len(p) \in Nat /\ 1 <= Len(p)
    BY <2>1
  <2>3. Stored \in SUBSET Objects
    BY DEF Stored
  <2> QED BY <2>1, <2>2, <2>3 DEF Goto, Begin, cloud, report
<1>3. CASE LoadNothing(t) \/ SyncRefused(t) \/ Crash(t) \/ CheckBreaks(t)
  BY <1>3 DEF End, LoadNothing, SyncRefused, Crash, CheckBreaks, cloud, report, asked
<1>4. CASE CheckObject(t)
  <2>1. Active(t) /\ UNCHANGED plan /\ next' \in {next, [next EXCEPT ![t] = IF IsLast(t) THEN 1 ELSE @ + 1]}
    BY <1>4 DEF CheckObject, Advance, Active, cloud, asked
  <2>2. /\ next' \in [Tasks -> Nat \ {0}]
        /\ \A u \in Tasks : plan'[u] # <<>> => next'[u] <= Len(plan'[u])
    BY <2>1, <1>b
  <2>3. Moved(t)
    BY <1>4 DEF Moved, CheckObject, Advance
  <2>4. Written(t) /\ Reported(t)
    BY <1>4 DEF Written, Reported, CheckObject, cloud, asked
  <2> QED BY <2>1, <2>2, <2>3, <2>4, <1>d, <1>e
<1>5. CASE UploadObject(t) \/ UploadBreaks(t)
  <2>1. Active(t) /\ UNCHANGED plan /\ next' \in {next, [next EXCEPT ![t] = IF IsLast(t) THEN 1 ELSE @ + 1]}
    BY <1>5 DEF UploadObject, UploadBreaks, Write, Advance, Active, report, asked
  <2>2. /\ next' \in [Tasks -> Nat \ {0}]
        /\ \A u \in Tasks : plan'[u] # <<>> => next'[u] <= Len(plan'[u])
    BY <2>1, <1>b
  <2>3. Moved(t)
    BY <1>5 DEF Moved, UploadObject, UploadBreaks, Write, Advance
  <2>4. Written(t) /\ Reported(t)
    BY <1>5 DEF Written, Reported, UploadObject, UploadBreaks, Write, report, asked
  <2> QED BY <2>1, <2>2, <2>3, <2>4, <1>d, <1>e
<1>6. CASE SkipObject(t) \/ CheckFails(t)
  <2>1. Active(t) /\ UNCHANGED plan /\ next' \in {next, [next EXCEPT ![t] = IF IsLast(t) THEN 1 ELSE @ + 1]}
    BY <1>6 DEF SkipObject, CheckFails, NextDocument, Advance, Active, cloud, asked
  <2>2. /\ next' \in [Tasks -> Nat \ {0}]
        /\ \A u \in Tasks : plan'[u] # <<>> => next'[u] <= Len(plan'[u])
    BY <2>1, <1>b
  <2>3. Moved(t)
    BY <1>6 DEF Moved, SkipObject, CheckFails, NextDocument, Advance
  <2>4. Written(t) /\ Reported(t)
    BY <1>6 DEF Written, Reported, SkipObject, CheckFails, cloud, asked
  <2> QED BY <2>1, <2>2, <2>3, <2>4, <1>d, <1>e
<1>7. CASE FindNoObject(t)
  BY <1>7 DEF Goto, FindNoObject, cloud, report, asked
<1>8. CASE LoadObject(t) \/ LoadFails(t)
  <2>1. Active(t) /\ UNCHANGED plan /\ next' \in {next, [next EXCEPT ![t] = IF IsLast(t) THEN 1 ELSE @ + 1]}
    BY <1>8 DEF LoadObject, LoadFails, Write, NextDocument, Advance, Active, asked
  <2>2. /\ next' \in [Tasks -> Nat \ {0}]
        /\ \A u \in Tasks : plan'[u] # <<>> => next'[u] <= Len(plan'[u])
    BY <2>1, <1>b
  <2>3. Moved(t)
    BY <1>8 DEF Moved, LoadObject, LoadFails, Write, NextDocument, Advance
  <2>4. Written(t) /\ Reported(t)
    BY <1>8 DEF Written, Reported, LoadObject, LoadFails, Write, asked
  <2> QED BY <2>1, <2>2, <2>3, <2>4, <1>d, <1>e
<1>9. CASE SyncCreated(t)
  BY <1>9 DEF End, SyncCreated, report, asked
<1> HIDE DEF TypeOK, Add
<1> QED
  BY <1>1, <1>2, <1>3, <1>4, <1>5, <1>6, <1>7, <1>8, <1>9 DEF StepOf, AgentStep, LoaderStep

LEMMA BucketGrows ==
  ASSUME IInv, NEW t \in Tasks, StepOf(t)
  PROVE  Stored \subseteq Stored'
<1>1. TypeOK /\ (Active(t) => plan[t] # <<>>)
  BY DEF IInv, TaskInv, Going
<1>2. content' = content \/ (Active(t) /\ Write(t))
  BY DEF StepOf, AgentStep, LoaderStep, Reject, Submit, Begin, LoadNothing, Load, CheckObject,
         CheckBreaks, UploadObject, UploadBreaks, SkipObject, FindNoObject, CheckFails, LoadObject,
         LoadFails, SyncCreated, SyncRefused, Crash, cloud, Active
<1> QED BY <1>1, <1>2, BucketOnlyGrows DEF Stored

-------------------------------------------------------------------------------
(* The invariant of a task survives its own steps. *)

LEMMA BeginKeepsInv ==
  ASSUME IInv, NEW t \in Tasks, NEW p \in Plans, NEW o \in BOOLEAN, Begin(t, p, o), p # <<>>
  PROVE  TaskInv(t)'
<1>1. /\ TypeOK /\ plan[t] = <<>> /\ wrote[t] = {} /\ next[t] = 1 /\ answer[t] = "none"
      /\ found[t] = {} /\ uploaded[t] = {} /\ failed[t] = {} /\ t \notin jobs
  BY DEF IInv, TaskInv, Fresh, Going, Begin
<1>2. /\ plan'[t] = p /\ wrote'[t] = {} /\ next'[t] = 1 /\ answer'[t] = "none" /\ t \notin jobs'
      /\ found'[t] = {} /\ uploaded'[t] = {} /\ failed'[t] = {} /\ overwrite'[t] = o
      /\ before'[t] = Stored /\ pc'[t] = (IF o THEN "put" ELSE "check")
      /\ content' = content
  BY <1>1 DEF Begin, Goto, TypeOK, cloud, report
<1>3. Stored' = Stored /\ Tried(t)' = {}
  BY <1>2 DEF Stored, Tried
<1>4. Fresh(t)' /\ Going(t)' /\ Kept(t)' /\ JobIsComplete(t)'
  BY <1>2, <1>3 DEF Fresh, Going, Kept, JobIsComplete
<1>5. AsRequest(t)' /\ AsLoader(t)'
  BY <1>2, <1>3 DEF AsRequest, AsLoader
<1> QED BY <1>4, <1>5 DEF TaskInv

(* An end without another effect, for a reason the clauses allow. *)
LEMMA EndKeepsInv ==
  ASSUME IInv, NEW t \in Tasks, NEW a, End(t, a), UNCHANGED <<cloud, next, report, asked>>,
         \/ pc[t] = "new" /\ a = "invalid"
         \/ pc[t] = "check" /\ t \in Requests /\ a = "error"
         \/ pc[t] = "sync" /\ a = "sync_failed"
         \/ Active(t) /\ a = "crashed"
  PROVE  TaskInv(t)'
<1>1. TypeOK /\ Fresh(t) /\ Going(t) /\ Kept(t) /\ JobIsComplete(t)
  BY DEF IInv, TaskInv
<1>2. /\ plan' = plan /\ wrote' = wrote /\ next' = next /\ jobs' = jobs /\ content' = content
      /\ found' = found /\ uploaded' = uploaded /\ failed' = failed /\ overwrite' = overwrite
      /\ before' = before /\ pc'[t] = "done" /\ answer'[t] = a
  BY <1>1 DEF End, TypeOK, cloud, report, asked
<1>3. /\ Stored' = Stored /\ Documents(t)' = Documents(t)
  BY <1>2 DEF Stored, Documents
<1>4. Fresh(t)' /\ Going(t)'
  BY <1>1, <1>2 DEF Fresh, Going, Active
<1>5. Kept(t)' /\ JobIsComplete(t)'
  BY <1>1, <1>2, <1>3 DEF Kept, JobIsComplete
<1>6. ASSUME t \in Requests
      PROVE  AsRequest(t)'
  <2>1. AsRequest(t)
    BY <1>6 DEF IInv, TaskInv
  <2> QED BY <1>1, <1>2, <1>3, <2>1 DEF AsRequest, Fresh
<1>7. ASSUME t \in Loaders
      PROVE  AsLoader(t)'
  <2>1. AsLoader(t) /\ t \notin Requests
    BY <1>7, NamesAssumption DEF IInv, TaskInv
  <2> QED BY <1>1, <1>2, <2>1 DEF AsLoader, Fresh
<1> QED BY <1>4, <1>5, <1>6, <1>7 DEF TaskInv

LEMMA CheckKeepsInv ==
  ASSUME IInv, NEW t \in Requests, CheckObject(t)
  PROVE  TaskInv(t)'
<1>1. /\ TypeOK /\ Fresh(t) /\ Going(t) /\ Kept(t) /\ JobIsComplete(t) /\ AsRequest(t)
      /\ t \notin Loaders /\ t \in Tasks
  BY NamesAssumption DEF IInv, TaskInv, Tasks
<1>2. /\ plan' = plan /\ wrote' = wrote /\ jobs' = jobs /\ content' = content
      /\ uploaded' = uploaded /\ failed' = failed /\ overwrite' = overwrite /\ before' = before
      /\ pc[t] = "check"
  BY DEF CheckObject, cloud, asked
<1>3. /\ plan[t] # <<>> /\ answer[t] = "none" /\ t \notin jobs
  BY <1>1, <1>2 DEF Going, Active
<1>4. /\ Stored' = Stored /\ Documents(t)' = Documents(t)
  BY <1>2 DEF Stored, Documents
<1>5. found'[t] = found[t] \cup (IF Exists(t) THEN {Object(t)} ELSE {})
  BY <1>1 DEF CheckObject, TypeOK
<1>6. Exists(t) <=> Object(t) \in Stored
  BY <1>1, <1>3, AtWork DEF Exists, Stored
<1>7. found'[t] \subseteq Stored /\ (found'[t] = {} => (Tried(t) \cup {Object(t)}) \cap before[t] = {})
  BY <1>1, <1>2, <1>5, <1>6 DEF Kept, AsRequest
<1>8. Kept(t)' /\ JobIsComplete(t)'
  BY <1>1, <1>2, <1>3, <1>4, <1>7 DEF Kept, JobIsComplete
<1>9. CASE ~IsLast(t)
  <2>1. pc'[t] = "check" /\ answer' = answer /\ next'[t] = next[t] + 1
    BY <1>1, <1>9 DEF CheckObject, Advance, Goto, TypeOK
  <2>2. Tried(t)' = Tried(t) \cup {Object(t)}
    BY <1>1, <1>2, <1>3, <2>1, TriedGrows
  <2> QED BY <1>1, <1>2, <1>3, <1>4, <1>7, <1>8, <2>1, <2>2 DEF TaskInv, Fresh, Going, Active, AsRequest
<1>10. CASE IsLast(t) /\ found'[t] = {}
  <2>1. pc'[t] = "put" /\ answer' = answer /\ next'[t] = 1
    BY <1>1, <1>10 DEF CheckObject, Advance, Goto, TypeOK
  <2>2. Tried(t)' = {}
    BY <2>1 DEF Tried
  <2>3. Documents(t) \cap before[t] = {}
    BY <1>1, <1>3, <1>7, <1>10, AtWork
  <2> QED BY <1>1, <1>2, <1>3, <1>4, <1>8, <2>1, <2>2, <2>3 DEF TaskInv, Fresh, Going, Active, AsRequest
<1>11. CASE IsLast(t) /\ found'[t] # {}
  <2>1. pc'[t] = "done" /\ answer'[t] = "conflict"
    BY <1>1, <1>11 DEF CheckObject, End, TypeOK
  <2> QED BY <1>1, <1>2, <1>3, <1>4, <1>8, <2>1 DEF TaskInv, Fresh, Going, Active, AsRequest
<1> QED BY <1>9, <1>10, <1>11

LEMMA UploadKeepsInv ==
  ASSUME IInv, NEW t \in Requests, UploadObject(t) \/ UploadBreaks(t)
  PROVE  TaskInv(t)'
<1>1. /\ TypeOK /\ Fresh(t) /\ Going(t) /\ Kept(t) /\ JobIsComplete(t) /\ AsRequest(t)
      /\ t \notin Loaders /\ t \in Tasks
  BY NamesAssumption DEF IInv, TaskInv, Tasks
<1>2. /\ plan' = plan /\ jobs' = jobs /\ found' = found /\ failed' = failed
      /\ overwrite' = overwrite /\ before' = before /\ pc[t] = "put"
  BY DEF UploadObject, UploadBreaks, report, asked
<1>3. /\ plan[t] # <<>> /\ answer[t] = "none" /\ t \notin jobs
      /\ uploaded[t] = Tried(t) /\ wrote[t] = Tried(t)
      /\ ~overwrite[t] => Documents(t) \cap before[t] = {}
  BY <1>1, <1>2 DEF Going, Active, AsRequest
<1>4. /\ Object(t) \in Documents(t) /\ Documents(t)' = Documents(t) /\ Tried(t) \subseteq Documents(t)
      /\ IsLast(t) => Documents(t) = Tried(t) \cup {Object(t)}
  BY <1>1, <1>2, <1>3, AtWork DEF Documents
<1>5. CASE UploadObject(t)
  <2>1. /\ Stored' = Stored \cup {Object(t)} /\ wrote'[t] = wrote[t] \cup {Object(t)}
        /\ uploaded'[t] = uploaded[t] \cup {Object(t)}
    BY <1>1, <1>3, <1>5, BucketOnlyGrows DEF UploadObject, Add, TypeOK
  <2>2. Kept(t)' /\ JobIsComplete(t)'
    BY <1>1, <1>2, <1>3, <1>4, <2>1 DEF Kept, JobIsComplete
  <2>3. CASE ~IsLast(t)
    <3>1. pc'[t] = "put" /\ answer' = answer /\ next'[t] = next[t] + 1
      BY <1>1, <1>5, <2>3 DEF UploadObject, Advance, Goto, TypeOK
    <3>2. Tried(t)' = Tried(t) \cup {Object(t)}
      BY <1>1, <1>2, <1>3, <3>1, TriedGrows
    <3> QED
      BY <1>1, <1>2, <1>3, <1>4, <2>1, <2>2, <3>1, <3>2 DEF TaskInv, Fresh, Going, Active, AsRequest
  <2>4. CASE IsLast(t)
    <3>1. pc'[t] = "sync" /\ answer' = answer
      BY <1>1, <1>5, <2>4 DEF UploadObject, Goto, TypeOK
    <3> QED
      BY <1>1, <1>2, <1>3, <1>4, <2>1, <2>2, <2>4, <3>1 DEF TaskInv, Fresh, Going, Active, AsRequest
  <2> QED BY <2>3, <2>4
<1>6. CASE UploadBreaks(t)
  <2>1. pc'[t] = "done" /\ answer'[t] = "upload_failed" /\ uploaded' = uploaded
    BY <1>1, <1>6 DEF UploadBreaks, End, TypeOK, report
  <2>2. /\ Stored \subseteq Stored' /\ wrote'[t] \subseteq Stored' /\ wrote[t] \subseteq wrote'[t]
        /\ wrote'[t] \subseteq wrote[t] \cup {Object(t)}
    <3>1. CASE UNCHANGED <<content, wrote>>
      BY <1>1, <3>1 DEF Stored, Kept
    <3>2. CASE Write(t)
      BY <1>1, <1>3, <3>2, BucketOnlyGrows DEF Kept
    <3> QED BY <1>6, <3>1, <3>2 DEF UploadBreaks
  <2>3. Kept(t)' /\ JobIsComplete(t)'
    BY <1>1, <1>2, <1>3, <1>4, <2>1, <2>2 DEF Kept, JobIsComplete
  <2> QED BY <1>1, <1>2, <1>3, <2>1, <2>3 DEF TaskInv, Fresh, Going, Active, AsRequest
<1> QED BY <1>5, <1>6

LEMMA SyncKeepsInv ==
  ASSUME IInv, NEW t \in Tasks, SyncCreated(t)
  PROVE  TaskInv(t)'
<1>1. /\ TypeOK /\ Fresh(t) /\ Going(t) /\ Kept(t) /\ pc[t] = "sync"
      /\ t \in Requests => AsRequest(t) /\ t \notin Loaders
      /\ t \in Loaders => AsLoader(t) /\ t \notin Requests
  BY NamesAssumption DEF IInv, TaskInv, SyncCreated
<1>2. /\ plan' = plan /\ wrote' = wrote /\ next' = next /\ jobs' = jobs \cup {t} /\ content' = content
      /\ found' = found /\ uploaded' = uploaded /\ failed' = failed /\ overwrite' = overwrite
      /\ before' = before /\ pc'[t] = "done" /\ answer'[t] \in {"submitted", "sync_failed"}
  BY <1>1 DEF SyncCreated, End, TypeOK, report, asked
<1>3. /\ Stored' = Stored /\ Documents(t)' = Documents(t)
  BY <1>2 DEF Stored, Documents
<1>4. Fresh(t)' /\ Going(t)'
  BY <1>2 DEF Fresh, Going, Active
<1>5. Kept(t)'
  BY <1>1, <1>2, <1>3 DEF Kept
<1>6. CASE t \in Requests
  <2>1. AsRequest(t)'
    BY <1>1, <1>2, <1>3, <1>6 DEF AsRequest
  <2>2. JobIsComplete(t)'
    BY <1>1, <1>2, <1>3, <1>6 DEF AsRequest, JobIsComplete, Kept
  <2> QED BY <1>1, <1>4, <1>5, <1>6, <2>1, <2>2 DEF TaskInv
<1>7. CASE t \in Loaders
  <2>1. AsLoader(t)'
    BY <1>1, <1>2, <1>3, <1>7 DEF AsLoader
  <2>2. JobIsComplete(t)'
    BY <1>1, <1>2, <1>3, <1>7 DEF AsLoader, JobIsComplete, Kept
  <2> QED BY <1>1, <1>4, <1>5, <1>7, <2>1, <2>2 DEF TaskInv
<1> QED BY <1>6, <1>7 DEF Tasks

(* A loader that has accounted for the document at work in one of the three *)
(* ways may go on.                                                          *)
LEMMA NextKeepsInv ==
  ASSUME IInv, NEW t \in Loaders, pc[t] \in {"check", "put"}, NextDocument(t),
         UNCHANGED asked, jobs' = jobs,
         Stored \subseteq Stored', found'[t] \subseteq Stored', wrote'[t] \subseteq Stored',
         wrote'[t] = wrote[t] \/ (pc[t] = "put" /\ wrote'[t] = wrote[t] \cup {Object(t)}),
         uploaded'[t] \subseteq wrote'[t],
         uploaded'[t] \cup found'[t] \cup failed'[t]
           = uploaded[t] \cup found[t] \cup failed[t] \cup {Object(t)}
  PROVE  TaskInv(t)'
<1>1. /\ TypeOK /\ Going(t) /\ Kept(t) /\ AsLoader(t)
      /\ t \notin Requests /\ t \in Tasks
  BY NamesAssumption DEF IInv, TaskInv, Tasks
<1>2. plan' = plan /\ overwrite' = overwrite /\ before' = before
  BY DEF asked
<1>3. /\ plan[t] # <<>> /\ answer[t] = "none" /\ t \notin jobs
      /\ Tried(t) = uploaded[t] \cup found[t] \cup failed[t]
      /\ pc[t] = "put" /\ ~overwrite[t] => Object(t) \notin before[t]
  BY <1>1 DEF Going, Active, AsLoader
<1>4. /\ Object(t) \in Documents(t) /\ Documents(t)' = Documents(t)
      /\ IsLast(t) => Documents(t) = Tried(t) \cup {Object(t)}
  BY <1>1, <1>2, <1>3, AtWork DEF Documents
<1>5. Kept(t)' /\ JobIsComplete(t)'
  BY <1>1, <1>2, <1>3, <1>4 DEF Kept, JobIsComplete
<1>6. CASE ~IsLast(t)
  <2>1. /\ pc'[t] = (IF overwrite[t] THEN "put" ELSE "check")
        /\ answer' = answer /\ next'[t] = next[t] + 1
    BY <1>1, <1>6 DEF NextDocument, Advance, Goto, TypeOK
  <2>2. Tried(t)' = Tried(t) \cup {Object(t)}
    BY <1>1, <1>2, <1>3, <2>1, TriedGrows
  <2>3. AsLoader(t)'
    BY <1>2, <1>3, <2>1, <2>2 DEF AsLoader
  <2> QED BY <1>1, <1>2, <1>3, <1>5, <2>1, <2>3 DEF TaskInv, Fresh, Going, Active
<1>7. CASE IsLast(t) /\ failed'[t] = {}
  <2>1. pc'[t] = "sync" /\ answer' = answer
    BY <1>1, <1>7 DEF NextDocument, Goto, TypeOK
  <2>2. AsLoader(t)'
    BY <1>3, <1>4, <1>7, <2>1 DEF AsLoader
  <2> QED BY <1>1, <1>2, <1>3, <1>5, <2>1, <2>2 DEF TaskInv, Fresh, Going, Active
<1>8. CASE IsLast(t) /\ failed'[t] # {}
  <2>1. pc'[t] = "done" /\ answer'[t] = "incomplete"
    BY <1>1, <1>8 DEF NextDocument, End, TypeOK
  <2>2. AsLoader(t)'
    BY <2>1 DEF AsLoader
  <2> QED BY <1>1, <1>2, <1>3, <1>5, <2>1, <2>2 DEF TaskInv, Fresh, Going, Active
<1> QED BY <1>6, <1>7, <1>8

LEMMA LoaderKeepsInv ==
  ASSUME IInv, NEW t \in Loaders, LoaderStep(t)
  PROVE  TaskInv(t)'
<1>1. /\ TypeOK /\ Fresh(t) /\ Going(t) /\ Kept(t) /\ AsLoader(t) /\ JobIsComplete(t)
      /\ t \notin Requests /\ t \in Tasks
  BY NamesAssumption DEF IInv, TaskInv, Tasks
<1>2. pc[t] \in {"check", "put"} /\ plan[t] # <<>>
  BY <1>1 DEF LoaderStep, SkipObject, FindNoObject, CheckFails, LoadObject, LoadFails, Going, Active
<1>3. Exists(t) <=> Object(t) \in Stored
  BY <1>1, <1>2, AtWork DEF Exists, Stored
<1>4. CASE SkipObject(t) \/ CheckFails(t)
  <2>1. Stored' = Stored /\ wrote' = wrote /\ jobs' = jobs /\ uploaded' = uploaded /\ UNCHANGED asked
    BY <1>4 DEF SkipObject, CheckFails, cloud, Stored
  <2>2. /\ NextDocument(t)
        /\ \/ found'[t] = found[t] \cup {Object(t)} /\ failed' = failed /\ Object(t) \in Stored
           \/ found' = found /\ failed'[t] = failed[t] \cup {Object(t)}
    BY <1>1, <1>3, <1>4 DEF SkipObject, CheckFails, Add, TypeOK
  <2> QED BY <1>1, <1>2, <2>1, <2>2, NextKeepsInv DEF Kept
<1>5. CASE LoadObject(t) \/ LoadFails(t)
  <2>1. /\ pc[t] = "put" /\ NextDocument(t) /\ jobs' = jobs /\ found' = found /\ UNCHANGED asked
        /\ Write(t) \/ UNCHANGED <<content, wrote>>
    BY <1>5 DEF LoadObject, LoadFails
  <2>2. \/ Stored' = Stored /\ wrote' = wrote
        \/ Stored' = Stored \cup {Object(t)} /\ wrote'[t] = wrote[t] \cup {Object(t)}
    BY <1>1, <1>2, <2>1, BucketOnlyGrows DEF Stored
  <2>3. \/ /\ uploaded'[t] = uploaded[t] \cup {Object(t)} /\ failed' = failed
           /\ wrote'[t] = wrote[t] \cup {Object(t)}
        \/ uploaded' = uploaded /\ failed'[t] = failed[t] \cup {Object(t)}
    BY <1>1, <1>2, <1>5, BucketOnlyGrows DEF LoadObject, LoadFails, Add, TypeOK
  <2> QED BY <1>1, <2>1, <2>2, <2>3, NextKeepsInv DEF Kept
<1>6. CASE FindNoObject(t)
  <2>1. /\ plan' = plan /\ wrote' = wrote /\ next' = next /\ jobs' = jobs /\ content' = content
        /\ found' = found /\ uploaded' = uploaded /\ failed' = failed /\ overwrite' = overwrite
        /\ before' = before /\ pc[t] = "check" /\ pc'[t] = "put" /\ answer' = answer
        /\ Object(t) \notin Stored
    BY <1>1, <1>3, <1>6 DEF FindNoObject, Goto, TypeOK, cloud, report, asked
  <2>2. /\ Stored' = Stored /\ Documents(t)' = Documents(t) /\ Tried(t)' = Tried(t)
        /\ Object(t)' = Object(t)
    BY <2>1 DEF Stored, Documents, Tried, Object
  <2>3. Kept(t)' /\ JobIsComplete(t)'
    BY <1>1, <2>1, <2>2 DEF Kept, JobIsComplete
  <2>4. AsLoader(t)'
    BY <1>1, <2>1, <2>2 DEF AsLoader, Kept
  <2> QED BY <1>1, <1>2, <2>1, <2>3, <2>4 DEF TaskInv, Fresh, Going, Active
<1> QED BY <1>4, <1>5, <1>6 DEF LoaderStep

-------------------------------------------------------------------------------
(* The invariant. *)

LEMMA InitInv == Init => IInv
<1> SUFFICES ASSUME Init PROVE IInv
  OBVIOUS
<1>1. TypeOK
  BY InitType
<1>2. \A t \in Tasks : Fresh(t) /\ Going(t) /\ Kept(t) /\ JobIsComplete(t)
  BY DEF Init, Fresh, Going, Active, Kept, JobIsComplete
<1>3. \A t \in Tasks : AsRequest(t) /\ AsLoader(t)
  BY DEF Init, AsRequest, AsLoader
<1> QED BY <1>1, <1>2, <1>3 DEF IInv, TaskInv

LEMMA OwnStepKeepsInv ==
  ASSUME IInv, NEW t \in Tasks, StepOf(t)
  PROVE  TaskInv(t)'
<1>1. ASSUME t \in Requests, NEW p \in Plans, Reject(t, p)
      PROVE  TaskInv(t)'
  BY <1>1, EndKeepsInv DEF Reject
<1>2. ASSUME NEW p \in Plans, NEW o \in BOOLEAN, Submit(t, p, o) \/ Load(t, p, o)
      PROVE  TaskInv(t)'
  BY <1>2, BeginKeepsInv DEF Submit, Load, Acceptable
<1>3. CASE LoadNothing(t) \/ SyncRefused(t) \/ Crash(t) \/ (t \in Requests /\ CheckBreaks(t))
  BY <1>3, EndKeepsInv DEF LoadNothing, SyncRefused, Crash, CheckBreaks
<1> QED
  BY <1>1, <1>2, <1>3, CheckKeepsInv, UploadKeepsInv, SyncKeepsInv, LoaderKeepsInv
     DEF StepOf, AgentStep

LEMMA NextInv == IInv /\ [Next]_vars => IInv'
<1>1. ASSUME IInv, Next
      PROVE  IInv'
  <2>1. PICK t \in Tasks : StepOf(t)
    BY <1>1, EveryStep
  <2>2. TypeOK /\ TypeOK' /\ TaskInv(t)' /\ Stored \subseteq Stored'
    BY <1>1, <2>1, TypeStep, OwnStepKeepsInv, BucketGrows DEF IInv
  <2>3. \A u \in Tasks \ {t} : TaskInv(u)'
    BY <1>1, <2>1, <2>2, OthersAreSame, OthersKeepInv DEF IInv
  <2> QED BY <2>2, <2>3 DEF IInv
<1>2. ASSUME IInv, UNCHANGED vars
      PROVE  IInv'
  <2>1. TypeOK'
    BY <1>2 DEF vars, cloud, progress, report, asked, IInv, TypeOK
  <2>2. \A u \in Tasks : Same(u) /\ Stored' = Stored
    BY <1>2 DEF vars, cloud, progress, report, asked, Same, Stored
  <2> QED BY <1>2, <2>1, <2>2, OthersKeepInv DEF IInv
<1> QED BY <1>1, <1>2

(* The inductive invariant holds of every behaviour of the two programs.   *)
THEOREM InvariantHolds == Spec => []IInv
BY InitInv, NextInv, PTL DEF Spec

(* Every variable keeps to its type, whatever tasks run (TypeOK).          *)
THEOREM TypeInvariant == Spec => []TypeOK
<1>1. IInv => TypeOK
  BY DEF IInv
<1> QED BY <1>1, InvariantHolds, PTL

(* No connector job is ever created for a set of documents of which one is *)
(* missing from the bucket (JobsAreComplete).                              *)
THEOREM CompleteJobs == Spec => []JobsAreComplete
<1>1. IInv => JobsAreComplete
  BY DEF IInv, TypeOK, TaskInv, JobIsComplete, JobsAreComplete
<1> QED BY <1>1, InvariantHolds, PTL

(* A task without overwrite never replaces what was in the bucket when it  *)
(* began, whatever the other tasks do meanwhile (ExistingObjectsAreKept).  *)
THEOREM ExistingObjectsKept == Spec => []ExistingObjectsAreKept
<1>1. IInv => ExistingObjectsAreKept
  BY DEF IInv, TaskInv, Kept, ExistingObjectsAreKept
<1> QED BY <1>1, InvariantHolds, PTL

(* A refused submission leaves no trace, and one that came to the creation *)
(* of its job names all it left (AnswersAccountForObjects).                *)
THEOREM ObjectsAccountedFor == Spec => []AnswersAccountForObjects
<1>1. IInv => AnswersAccountForObjects
  BY DEF IInv, TaskInv, AsRequest, AnswersAccountForObjects, Tasks
<1> QED BY <1>1, InvariantHolds, PTL

-------------------------------------------------------------------------------
(* The summary of a loader.  Its three sets count its documents one by     *)
(* one: a document is put into one of them, and is in none of them before. *)

Counted(t) == Cardinality(uploaded[t]) + Cardinality(found[t]) + Cardinality(failed[t])

Summarized(t) ==
  answer[t] \in {"incomplete", "submitted", "sync_failed"} =>
    /\ Documents(t) = uploaded[t] \cup found[t] \cup failed[t]
    /\ Len(plan[t]) = Counted(t)
    /\ answer[t] = "incomplete" <=> failed[t] # {}

SumInv(t) ==
  /\ Distinct(plan[t])
  /\ IsFiniteSet(uploaded[t]) /\ IsFiniteSet(found[t]) /\ IsFiniteSet(failed[t])
  /\ pc[t] \in {"check", "put"} => Counted(t) = next[t] - 1
  /\ pc[t] = "sync" => Counted(t) = Len(plan[t])
  /\ Summarized(t)

(* In a list without repetition the document at work was not dealt with.   *)
LEMMA AtWorkIsNew ==
  ASSUME TypeOK, NEW t \in Tasks, plan[t] # <<>>, Distinct(plan[t])
  PROVE  Object(t) \notin Tried(t)
<1>1. plan[t] \in Seq(Objects) /\ next[t] \in 1 .. Len(plan[t]) /\ Len(plan[t]) \in Nat
  BY DEF TypeOK
<1>2. \A i \in 1 .. next[t] - 1 : i \in DOMAIN plan[t] /\ i # next[t]
  BY <1>1
<1> QED BY <1>1, <1>2 DEF Object, Tried, Distinct

(* A loader that put the document at work into one of the sets goes on.    *)
LEMMA NextKeepsSum ==
  ASSUME IInv, NEW t \in Loaders, SumInv(t), pc[t] \in {"check", "put"}, NextDocument(t), plan' = plan,
         \/ /\ uploaded'[t] = uploaded[t] \cup {Object(t)}
            /\ found'[t] = found[t] /\ failed'[t] = failed[t]
         \/ /\ found'[t] = found[t] \cup {Object(t)}
            /\ uploaded'[t] = uploaded[t] /\ failed'[t] = failed[t]
         \/ /\ failed'[t] = failed[t] \cup {Object(t)}
            /\ uploaded'[t] = uploaded[t] /\ found'[t] = found[t]
  PROVE  SumInv(t)'
<1>1. /\ TypeOK /\ plan[t] # <<>> /\ answer[t] = "none" /\ t \in Tasks
      /\ Tried(t) = uploaded[t] \cup found[t] \cup failed[t]
  BY DEF IInv, TaskInv, Going, Active, AsLoader, Tasks
<1>2. Object(t) \notin uploaded[t] \cup found[t] \cup failed[t]
  BY <1>1, AtWorkIsNew DEF SumInv
<1>3. /\ IsFiniteSet(uploaded[t]) /\ IsFiniteSet(found[t]) /\ IsFiniteSet(failed[t])
      /\ Cardinality(uploaded[t]) \in Nat /\ Cardinality(found[t]) \in Nat
      /\ Cardinality(failed[t]) \in Nat
  BY FS_CardinalityType DEF SumInv
<1>4. \A S \in {uploaded[t], found[t], failed[t]} :
        IsFiniteSet(S \cup {Object(t)}) /\ Cardinality(S \cup {Object(t)}) = Cardinality(S) + 1
  BY <1>2, <1>3, FS_AddElement
<1>5. /\ IsFiniteSet(uploaded'[t]) /\ IsFiniteSet(found'[t]) /\ IsFiniteSet(failed'[t])
      /\ Counted(t)' = Counted(t) + 1
  <2>1. CASE uploaded'[t] = uploaded[t] \cup {Object(t)} /\ found'[t] = found[t] /\ failed'[t] = failed[t]
    BY <1>3, <1>4, <2>1 DEF Counted
  <2>2. CASE found'[t] = found[t] \cup {Object(t)} /\ uploaded'[t] = uploaded[t] /\ failed'[t] = failed[t]
    BY <1>3, <1>4, <2>2 DEF Counted
  <2>3. CASE failed'[t] = failed[t] \cup {Object(t)} /\ uploaded'[t] = uploaded[t] /\ found'[t] = found[t]
    BY <1>3, <1>4, <2>3 DEF Counted
  <2> QED BY <2>1, <2>2, <2>3
<1>6. next[t] \in Nat /\ Len(plan[t]) \in Nat /\ Counted(t)' = next[t]
  BY <1>1, <1>5 DEF SumInv, TypeOK
<1>7. uploaded'[t] \cup found'[t] \cup failed'[t] = Tried(t) \cup {Object(t)}
  BY <1>1
<1>8. CASE ~IsLast(t)
  <2>1. pc'[t] \in {"check", "put"} /\ answer' = answer /\ next'[t] = next[t] + 1
    BY <1>1, <1>8 DEF NextDocument, Advance, Goto, TypeOK
  <2> QED BY <1>1, <1>5, <1>6, <2>1 DEF SumInv, Summarized
<1>9. CASE IsLast(t) /\ failed'[t] = {}
  <2>1. pc'[t] = "sync" /\ answer' = answer
    BY <1>1, <1>9 DEF NextDocument, Goto, TypeOK
  <2>2. Counted(t)' = Len(plan'[t])
    BY <1>6, <1>9 DEF IsLast
  <2> QED BY <1>1, <1>5, <2>1, <2>2 DEF SumInv, Summarized
<1>10. CASE IsLast(t) /\ failed'[t] # {}
  <2>1. pc'[t] = "done" /\ answer'[t] = "incomplete"
    BY <1>1, <1>10 DEF NextDocument, End, TypeOK
  <2>2. Counted(t)' = Len(plan'[t])
    BY <1>6, <1>10 DEF IsLast
  <2>3. Documents(t)' = uploaded'[t] \cup found'[t] \cup failed'[t]
    BY <1>1, <1>7, <1>10, AtWork DEF Documents
  <2>4. Summarized(t)'
    BY <1>10, <2>1, <2>2, <2>3 DEF Summarized
  <2> QED BY <1>5, <2>1, <2>4 DEF SumInv
<1> QED BY <1>8, <1>9, <1>10

LEMMA OwnStepKeepsSum ==
  ASSUME IInv, NEW t \in Loaders, SumInv(t), StepOf(t)
  PROVE  SumInv(t)'
<1>1. /\ TypeOK /\ Fresh(t) /\ Going(t) /\ AsLoader(t) /\ t \in Tasks /\ t \notin Requests
      /\ Active(t) => plan[t] # <<>> /\ answer[t] = "none"
  BY NamesAssumption DEF IInv, TaskInv, Going, Tasks
<1>2. ASSUME NEW p \in Plans, NEW o \in BOOLEAN, Load(t, p, o)
      PROVE  SumInv(t)'
  <2>1. /\ plan'[t] = p /\ Distinct(p) /\ next' = next /\ pc'[t] \in {"check", "put"} /\ answer' = answer
        /\ found' = found /\ uploaded' = uploaded /\ failed' = failed /\ pc[t] = "new"
    BY <1>1, <1>2 DEF Load, Begin, Goto, TypeOK, report
  <2>2. /\ next[t] = 1 /\ answer[t] = "none"
        /\ found[t] = {} /\ uploaded[t] = {} /\ failed[t] = {}
    BY <1>1, <2>1 DEF Fresh
  <2>3. Counted(t)' = 0
    BY <2>1, <2>2, FS_EmptySet DEF Counted
  <2> QED BY <2>1, <2>2, <2>3 DEF SumInv, Summarized
<1>3. CASE LoadNothing(t) \/ Crash(t)
  <2>1. UNCHANGED <<plan, uploaded, found, failed>> /\ pc'[t] = "done" /\ answer'[t] \in {"invalid", "crashed"}
    BY <1>1, <1>3 DEF LoadNothing, Crash, End, TypeOK, report, asked
  <2> QED BY <2>1 DEF SumInv, Summarized
<1>4. CASE SyncCreated(t) \/ SyncRefused(t)
  <2>1. /\ UNCHANGED <<plan, uploaded, found, failed>> /\ pc[t] = "sync" /\ pc'[t] = "done"
        /\ answer'[t] \in {"submitted", "sync_failed"}
    BY <1>1, <1>4 DEF SyncCreated, SyncRefused, End, TypeOK, report, asked
  <2>2. failed[t] = {} /\ Documents(t) = uploaded[t] \cup found[t] /\ Counted(t) = Len(plan[t])
    BY <1>1, <2>1 DEF AsLoader, SumInv
  <2>3. Summarized(t)'
    BY <2>1, <2>2 DEF Summarized, Counted, Documents
  <2> QED BY <2>1, <2>3 DEF SumInv
<1>5. CASE SkipObject(t) \/ CheckFails(t) \/ LoadObject(t) \/ LoadFails(t)
  <2>1. NextDocument(t) /\ plan' = plan /\ pc[t] \in {"check", "put"}
    BY <1>5 DEF SkipObject, CheckFails, LoadObject, LoadFails, asked
  <2> QED BY <1>1, <1>5, <2>1, NextKeepsSum DEF SkipObject, CheckFails, LoadObject, LoadFails, Add, TypeOK
<1>6. CASE FindNoObject(t)
  <2>1. /\ UNCHANGED <<plan, uploaded, found, failed, next, answer>> /\ pc[t] = "check" /\ pc'[t] = "put"
    BY <1>1, <1>6 DEF FindNoObject, Goto, TypeOK, report, asked
  <2> QED BY <1>1, <2>1 DEF SumInv, Summarized, Counted, Active
<1> QED BY <1>1, <1>2, <1>3, <1>4, <1>5, <1>6 DEF StepOf, LoaderStep

LEMMA OthersKeepSum ==
  ASSUME NEW u \in Loaders, SumInv(u), Same(u)
  PROVE  SumInv(u)'
<1>1. Documents(u)' = Documents(u) /\ Counted(u)' = Counted(u)
  BY DEF Same, Documents, Counted
<1> QED BY <1>1 DEF SumInv, Summarized, Same

(* Planned = uploaded + skipped + failed in the summary of every loader    *)
(* that came to its end, and it tried all of its documents                 *)
(* (SummariesAddUp; upload_documents of load_documents.py).                *)
THEOREM LoadersAddUp == Spec => []SummariesAddUp
<1> DEFINE Sums == \A t \in Loaders : SumInv(t)
<1>1. Init => Sums
  <2> SUFFICES ASSUME Init, NEW t \in Loaders PROVE SumInv(t)
    OBVIOUS
  <2>1. t \in Tasks
    BY DEF Tasks
  <2> QED BY <2>1, FS_EmptySet DEF Init, SumInv, Summarized, Distinct
<1>2. IInv /\ Sums /\ [Next]_vars => Sums'
  <2> SUFFICES ASSUME IInv, Sums, [Next]_vars, NEW u \in Loaders PROVE SumInv(u)'
    OBVIOUS
  <2>1. u \in Tasks
    BY DEF Tasks
  <2>2. CASE UNCHANGED vars
    <3>1. Same(u)
      BY <2>2 DEF vars, cloud, progress, report, asked, Same
    <3> QED BY <3>1, OthersKeepSum
  <2>3. CASE Next
    <3>1. PICK t \in Tasks : StepOf(t)
      BY <2>3, EveryStep
    <3>2. CASE t = u
      BY <3>1, <3>2, OwnStepKeepsSum
    <3>3. CASE t # u
      BY <2>1, <3>1, <3>3, OthersAreSame, OthersKeepSum DEF IInv
    <3> QED BY <3>2, <3>3
  <2> QED BY <2>2, <2>3
<1>3. Sums => SummariesAddUp
  BY DEF SumInv, Summarized, Counted, SummariesAddUp
<1> QED BY <1>1, <1>2, <1>3, InvariantHolds, PTL DEF Spec

-------------------------------------------------------------------------------
(* The contract. *)

phases == [t \in Tasks |-> Phase(t)]
wants  == [t \in Tasks |-> Documents(t)]

(* A step of t moves t, and t only, in the contract. *)
LEMMA OnlyOnePhase ==
  ASSUME TypeOK, NEW t \in Tasks, StepOf(t)
  PROVE  /\ phases' = [phases EXCEPT ![t] = Phase(t)']
         /\ wants' = [wants EXCEPT ![t] = Documents(t)']
<1>1. \A u \in Tasks \ {t} : Phase(u)' = Phase(u) /\ Documents(u)' = Documents(u)
  BY OthersAreSame DEF Same, Phase, Documents
<1> QED BY <1>1 DEF phases, wants

(* A step of a task is a step of the contract or changes nothing in it.    *)
LEMMA StepRefines ==
  ASSUME IInv, NEW t \in Tasks, StepOf(t)
  PROVE  Contract!Open(t) \/ Contract!Refuse(t) \/ Contract!Store(t) \/ Contract!Ingest(t)
           \/ Contract!Fail(t) \/ UNCHANGED Contract!vars
<1>1. /\ TypeOK /\ TypeOK' /\ Fresh(t) /\ Going(t) /\ Kept(t)
      /\ t \in Requests => AsRequest(t)
      /\ t \in Loaders => AsLoader(t)
  BY TypeStep DEF IInv, TaskInv
<1>2. /\ phases' = [phases EXCEPT ![t] = Phase(t)']
      /\ wants' = [wants EXCEPT ![t] = Documents(t)']
      /\ phases[t] = Phase(t) /\ wants[t] = Documents(t)
      /\ phases = [u \in Tasks |-> phases[u]] /\ wants = [u \in Tasks |-> wants[u]]
  BY <1>1, OnlyOnePhase DEF phases, wants
<1>3. plan' = plan => wants' = wants
  BY DEF wants, Documents
<1>4. content' = content => Stored' = Stored
  BY DEF Stored
<1>5. Active(t) => Phase(t) = "open" /\ Object(t) \in Documents(t)
  BY <1>1, AtWork DEF Going, Phase, PhaseOf, Active
<1> DEFINE To(p) == phases' = [phases EXCEPT ![t] = p]
<1>6. pc' = pc /\ answer' = answer => phases' = phases
  BY DEF phases, Phase
<1>7. ASSUME NEW a, End(t, a)
      PROVE  /\ a \in {"invalid", "conflict"} => To("refused")
             /\ a = "submitted" => To("submitted")
             /\ a \notin {"invalid", "conflict", "submitted"} => To("failed")
  <2>1. pc'[t] = "done" /\ answer'[t] = a
    BY <1>1, <1>7 DEF End, TypeOK
  <2> QED BY <1>2, <2>1 DEF Phase, PhaseOf
<1>8. ASSUME Active(t), NEW place \in {"check", "put", "sync"}, Goto(t, place)
      PROVE  phases' = phases
  <2>1. pc'[t] = place
    BY <1>1, <1>8 DEF Goto, TypeOK
  <2>2. Phase(t)' = Phase(t)
    BY <1>5, <1>8, <2>1 DEF Phase, PhaseOf
  <2> QED BY <1>2, <2>2
<1>9. ASSUME Active(t), Write(t)
      PROVE  Stored' = Stored \cup {Object(t)} /\ wrote' = [wrote EXCEPT ![t] = @ \cup {Object(t)}]
  BY <1>1, <1>9, BucketOnlyGrows DEF Write, Add, Going
<1>10. ASSUME NEW p \in Plans, Reject(t, p)
       PROVE  Contract!Refuse(t)
  <2>1. Phase(t) = "new" /\ wrote[t] = {}
    BY <1>1, <1>10 DEF Reject, Fresh, Phase, PhaseOf
  <2>2. To("refused") /\ wants' = wants /\ Stored' = Stored /\ wrote' = wrote /\ jobs' = jobs
    BY <1>3, <1>4, <1>7, <1>10 DEF Reject, cloud, asked
  <2> QED BY <1>2, <2>1, <2>2 DEF Contract!Refuse, phases, wants
<1>11. ASSUME LoadNothing(t)
       PROVE  Contract!Refuse(t)
  <2>1. Phase(t) = "new" /\ wrote[t] = {}
    BY <1>1, <1>11 DEF LoadNothing, Fresh, Phase, PhaseOf
  <2>2. To("refused") /\ wants' = wants /\ Stored' = Stored /\ wrote' = wrote /\ jobs' = jobs
    BY <1>3, <1>4, <1>7, <1>11 DEF LoadNothing, cloud, asked
  <2> QED BY <1>2, <2>1, <2>2 DEF Contract!Refuse, phases, wants
<1>12. ASSUME NEW p \in Plans, NEW o \in BOOLEAN, Submit(t, p, o) \/ Load(t, p, o)
       PROVE  Contract!Open(t)
  <2>1. /\ Phase(t) = "new" /\ Begin(t, p, o) /\ content' = content /\ wrote' = wrote /\ jobs' = jobs
        /\ plan'[t] = p /\ p # <<>>
    BY <1>1, <1>12 DEF Submit, Load, Acceptable, Begin, cloud, Phase, PhaseOf, TypeOK
  <2>2. pc'[t] \in {"check", "put"}
    BY <1>1, <2>1 DEF Begin, Goto, TypeOK
  <2>3. To("open")
    BY <1>2, <2>2 DEF Phase, PhaseOf
  <2>4. Documents(t)' \in SUBSET Objects
    BY <1>1, <2>1 DEF TypeOK, Documents
  <2> QED BY <1>2, <1>4, <2>1, <2>3, <2>4 DEF Contract!Open, phases, wants
<1>13. ASSUME UNCHANGED cloud, plan' = plan, phases' = phases
       PROVE  UNCHANGED Contract!vars
  BY <1>3, <1>4, <1>13 DEF Contract!vars, cloud, phases, wants
<1>14. ASSUME Active(t), UNCHANGED cloud, plan' = plan, To("failed")
       PROVE  Contract!Fail(t)
  BY <1>2, <1>3, <1>4, <1>5, <1>14 DEF Contract!Fail, cloud, phases, wants
<1>15. ASSUME Active(t), Write(t), jobs' = jobs, plan' = plan, phases' = phases \/ To("failed")
       PROVE  Contract!Store(t)
  BY <1>2, <1>3, <1>5, <1>9, <1>15 DEF Contract!Store, phases, wants
<1>16. ASSUME Active(t), NextDocument(t)
       PROVE  phases' = phases \/ To("failed")
  BY <1>7, <1>8, <1>16 DEF NextDocument, Advance
<1>17. CASE t \in Requests /\ AgentStep(t)
  <2>1. CASE CheckObject(t)
    <3>1. Active(t) /\ wrote[t] = {} /\ UNCHANGED cloud /\ plan' = plan
      BY <1>1, <1>17, <2>1 DEF CheckObject, Active, AsRequest, asked
    <3>2. phases' = phases \/ To("refused")
      BY <1>7, <1>8, <2>1, <3>1 DEF CheckObject, Advance
    <3>3. CASE To("refused")
      BY <1>2, <1>3, <1>4, <1>5, <3>1, <3>3 DEF Contract!Refuse, cloud, phases, wants
    <3> QED BY <1>13, <3>1, <3>2, <3>3
  <2>2. CASE CheckBreaks(t)
    BY <1>7, <1>14, <2>2 DEF CheckBreaks, Active, asked
  <2>3. CASE UploadObject(t)
    <3>1. Active(t) /\ Write(t) /\ jobs' = jobs /\ plan' = plan
      BY <2>3 DEF UploadObject, Active, asked
    <3>2. phases' = phases
      BY <1>8, <2>3, <3>1 DEF UploadObject, Advance
    <3> QED BY <1>15, <3>1, <3>2
  <2>4. CASE UploadBreaks(t)
    <3>1. /\ Active(t) /\ jobs' = jobs /\ plan' = plan /\ To("failed")
          /\ Write(t) \/ UNCHANGED <<content, wrote>>
      BY <1>7, <2>4 DEF UploadBreaks, Active, asked
    <3> QED BY <1>14, <1>15, <3>1 DEF cloud
  <2> QED BY <1>17, <2>1, <2>2, <2>3, <2>4 DEF AgentStep
<1>18. CASE t \in Loaders /\ LoaderStep(t)
  <2>1. CASE SkipObject(t) \/ CheckFails(t)
    <3>1. Active(t) /\ NextDocument(t) /\ UNCHANGED cloud /\ plan' = plan
      BY <2>1 DEF SkipObject, CheckFails, Active, asked
    <3> QED BY <1>13, <1>14, <1>16, <3>1
  <2>2. CASE FindNoObject(t)
    BY <1>8, <1>13, <2>2 DEF FindNoObject, Active, asked
  <2>3. CASE LoadObject(t) \/ LoadFails(t)
    <3>1. /\ Active(t) /\ NextDocument(t) /\ jobs' = jobs /\ plan' = plan
          /\ Write(t) \/ UNCHANGED <<content, wrote>>
      BY <2>3 DEF LoadObject, LoadFails, Active, asked
    <3> QED BY <1>13, <1>14, <1>15, <1>16, <3>1 DEF cloud
  <2> QED BY <1>18, <2>1, <2>2, <2>3 DEF LoaderStep
<1>19. CASE SyncCreated(t)
  <2>1. /\ Active(t) /\ plan' = plan /\ content' = content /\ wrote' = wrote /\ jobs' = jobs \cup {t}
        /\ To("submitted") \/ To("failed")
    BY <1>7, <1>19 DEF SyncCreated, Active, asked
  <2>2. Documents(t) \subseteq Stored
    BY <1>1, <1>19 DEF SyncCreated, Kept, AsRequest, AsLoader, Tasks
  <2> QED BY <1>2, <1>3, <1>4, <1>5, <2>1, <2>2 DEF Contract!Ingest, phases, wants
<1>20. CASE SyncRefused(t) \/ Crash(t)
  BY <1>7, <1>14, <1>20 DEF SyncRefused, Crash, Active, asked
<1> QED BY <1>10, <1>11, <1>12, <1>17, <1>18, <1>19, <1>20 DEF StepOf

(* Submissions and loaders keep the contract of ingestion: a task is       *)
(* refused without a trace, stores only what it was asked to, and feeds    *)
(* the vector store complete sets (ImplementsContract).                    *)
THEOREM KeepsTheContract == Spec => ImplementsContract
<1>1. Init => Contract!Init
  <2> SUFFICES ASSUME Init PROVE Contract!Init
    OBVIOUS
  <2>1. \A t \in Tasks : Phase(t) = "new" /\ Documents(t) = {}
    BY DEF Init, Phase, PhaseOf, Documents
  <2> QED BY <2>1 DEF Init, Contract!Init, Stored
<1>2. IInv /\ [Next]_vars => [Contract!Next]_(Contract!vars)
  <2>1. ASSUME IInv, Next
        PROVE  [Contract!Next]_(Contract!vars)
    <3>1. PICK t \in Tasks : StepOf(t)
      BY <2>1, EveryStep
    <3> QED BY <2>1, <3>1, StepRefines DEF Contract!Next
  <2>2. ASSUME UNCHANGED vars
        PROVE  UNCHANGED Contract!vars
    BY <2>2 DEF vars, cloud, progress, report, asked, Contract!vars, Phase, Documents, Stored
  <2> QED BY <2>1, <2>2
<1> QED BY <1>1, <1>2, InvariantHolds, PTL DEF Spec, ImplementsContract, Contract!Spec
===============================================================================
