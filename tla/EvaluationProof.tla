---------------------------- MODULE EvaluationProof ----------------------------
(***************************************************************************)
(* Proofs about the two programs of the evaluation: the generator of the   *)
(* golden dataset, GoldenDataset, and the runner that asks its questions,  *)
(* RagEvaluation.                                                          *)
(*                                                                         *)
(* While a run of the generator merges, the list it builds extends the     *)
(* file it read position by position; that the file is still the one it    *)
(* read, and that every record made so far is of this run, is what makes   *)
(* the argument inductive.  While the runner reads an answer, its reader   *)
(* and the client know as much of it as the agent has sent.                *)
(***************************************************************************)
EXTENDS GoldenDataset, RagEvaluation, FiniteSetTheorems, TLAPS

-------------------------------------------------------------------------------
(* The generator. *)

Unique(s) == \A i, j \in DOMAIN s : Key(s[i]) = Key(s[j]) => i = j

(* A list that keeps the records of another, as a run may change them, and *)
(* has but its own beside them.                                            *)
Keeps(old, new) ==
  /\ \A i \in DOMAIN old : i \in DOMAIN new /\
       \/ new[i] = old[i]
       \/ overwrite /\ Key(new[i]) = Key(old[i]) /\ new[i].run = run
  /\ \A i \in DOMAIN new : i \notin DOMAIN old => new[i].run = run

(* The record of an example in a list built from old. *)
Arrived(g, old, new) ==
  \E i \in DOMAIN new :
    /\ Key(new[i]) = Key(g)
    /\ IF overwrite \/ Key(g) \notin Keys(old) THEN new[i].run = run
       ELSE i \in DOMAIN old /\ new[i] = old[i]

Working ==
  pc # "idle" =>
    /\ run \in 1 .. MaxRuns
    /\ pc = "page" => pdf \in Objects
    /\ \A n \in DOMAIN generated : generated[n].run = run

Merging ==
  pc \in {"merge", "write"} =>
    /\ ~dry /\ before = dataset /\ Unique(merged) /\ Keeps(before, merged)
    /\ \A n \in DOMAIN generated : n < next => Arrived(generated[n], before, merged)
    /\ pc = "merge" => next <= Len(generated)
    /\ pc = "write" => next = Len(generated) + 1

IInv == TypeOK /\ OneRecordPerPage /\ NewExamplesArrive /\ Working /\ Merging

-------------------------------------------------------------------------------
(* One record more in the list a run builds. *)

LEMMA MergeRecordType ==
  ASSUME merged \in Seq(Records), NEW r \in Records, MergeRecord(r), added \in Nat, replaced \in Nat
  PROVE  merged' \in Seq(Records) /\ added' \in Nat /\ replaced' \in Nat
  BY DEF MergeRecord, Places

LEMMA MergeRecordUnique ==
  ASSUME merged \in Seq(Records), Unique(merged), NEW r \in Records, MergeRecord(r)
  PROVE  Unique(merged')
<1>1. CASE Places(Key(r)) = {} /\ merged' = Append(merged, r)
  <2>1. \A i \in DOMAIN merged : Key(merged[i]) # Key(r)
    BY <1>1 DEF Places
  <2>2. DOMAIN merged' = 1 .. Len(merged) + 1 /\ merged'[Len(merged) + 1] = r
        /\ \A i \in DOMAIN merged : merged'[i] = merged[i]
    BY <1>1
  <2> QED BY <2>1, <2>2 DEF Unique
<1>2. ASSUME NEW i \in Places(Key(r)), merged' = [merged EXCEPT ![i] = r]
      PROVE  Unique(merged')
  BY <1>2 DEF Unique, Places
<1>3. CASE merged' = merged
  BY <1>3 DEF Unique
<1> QED BY <1>1, <1>2, <1>3 DEF MergeRecord

LEMMA MergeRecordKeeps ==
  ASSUME merged \in Seq(Records), before \in Seq(Records), Keeps(before, merged),
         NEW r \in Records, r.run = run, MergeRecord(r), UNCHANGED <<before, run, overwrite>>
  PROVE  Keeps(before, merged)'
<1>1. CASE merged' = Append(merged, r)
  BY <1>1 DEF Keeps
<1>2. ASSUME NEW i \in Places(Key(r)), overwrite, merged' = [merged EXCEPT ![i] = r]
      PROVE  Keeps(before, merged)'
  BY <1>2 DEF Keeps, Places
<1>3. CASE merged' = merged
  BY <1>3 DEF Keeps
<1> QED BY <1>1, <1>2, <1>3 DEF MergeRecord

(* What arrived stays, and the record at hand arrives. *)
LEMMA MergeRecordArrives ==
  ASSUME merged \in Seq(Records), before \in Seq(Records), Keeps(before, merged),
         NEW g \in Records, Arrived(g, before, merged),
         NEW r \in Records, r.run = run, MergeRecord(r), UNCHANGED <<before, run, overwrite>>
  PROVE  \E i \in DOMAIN merged' :
           /\ Key(merged'[i]) = Key(g)
           /\ IF overwrite \/ Key(g) \notin Keys(before) THEN merged'[i].run = run
              ELSE i \in DOMAIN before /\ merged'[i] = before[i]
<1>1. PICK i \in DOMAIN merged :
        /\ Key(merged[i]) = Key(g)
        /\ IF overwrite \/ Key(g) \notin Keys(before) THEN merged[i].run = run
           ELSE i \in DOMAIN before /\ merged[i] = before[i]
  BY DEF Arrived
<1>2. i \in DOMAIN merged' /\ (merged'[i] = merged[i] \/ (overwrite /\ merged'[i] = r /\ Key(merged[i]) = Key(r)))
  BY DEF MergeRecord, Places
<1> QED BY <1>1, <1>2

LEMMA MergedRecordArrived ==
  ASSUME merged \in Seq(Records), before \in Seq(Records), Keeps(before, merged),
         NEW r \in Records, r.run = run, MergeRecord(r), UNCHANGED <<before, run, overwrite>>
  PROVE  \E i \in DOMAIN merged' :
           /\ Key(merged'[i]) = Key(r)
           /\ IF overwrite \/ Key(r) \notin Keys(before) THEN merged'[i].run = run
              ELSE i \in DOMAIN before /\ merged'[i] = before[i]
<1>1. CASE Places(Key(r)) = {} /\ merged' = Append(merged, r)
  <2>1. Len(merged) + 1 \in DOMAIN merged' /\ merged'[Len(merged) + 1] = r
    BY <1>1
  <2>2. Key(r) \notin Keys(before)
    BY <1>1 DEF Keys, Keeps, Places
  <2> QED BY <2>1, <2>2
<1>2. ASSUME NEW i \in Places(Key(r)), overwrite, merged' = [merged EXCEPT ![i] = r]
      PROVE  \E k \in DOMAIN merged' : Key(merged'[k]) = Key(r) /\ merged'[k].run = run
  BY <1>2 DEF Places
<1>3. CASE Places(Key(r)) # {} /\ ~overwrite /\ merged' = merged
  <2>1. PICK i \in DOMAIN merged : Key(merged[i]) = Key(r)
    BY <1>3 DEF Places
  <2>2. CASE Key(r) \in Keys(before)
    <3>1. PICK j \in DOMAIN before : Key(before[j]) = Key(r)
      BY <2>2 DEF Keys
    <3>2. j \in DOMAIN merged /\ merged[j] = before[j]
      BY <1>3, <3>1 DEF Keeps
    <3> QED BY <1>3, <2>2, <3>1, <3>2
  <2>3. CASE Key(r) \notin Keys(before)
    <3>1. i \notin DOMAIN before
      BY <1>3, <2>1, <2>3 DEF Keeps, Keys
    <3> QED BY <1>3, <2>1, <2>3, <3>1 DEF Keeps
  <2> QED BY <2>2, <2>3
<1> QED BY <1>1, <1>2, <1>3 DEF MergeRecord
-------------------------------------------------------------------------------
LEMMA InitEstablishes == Init => IInv
<1> SUFFICES ASSUME Init PROVE IInv
  OBVIOUS
<1>1. <<>> \in Seq(Records) /\ Len(<<>>) = 0
  OBVIOUS
<1>2. TypeOK
  <2>1. run \in 0 .. MaxRuns /\ attempts \in 0 .. MaxAttempts - 1
    BY BoundsAssumption DEF Init
  <2>2. next \in 1 .. Len(generated) + 1
    BY <1>1 DEF Init
  <2> QED BY <1>1, <2>1, <2>2 DEF Init, TypeOK
<1> QED BY <1>2 DEF Init, IInv, OneRecordPerPage, NewExamplesArrive, Written, Working, Merging

LEMMA StepKeepsType == TypeOK /\ Working /\ Merging /\ [Next]_vars => TypeOK'
<1> SUFFICES ASSUME TypeOK, Working, Merging, [Next]_vars PROVE TypeOK'
  OBVIOUS
<1> USE DEF TypeOK
<1>1. ASSUME NEW b \in SUBSET Objects, NEW o \in BOOLEAN, NEW d \in BOOLEAN, Start(b, o, d) PROVE TypeOK'
  <2>1. discovered' \subseteq Objects
    BY <1>1 DEF Start, Discovered
  <2>2. run' \in 0 .. MaxRuns
    BY <1>1, BoundsAssumption DEF Start
  <2>3. <<>> \in Seq(Records) /\ Len(<<>>) = 0
    OBVIOUS
  <2> QED BY <1>1, <2>1, <2>2, <2>3, BoundsAssumption DEF Start
<1>2. CASE StartFails
  BY <1>2, BoundsAssumption DEF StartFails, work, summary, merge
<1>3. ASSUME NEW o \in todo, NEW score \in [Pages -> 0 .. MaxScore], ReadPdf(o, score) PROVE TypeOK'
  <2>1. Significant(score) \subseteq Pages
    BY DEF Significant
  <2>2. {o} \X Significant(score) \subseteq Objects \X Pages
    BY <2>1
  <2>3. selected' \subseteq Objects \X Pages /\ pages' \subseteq Pages
    BY <1>3, <2>1, <2>2 DEF ReadPdf
  <2> QED BY <1>3, <2>3, BoundsAssumption DEF ReadPdf, mode, merge
<1>4. ASSUME NEW o \in todo, ReadFails(o) PROVE TypeOK'
  BY <1>4 DEF ReadFails, mode, merge
<1>5. ASSUME NEW p \in pages, ValidAnswer(p) PROVE TypeOK'
  <2>1. pdf \in Objects /\ run \in 1 .. MaxRuns
    BY <1>5 DEF ValidAnswer, Working
  <2>2. [name |-> FileName[pdf], page |-> p, object |-> pdf, run |-> run] \in Records
    BY <2>1 DEF Records, Names
  <2>3. generated' \in Seq(Records) /\ Len(generated') = Len(generated) + 1
    BY <1>5, <2>2 DEF ValidAnswer
  <2> QED BY <1>5, <2>3, BoundsAssumption DEF ValidAnswer, NextPage, mode, summary, merge
<1>6. ASSUME NEW p \in pages, InvalidAnswer(p) PROVE TypeOK'
  <2>1. pdf \in Objects
    BY <1>6 DEF InvalidAnswer, Working
  <2>2. attempts' \in 0 .. MaxAttempts - 1 /\ failed' \subseteq Objects \X Pages
    BY <1>6, <2>1, BoundsAssumption DEF InvalidAnswer, NextPage
  <2> QED BY <1>6, <2>2 DEF InvalidAnswer, NextPage, mode, merge
<1>7. CASE ModelFails
  <2>1. pdf \in Objects
    BY <1>7 DEF ModelFails, Working
  <2> QED BY <1>7, <2>1, BoundsAssumption DEF ModelFails, mode, merge
<1>8. CASE EndDry
  BY <1>8 DEF EndDry, ExitCode, mode, work, summary, merge
<1>9. CASE LoadRecords
  BY <1>9 DEF LoadRecords, mode, work, summary
<1>10. CASE LoadFails
  BY <1>10 DEF LoadFails, mode, work, summary, merge
<1>11. CASE Merge
  <2>1. generated[next] \in Records /\ next' \in 1 .. Len(generated) + 1
    BY <1>11 DEF Merge, Merging
  <2>2. merged' \in Seq(Records) /\ added' \in Nat /\ replaced' \in Nat
    BY <1>11, <2>1, MergeRecordType DEF Merge
  <2> QED BY <1>11, <2>1, <2>2 DEF Merge, mode, work, summary
<1>12. CASE Write
  BY <1>12 DEF Write, ExitCode, mode, work, summary, merge
<1>13. CASE WriteFails
  BY <1>13 DEF WriteFails, mode, work, summary, merge
<1>14. CASE Stop
  BY <1>14 DEF Stop, mode, work, summary, merge
<1>15. CASE UNCHANGED vars
  BY <1>15 DEF vars, mode, work, summary, merge
<1> QED BY <1>1, <1>2, <1>3, <1>4, <1>5, <1>6, <1>7, <1>8, <1>9, <1>10, <1>11, <1>12, <1>13,
           <1>14, <1>15 DEF Next, Program, ReadStep, PageStep, EndStep

(* Steps before the merge change neither file nor lists. *)
LEMMA StepKeepsWorking == TypeOK /\ Working /\ [Next]_vars => Working'
<1> SUFFICES ASSUME TypeOK, Working, [Next]_vars PROVE Working'
  OBVIOUS
<1> USE DEF TypeOK, Working
<1>1. ASSUME NEW b \in SUBSET Objects, NEW o \in BOOLEAN, NEW d \in BOOLEAN, Start(b, o, d) PROVE Working'
  <2>1. run' \in 1 .. MaxRuns
    BY <1>1, BoundsAssumption DEF Start
  <2> QED BY <1>1, <2>1 DEF Start
<1>2. CASE StartFails
  BY <1>2 DEF StartFails
<1>3. ASSUME NEW o \in todo, NEW score \in [Pages -> 0 .. MaxScore], ReadPdf(o, score) PROVE Working'
  BY <1>3 DEF ReadPdf, mode
<1>4. ASSUME NEW o \in todo, ReadFails(o) PROVE Working'
  BY <1>4 DEF ReadFails, mode
<1>5. ASSUME NEW p \in pages, ValidAnswer(p) PROVE Working'
  <2> DEFINE r == [name |-> FileName[pdf], page |-> p, object |-> pdf, run |-> run]
  <2>1. generated' = Append(generated, r) /\ r.run = run /\ UNCHANGED <<run, pdf>> /\ pc # "idle"
    BY <1>5 DEF ValidAnswer, mode
  <2> HIDE DEF r
  <2>2. \A n \in DOMAIN generated' : generated'[n].run = run'
    BY <2>1
  <2> QED BY <1>5, <2>1, <2>2 DEF ValidAnswer, NextPage
<1>6. ASSUME NEW p \in pages, InvalidAnswer(p) PROVE Working'
  BY <1>6 DEF InvalidAnswer, NextPage, mode
<1>7. CASE ModelFails
  BY <1>7 DEF ModelFails, mode
<1>8. CASE EndDry \/ LoadFails \/ Write \/ WriteFails \/ Stop
  BY <1>8 DEF EndDry, LoadFails, Write, WriteFails, Stop
<1>9. CASE LoadRecords \/ Merge
  BY <1>9 DEF LoadRecords, Merge, mode, work
<1>10. CASE UNCHANGED vars
  BY <1>10 DEF vars, mode, work
<1> QED BY <1>1, <1>2, <1>3, <1>4, <1>5, <1>6, <1>7, <1>8, <1>9, <1>10
        DEF Next, Program, ReadStep, PageStep, EndStep

LEMMA StepKeepsMerging == IInv /\ [Next]_vars => Merging'
<1> SUFFICES ASSUME TypeOK, OneRecordPerPage, Working, Merging, [Next]_vars PROVE Merging'
  BY DEF IInv
<1> USE DEF TypeOK
<1>1. CASE LoadRecords
  <2>1. Unique(merged)' /\ Keeps(before, merged)'
    BY <1>1 DEF LoadRecords, OneRecordPerPage, Unique, Keeps
  <2>2. \A n \in DOMAIN generated' : ~(n < next')
    BY <1>1 DEF LoadRecords
  <2>3. (pc' = "merge" => next' <= Len(generated')) /\ (pc' = "write" => next' = Len(generated') + 1)
    BY <1>1 DEF LoadRecords
  <2> QED BY <1>1, <2>1, <2>2, <2>3 DEF LoadRecords, Merging, mode
<1>2. CASE Merge
  <2> DEFINE r == generated[next]
  <2>1. next \in DOMAIN generated /\ r \in Records /\ r.run = run
    BY <1>2 DEF Merge, Merging, Working
  <2>2. /\ merged \in Seq(Records) /\ before \in Seq(Records) /\ Unique(merged)
        /\ Keeps(before, merged) /\ MergeRecord(r) /\ UNCHANGED <<before, run, overwrite>>
        /\ UNCHANGED <<dry, dataset, generated>> /\ ~dry /\ before = dataset /\ next' = next + 1
        /\ pc' = IF next = Len(generated) THEN "write" ELSE "merge"
    BY <1>2 DEF Merge, Merging, mode
  <2> HIDE DEF r
  <2>3. Unique(merged')
    BY <2>1, <2>2, MergeRecordUnique
  <2>4. Keeps(before, merged)'
    BY <2>1, <2>2, MergeRecordKeeps
  <2>5. ASSUME NEW n \in DOMAIN generated, n < next'
        PROVE  Arrived(generated[n], before, merged)'
    <3>1. CASE n = next
      <4>1. generated[n] = r
        BY <3>1 DEF r
      <4> QED BY <2>1, <2>2, <4>1, MergedRecordArrived DEF Arrived
    <3>2. CASE n < next
      <4>1. Arrived(generated[n], before, merged) /\ generated[n] \in Records
        BY <1>2, <3>2 DEF Merge, Merging
      <4> QED BY <2>1, <2>2, <4>1, MergeRecordArrives DEF Arrived
    <3> QED BY <2>2, <2>5, <3>1, <3>2
  <2>6. (pc' = "merge" => next' <= Len(generated')) /\ (pc' = "write" => next' = Len(generated') + 1)
    BY <2>1, <2>2
  <2> QED BY <2>2, <2>3, <2>4, <2>5, <2>6 DEF Merging
<1>3. CASE UNCHANGED vars
  BY <1>3 DEF vars, mode, merge, Merging, Unique, Keeps, Arrived
<1>4. CASE pc' \notin {"merge", "write"}
  BY <1>4 DEF Merging
<1>5. CASE pc' \in {"merge", "write"} /\ [Next]_vars
  <2>1. LoadRecords \/ Merge \/ UNCHANGED vars
    BY <1>5 DEF Next, Start, StartFails, Program, ReadStep, ReadPdf, ReadFails, PageStep, ValidAnswer,
      InvalidAnswer, ModelFails, NextPage, EndStep, EndDry, LoadFails, Write, WriteFails, Stop
  <2> QED BY <1>1, <1>2, <1>3, <2>1
<1> QED BY <1>4, <1>5

(* The file changes only when it is written. *)
LEMMA StepKeepsFile == IInv /\ [Next]_vars => OneRecordPerPage' /\ NewExamplesArrive'
<1> SUFFICES ASSUME TypeOK, OneRecordPerPage, NewExamplesArrive, Merging, [Next]_vars
             PROVE  OneRecordPerPage' /\ NewExamplesArrive'
  BY DEF IInv
<1> USE DEF TypeOK
<1>1. CASE Write
  <2>1. OneRecordPerPage'
    BY <1>1 DEF Write, Merging, OneRecordPerPage, Unique
  <2>2. \A n \in DOMAIN generated : Arrived(generated[n], before, merged)
    BY <1>1 DEF Write, Merging
  <2>3. NewExamplesArrive'
    BY <1>1, <2>2 DEF Write, NewExamplesArrive, Arrived, mode, merge
  <2> QED BY <2>1, <2>3
<1>2. CASE UNCHANGED vars
  BY <1>2 DEF vars, mode, merge, OneRecordPerPage, NewExamplesArrive, Written
<1>3. CASE dataset' = dataset /\ ~Written'
  BY <1>3 DEF OneRecordPerPage, NewExamplesArrive
<1>4. Write \/ UNCHANGED vars \/ (dataset' = dataset /\ ~Written')
  <2>1. ASSUME NEW b \in SUBSET Objects, NEW o \in BOOLEAN, NEW d \in BOOLEAN, Start(b, o, d)
        PROVE  dataset' = dataset /\ ~Written'
    BY <2>1 DEF Start, Written
  <2>2. ASSUME NEW o \in todo, NEW score \in [Pages -> 0 .. MaxScore], ReadPdf(o, score)
        PROVE  dataset' = dataset /\ ~Written'
    BY <2>2 DEF ReadPdf, Written
  <2>3. ASSUME NEW o \in todo, ReadFails(o) PROVE dataset' = dataset /\ ~Written'
    BY <2>3 DEF ReadFails, Written
  <2>4. ASSUME NEW p \in pages, ValidAnswer(p) \/ InvalidAnswer(p)
        PROVE  dataset' = dataset /\ ~Written'
    BY <2>4 DEF ValidAnswer, InvalidAnswer, NextPage, Written
  <2>5. CASE StartFails \/ ModelFails \/ EndDry \/ LoadRecords \/ LoadFails \/ Merge \/ WriteFails \/ Stop
    BY <2>5 DEF StartFails, ModelFails, EndDry, LoadRecords, LoadFails, Merge, WriteFails, Stop, Written, mode
  <2> QED BY <2>1, <2>2, <2>3, <2>4, <2>5 DEF Next, Program, ReadStep, PageStep, EndStep
<1> QED BY <1>1, <1>2, <1>3, <1>4

THEOREM Invariance == Spec => []IInv
<1>1. IInv /\ [Next]_vars => IInv'
  BY StepKeepsType, StepKeepsWorking, StepKeepsMerging, StepKeepsFile DEF IInv
<1> QED BY InitEstablishes, <1>1, PTL DEF Spec

(* Type correctness, for any documents, pages and bounds. *)
THEOREM TypeInvariant == Spec => []TypeOK
BY Invariance, PTL DEF IInv

(* No page has two records, however many runs and whatever documents share *)
(* a file name (dataset_io.merge_records).                                 *)
THEOREM NoDuplicates == Spec => []OneRecordPerPage
BY Invariance, PTL DEF IInv

(* Each example of a run that wrote its file is in the file                *)
(* (dataset_io.merge_records).                                             *)
THEOREM ExamplesArrive == Spec => []NewExamplesArrive
BY Invariance, PTL DEF IInv

(* No run loses, moves or changes a record but as --overwrite asks         *)
(* (dataset_io.merge_records, write_jsonl_records_atomic).                 *)
THEOREM RecordsKept == Spec => ExistingRecordsAreKept
<1> DEFINE Kept(i) ==
      /\ i \in DOMAIN dataset'
      /\ \/ dataset'[i] = dataset[i]
         \/ (overwrite /\ Key(dataset'[i]) = Key(dataset[i]) /\ dataset'[i].run = run)
<1>1. IInv /\ [Next]_vars => [dataset' # dataset => ~dry /\ \A i \in DOMAIN dataset : Kept(i)]_vars
  <2> SUFFICES ASSUME Merging, [Next]_vars, dataset' # dataset
               PROVE  ~dry /\ \A i \in DOMAIN dataset : Kept(i)
    BY DEF IInv
  <2>1. Write
    BY DEF vars, Next, Start, StartFails, Program, ReadStep, ReadPdf, ReadFails, PageStep, ValidAnswer,
      InvalidAnswer, ModelFails, EndStep, EndDry, LoadRecords, LoadFails, Merge, WriteFails, Stop
  <2> QED BY <2>1 DEF Write, Merging, Keeps
<1> QED BY <1>1, Invariance, PTL DEF Spec, ExistingRecordsAreKept

-------------------------------------------------------------------------------
(* The summary of a run of the generator.  If names differ, no key is met  *)
(* twice in a run, so each replacement changes a record of the file that   *)
(* was not changed yet, and changes it, as the run is a new one.           *)

Accounted(d) ==
  \/ d[1] \in skipped \/ d \in failed
  \/ \E n \in DOMAIN generated : <<generated[n].object, generated[n].page>> = d

NamesDiffer == \A o, q \in discovered : FileName[o] = FileName[q] => o = q

(* Every document and every selected page is accounted for, or still to    *)
(* come; no page of a document has two examples.                           *)
DocumentsInv ==
  pc # "idle" =>
    /\ discovered = todo \cup processed \cup skipped /\ todo \cap processed = {}
    /\ pc \in {"merge", "write"} => todo = {}
    /\ ~dry => \A d \in selected : Accounted(d) \/ (pc = "page" /\ d[1] = pdf /\ d[2] \in pages)

ExamplesInv ==
  pc # "idle" =>
    /\ \A n \in DOMAIN generated :
         generated[n].object \in processed /\ generated[n].name = FileName[generated[n].object]
    /\ \A m, n \in DOMAIN generated :
         generated[m].object = generated[n].object /\ generated[m].page = generated[n].page => m = n
    /\ pc = "page" =>
         /\ pdf \in processed
         /\ \A n \in DOMAIN generated : generated[n].object = pdf => generated[n].page \notin pages

(* The records of the file are older than the run. *)
AgesInv ==
  \A i \in DOMAIN dataset : dataset[i].run <= run /\ (pc # "idle" => dataset[i].run < run)

Changed(old, new) == {i \in DOMAIN old : new[i] # old[i]}

(* What the merge made of the file so far. *)
CountsInv ==
  pc \in {"merge", "write"} =>
    /\ Len(merged) = Len(before) + added
    /\ \A i \in DOMAIN merged :
         \/ i \in DOMAIN before /\ merged[i] = before[i]
         \/ \E n \in DOMAIN generated : n < next /\ merged[i] = generated[n]
    /\ NamesDiffer => replaced = Cardinality(Changed(before, merged))

SummaryInv == DocumentsInv /\ ExamplesInv /\ AgesInv /\ CountsInv /\ SummaryIsTrue

(* Everything but the work of the documents and of the model. *)
LEMMA DocumentsKept == IInv /\ DocumentsInv /\ ExamplesInv /\ [Next]_vars => DocumentsInv'
<1> SUFFICES ASSUME TypeOK, DocumentsInv, ExamplesInv, [Next]_vars PROVE DocumentsInv'
  BY DEF IInv
<1> USE DEF TypeOK, DocumentsInv
<1>1. ASSUME NEW b \in SUBSET Objects, NEW o \in BOOLEAN, NEW d \in BOOLEAN, Start(b, o, d)
      PROVE  DocumentsInv'
  BY <1>1 DEF Start
<1>2. ASSUME NEW o \in todo, NEW score \in [Pages -> 0 .. MaxScore], ReadPdf(o, score)
      PROVE  DocumentsInv'
  <2>1. /\ discovered' = todo' \cup processed' \cup skipped' /\ todo' \cap processed' = {}
        /\ pc' \in {"pdf", "page"} /\ dry' = dry
    BY <1>2 DEF ReadPdf, mode
  <2>2. ASSUME ~dry, NEW d \in selected'
        PROVE  Accounted(d)' \/ (pc' = "page" /\ d[1] = pdf' /\ d[2] \in pages')
    <3>1. CASE d \in selected
      BY <1>2, <2>2, <3>1 DEF ReadPdf, Accounted
    <3>2. CASE d \in {o} \X Significant(score)
      BY <1>2, <2>2, <3>2 DEF ReadPdf
    <3> QED BY <1>2, <2>2, <3>1, <3>2 DEF ReadPdf
  <2> QED BY <2>1, <2>2
<1>3. ASSUME NEW o \in todo, ReadFails(o) PROVE DocumentsInv'
  BY <1>3 DEF ReadFails, mode, Accounted
<1>4. ASSUME NEW p \in pages, ValidAnswer(p) PROVE DocumentsInv'
  <2> DEFINE r == [name |-> FileName[pdf], page |-> p, object |-> pdf, run |-> run]
  <2>1. /\ generated' = Append(generated, r) /\ r.object = pdf /\ r.page = p /\ pc = "page"
        /\ pages' = pages \ {p} /\ (pages' # {} => pc' = "page") /\ pc' \in {"pdf", "page"}
        /\ UNCHANGED <<mode, todo, pdf, summary>>
    BY <1>4 DEF ValidAnswer, NextPage
  <2> HIDE DEF r
  <2>2. \A d : Accounted(d) \/ d = <<pdf, p>> => Accounted(d)'
    <3>1. Len(generated) + 1 \in DOMAIN generated' /\ generated'[Len(generated) + 1] = r
          /\ \A n \in DOMAIN generated : n \in DOMAIN generated' /\ generated'[n] = generated[n]
      BY <2>1
    <3> QED BY <2>1, <3>1 DEF Accounted, summary
  <2>3. ASSUME ~dry, NEW d \in selected
        PROVE  Accounted(d)' \/ (pc' = "page" /\ d[1] = pdf' /\ d[2] \in pages')
    <3>1. d = <<d[1], d[2]>>
      OBVIOUS
    <3> QED BY <2>1, <2>2, <2>3, <3>1
  <2> QED BY <2>1, <2>3 DEF mode, summary
<1>5. ASSUME NEW p \in pages, InvalidAnswer(p) PROVE DocumentsInv'
  <2>1. ASSUME ~dry, NEW d \in selected
        PROVE  Accounted(d)' \/ (pc' = "page" /\ d[1] = pdf' /\ d[2] \in pages')
    <3>1. d = <<d[1], d[2]>>
      OBVIOUS
    <3> QED BY <1>5, <2>1, <3>1 DEF InvalidAnswer, NextPage, Accounted
  <2> QED BY <1>5, <2>1 DEF InvalidAnswer, NextPage, mode
<1>6. CASE ModelFails
  <2>1. /\ pc = "page" /\ pc' = "pdf" /\ pdf \in processed /\ skipped' = skipped \cup {pdf} /\ dry' = dry
        /\ UNCHANGED <<todo, discovered, processed, generated, selected, failed>>
    BY <1>6 DEF ModelFails, ExamplesInv, mode
  <2>2. \A d : Accounted(d) \/ d[1] = pdf => Accounted(d)'
    BY <2>1 DEF Accounted
  <2> QED BY <2>1, <2>2
<1>7. CASE LoadRecords \/ Merge
  BY <1>7 DEF LoadRecords, Merge, Accounted, mode, work, summary
<1>8. CASE StartFails \/ UNCHANGED vars
  BY <1>8 DEF StartFails, Accounted, vars, mode, work, summary
<1>9. CASE EndDry \/ LoadFails \/ Write \/ WriteFails \/ Stop
  BY <1>9 DEF EndDry, LoadFails, Write, WriteFails, Stop
<1> QED BY <1>1, <1>2, <1>3, <1>4, <1>5, <1>6, <1>7, <1>8, <1>9
        DEF Next, Program, ReadStep, PageStep, EndStep

LEMMA ExamplesKept == IInv /\ DocumentsInv /\ ExamplesInv /\ [Next]_vars => ExamplesInv'
<1> SUFFICES ASSUME TypeOK, DocumentsInv, ExamplesInv, [Next]_vars PROVE ExamplesInv'
  BY DEF IInv
<1> USE DEF TypeOK, ExamplesInv
<1>1. ASSUME NEW b \in SUBSET Objects, NEW o \in BOOLEAN, NEW d \in BOOLEAN, Start(b, o, d)
      PROVE  ExamplesInv'
  BY <1>1 DEF Start
<1>2. ASSUME NEW o \in todo, NEW score \in [Pages -> 0 .. MaxScore], ReadPdf(o, score)
      PROVE  ExamplesInv'
  BY <1>2 DEF ReadPdf, DocumentsInv
<1>3. ASSUME NEW o \in todo, ReadFails(o) PROVE ExamplesInv'
  BY <1>3 DEF ReadFails
<1>4. ASSUME NEW p \in pages, ValidAnswer(p) PROVE ExamplesInv'
  <2> DEFINE r == [name |-> FileName[pdf], page |-> p, object |-> pdf, run |-> run]
  <2>1. /\ generated' = Append(generated, r) /\ r.object = pdf /\ r.page = p /\ r.name = FileName[pdf]
        /\ pc = "page" /\ pages' = pages \ {p} /\ UNCHANGED <<pdf, processed>>
    BY <1>4 DEF ValidAnswer, NextPage, summary
  <2> HIDE DEF r
  <2> QED BY <2>1
<1>5. ASSUME NEW p \in pages, InvalidAnswer(p) PROVE ExamplesInv'
  BY <1>5 DEF InvalidAnswer, NextPage
<1>6. CASE ModelFails \/ LoadRecords \/ Merge \/ StartFails \/ UNCHANGED vars
  BY <1>6 DEF ModelFails, LoadRecords, Merge, StartFails, vars, work, summary
<1>7. CASE EndDry \/ LoadFails \/ Write \/ WriteFails \/ Stop
  BY <1>7 DEF EndDry, LoadFails, Write, WriteFails, Stop
<1> QED BY <1>1, <1>2, <1>3, <1>4, <1>5, <1>6, <1>7 DEF Next, Program, ReadStep, PageStep, EndStep

LEMMA AgesKept == IInv /\ AgesInv /\ [Next]_vars => AgesInv'
<1> SUFFICES ASSUME TypeOK, Working, Merging, AgesInv, [Next]_vars PROVE AgesInv'
  BY DEF IInv
<1> USE DEF TypeOK, AgesInv
<1>1. CASE Write
  <2>1. \A i \in DOMAIN merged : merged[i].run <= run
    <3>1. TAKE i \in DOMAIN merged
    <3>2. CASE i \in DOMAIN before
      BY <1>1, <3>2 DEF Write, Merging, Keeps, Working
    <3>3. CASE i \notin DOMAIN before
      BY <1>1, <3>3 DEF Write, Merging, Keeps
    <3> QED BY <3>2, <3>3
  <2> QED BY <1>1, <2>1 DEF Write, mode
<1>2. ASSUME NEW b \in SUBSET Objects, NEW o \in BOOLEAN, NEW d \in BOOLEAN, Start(b, o, d)
      PROVE  AgesInv'
  <2>1. \A i \in DOMAIN dataset : dataset[i] \in Records
    OBVIOUS
  <2> QED BY <1>2, <2>1 DEF Start, Records
<1>3. CASE StartFails
  <2>1. \A i \in DOMAIN dataset : dataset[i] \in Records
    OBVIOUS
  <2> QED BY <1>3, <2>1 DEF StartFails, Records
<1>4. CASE dataset' = dataset /\ run' = run /\ (pc = "idle" => pc' = "idle")
  BY <1>4
<1>5. ASSUME NEW o \in todo, ReadFails(o) \/ \E score \in [Pages -> 0 .. MaxScore] : ReadPdf(o, score)
      PROVE  dataset' = dataset /\ run' = run /\ (pc = "idle" => pc' = "idle")
  BY <1>5 DEF ReadFails, ReadPdf, mode
<1>6. ASSUME NEW p \in pages, ValidAnswer(p) \/ InvalidAnswer(p)
      PROVE  dataset' = dataset /\ run' = run /\ (pc = "idle" => pc' = "idle")
  BY <1>6 DEF ValidAnswer, InvalidAnswer, mode
<1>7. ASSUME ModelFails \/ EndDry \/ LoadRecords \/ LoadFails \/ Merge \/ WriteFails \/ Stop \/ UNCHANGED vars
      PROVE  dataset' = dataset /\ run' = run /\ (pc = "idle" => pc' = "idle")
  BY <1>7 DEF ModelFails, EndDry, LoadRecords, LoadFails, Merge, WriteFails, Stop, vars, mode
<1> QED BY <1>1, <1>2, <1>3, <1>4, <1>5, <1>6, <1>7 DEF Next, Program, ReadStep, PageStep, EndStep

(* One record more in the list a run builds, as the summary counts it. *)
LEMMA CountsMerge ==
  ASSUME IInv, ExamplesInv, DocumentsInv, AgesInv, CountsInv, Merge
  PROVE  CountsInv'
<1> DEFINE r == generated[next]
<1>1. /\ merged \in Seq(Records) /\ before \in Seq(Records) /\ generated \in Seq(Records)
      /\ next \in DOMAIN generated /\ added \in Nat /\ replaced \in Nat /\ next \in Nat
      /\ \A i \in DOMAIN before : i \in DOMAIN merged
  BY DEF IInv, TypeOK, Merging, Keeps, Merge
<1>2. MergeRecord(r) /\ UNCHANGED <<before, generated, discovered>> /\ next' = next + 1 /\ r \in Records
  BY <1>1 DEF Merge, summary
<1>3. /\ Len(merged) = Len(before) + added
      /\ \A i \in DOMAIN merged :
           \/ i \in DOMAIN before /\ merged[i] = before[i]
           \/ \E n \in DOMAIN generated : n < next /\ merged[i] = generated[n]
      /\ NamesDiffer => replaced = Cardinality(Changed(before, merged))
  BY DEF CountsInv, Merge
<1>4. IsFiniteSet(Changed(before, merged))
  <2>1. 1 \in Int /\ Len(before) \in Int /\ DOMAIN before = 1 .. Len(before)
    BY <1>1
  <2>2. IsFiniteSet(DOMAIN before)
    BY <2>1, FS_Interval
  <2> QED BY <2>2, FS_Subset DEF Changed
<1>5. NamesDiffer' = NamesDiffer
  BY <1>2 DEF NamesDiffer
<1>6. CASE Places(Key(r)) = {} /\ merged' = Append(merged, r) /\ added' = added + 1 /\ UNCHANGED replaced
  <2>1. /\ Len(merged') = Len(merged) + 1 /\ DOMAIN merged' = DOMAIN merged \cup {Len(merged) + 1}
        /\ merged'[Len(merged) + 1] = r
        /\ \A i \in DOMAIN merged : merged'[i] = merged[i]
    BY <1>1, <1>2, <1>6
  <2>2. Len(merged') = Len(before') + added'
    BY <1>1, <1>2, <1>3, <1>6, <2>1
  <2>3. \A i \in DOMAIN merged' :
          \/ i \in DOMAIN before /\ merged'[i] = before[i]
          \/ \E n \in DOMAIN generated : n < next + 1 /\ merged'[i] = generated[n]
    <3>1. ASSUME NEW i \in DOMAIN merged
          PROVE  \/ i \in DOMAIN before /\ merged'[i] = before[i]
                 \/ \E n \in DOMAIN generated : n < next + 1 /\ merged'[i] = generated[n]
      BY <1>1, <1>3, <2>1, <3>1
    <3>2. next < next + 1 /\ merged'[Len(merged) + 1] = generated[next]
      BY <1>1, <2>1
    <3> QED BY <1>1, <2>1, <3>1, <3>2
  <2>4. Changed(before, merged') = Changed(before, merged)
    BY <1>1, <2>1 DEF Changed
  <2> HIDE DEF r
  <2> QED BY <1>2, <1>3, <1>5, <1>6, <2>2, <2>3, <2>4 DEF CountsInv
<1>7. ASSUME NEW i \in Places(Key(r)), merged' = [merged EXCEPT ![i] = r], replaced' = replaced + 1,
             UNCHANGED added
      PROVE  CountsInv'
  <2>1. /\ i \in DOMAIN merged /\ Key(merged[i]) = Key(r) /\ Len(merged') = Len(merged)
        /\ DOMAIN merged' = DOMAIN merged /\ merged'[i] = r
        /\ \A k \in DOMAIN merged : k # i => merged'[k] = merged[k]
    BY <1>1, <1>7 DEF Places
  <2>2. \A k \in DOMAIN merged' :
          \/ k \in DOMAIN before /\ merged'[k] = before[k]
          \/ \E n \in DOMAIN generated : n < next + 1 /\ merged'[k] = generated[n]
    <3>1. ASSUME NEW k \in DOMAIN merged, k # i
          PROVE  \/ k \in DOMAIN before /\ merged'[k] = before[k]
                 \/ \E n \in DOMAIN generated : n < next + 1 /\ merged'[k] = generated[n]
      BY <1>1, <1>3, <2>1, <3>1
    <3>2. next < next + 1 /\ merged'[i] = generated[next]
      BY <1>1, <2>1
    <3> QED BY <1>1, <2>1, <3>1, <3>2
  <2>3. ASSUME NamesDiffer PROVE replaced' = Cardinality(Changed(before, merged'))
    <3>1. i \in DOMAIN before /\ merged[i] = before[i]
      <4>1. ASSUME NEW n \in DOMAIN generated, n < next, merged[i] = generated[n] PROVE FALSE
        <5>1. generated[n].name = r.name /\ generated[n].page = r.page
          BY <2>1, <4>1 DEF Key
        <5>2. generated[n].object \in discovered /\ r.object \in discovered
              /\ FileName[generated[n].object] = FileName[r.object]
          BY <1>1, <5>1 DEF ExamplesInv, DocumentsInv, Merge
        <5>3. n = next
          BY <1>1, <2>3, <5>1, <5>2 DEF NamesDiffer, ExamplesInv, Merge
        <5> QED BY <1>1, <4>1, <5>3
      <4> QED BY <1>3, <2>1, <4>1
    <3>2. before[i] # r
      BY <1>1, <3>1 DEF IInv, TypeOK, Merging, AgesInv, Working, Merge
    <3>3. i \notin Changed(before, merged) /\ Changed(before, merged') = Changed(before, merged) \cup {i}
      BY <1>1, <2>1, <3>1, <3>2 DEF Changed
    <3>4. Cardinality(Changed(before, merged')) = Cardinality(Changed(before, merged)) + 1
      BY <1>4, <3>3, FS_AddElement
    <3> QED BY <1>3, <1>7, <2>3, <3>4
  <2>4. Len(merged') = Len(before') + added'
    BY <1>2, <1>3, <1>7, <2>1
  <2> HIDE DEF r
  <2> QED BY <1>2, <1>5, <2>2, <2>3, <2>4 DEF CountsInv
<1>8. CASE UNCHANGED <<merged, added, replaced>>
  <2>1. \A i \in DOMAIN merged :
          \/ i \in DOMAIN before /\ merged[i] = before[i]
          \/ \E n \in DOMAIN generated : n < next + 1 /\ merged[i] = generated[n]
    BY <1>1, <1>3
  <2> HIDE DEF r
  <2> QED BY <1>2, <1>3, <1>5, <1>8, <2>1 DEF CountsInv
<1> QED BY <1>2, <1>6, <1>7, <1>8 DEF MergeRecord

LEMMA CountsKept == IInv /\ SummaryInv /\ [Next]_vars => CountsInv'
<1> SUFFICES ASSUME IInv, SummaryInv, [Next]_vars PROVE CountsInv'
  OBVIOUS
<1>1. CASE Merge
  BY <1>1, CountsMerge DEF SummaryInv
<1>2. CASE LoadRecords
  <2>1. merged' = before' /\ before' \in Seq(Records) /\ added' = 0 /\ replaced' = 0
    BY <1>2 DEF LoadRecords, IInv, TypeOK
  <2>2. Changed(before', merged') = {}
    BY <2>1 DEF Changed
  <2> QED BY <2>1, <2>2, FS_EmptySet DEF CountsInv
<1>3. CASE UNCHANGED vars
  BY <1>3 DEF vars, merge, summary, SummaryInv, CountsInv, NamesDiffer, Changed
<1>4. CASE pc' \notin {"merge", "write"}
  BY <1>4 DEF CountsInv
<1>5. pc' \in {"merge", "write"} /\ [Next]_vars => LoadRecords \/ Merge \/ UNCHANGED vars
  BY DEF Next, Start, StartFails, Program, ReadStep, ReadPdf, ReadFails, PageStep, ValidAnswer,
    InvalidAnswer, ModelFails, NextPage, EndStep, EndDry, LoadFails, Write, WriteFails, Stop, IInv, TypeOK
<1> QED BY <1>1, <1>2, <1>3, <1>4, <1>5

(* The file is written once, at the end of its run. *)
LEMMA SummaryKept == IInv /\ SummaryInv /\ [Next]_vars => SummaryIsTrue'
<1> SUFFICES ASSUME IInv, SummaryInv, [Next]_vars PROVE SummaryIsTrue'
  OBVIOUS
<1>1. CASE Write
  <2>1. /\ pc = "write" /\ dataset' = merged /\ ~dry
        /\ UNCHANGED <<discovered, processed, skipped, selected, failed, generated, before, added, replaced>>
    BY <1>1 DEF Write, summary, merge, IInv, Merging
  <2>2. /\ discovered = processed \cup skipped
        /\ \A d \in selected : Accounted(d)
    BY <2>1 DEF SummaryInv, DocumentsInv
  <2>3. /\ Len(merged) = Len(before) + added
        /\ NamesDiffer => replaced = Cardinality(Changed(before, merged))
    BY <2>1 DEF SummaryInv, CountsInv
  <2> QED BY <2>1, <2>2, <2>3 DEF SummaryIsTrue, Accounted, NamesDiffer, Changed
<1>2. CASE UNCHANGED vars
  BY <1>2 DEF vars, mode, merge, summary, SummaryInv, SummaryIsTrue, Written
<1>3. CASE ~Written'
  BY <1>3 DEF SummaryIsTrue
<1>4. Write \/ UNCHANGED vars \/ ~Written'
  <2>1. ASSUME NEW b \in SUBSET Objects, NEW o \in BOOLEAN, NEW d \in BOOLEAN, Start(b, o, d)
        PROVE  ~Written'
    BY <2>1 DEF Start, Written
  <2>2. ASSUME NEW o \in todo, ReadFails(o) \/ \E score \in [Pages -> 0 .. MaxScore] : ReadPdf(o, score)
        PROVE  ~Written'
    BY <2>2 DEF ReadFails, ReadPdf, Written
  <2>3. ASSUME NEW p \in pages, ValidAnswer(p) \/ InvalidAnswer(p)
        PROVE  ~Written'
    BY <2>3 DEF ValidAnswer, InvalidAnswer, NextPage, Written
  <2>4. CASE StartFails \/ ModelFails \/ EndDry \/ LoadRecords \/ LoadFails \/ Merge \/ WriteFails \/ Stop
    BY <2>4 DEF StartFails, ModelFails, EndDry, LoadRecords, LoadFails, Merge, WriteFails, Stop, Written, mode
  <2> QED BY <2>1, <2>2, <2>3, <2>4 DEF Next, Program, ReadStep, PageStep, EndStep
<1> QED BY <1>1, <1>2, <1>3, <1>4

LEMMA SummaryStarts == Init => SummaryInv
BY DEF Init, SummaryInv, DocumentsInv, ExamplesInv, AgesInv, CountsInv, SummaryIsTrue, Written

(* The summary of a run that wrote its file tells what became of every     *)
(* document and of every selected page, and counts the records that are    *)
(* new and that changed (SummaryIsTrue; the counters of                    *)
(* generate_golden_dataset.py and of dataset_io.merge_records).            *)
THEOREM SummariesAreTrue == Spec => []SummaryIsTrue
<1>1. IInv /\ SummaryInv /\ [Next]_vars => SummaryInv'
  BY DocumentsKept, ExamplesKept, AgesKept, CountsKept, SummaryKept DEF SummaryInv
<1>2. SummaryInv => SummaryIsTrue
  BY DEF SummaryInv
<1> QED BY <1>1, <1>2, SummaryStarts, Invariance, PTL DEF Spec

-------------------------------------------------------------------------------
(* The limits of a run of the generator. *)

(* R is "comes before". *)
StrictOrder(S, R) ==
  /\ \A p \in S : <<p, p>> \notin R
  /\ \A p, q \in S : p # q => <<p, q>> \in R \/ <<q, p>> \in R
  /\ \A p, q, r \in S : <<p, q>> \in R /\ <<q, r>> \in R => <<p, r>> \in R

FirstOf(k, S, R) == {p \in S : Cardinality({q \in S : <<q, p>> \in R}) < k}

(* The elements that fewer than k others come before are the first k or    *)
(* less, as no two have as many before them.                               *)
LEMMA FirstOfOrder ==
  ASSUME NEW S, IsFiniteSet(S), NEW R, StrictOrder(S, R), NEW k \in Nat
  PROVE  /\ Cardinality(FirstOf(k, S, R)) <= k
         /\ \A p \in FirstOf(k, S, R), q \in S \ FirstOf(k, S, R) : <<p, q>> \in R
<1> DEFINE first == FirstOf(k, S, R)
           Earlier(p) == {q \in S : <<q, p>> \in R}
           rank == [p \in first |-> Cardinality(Earlier(p))]
<1>1. \A p \in S : IsFiniteSet(Earlier(p)) /\ Cardinality(Earlier(p)) \in Nat
  <2>1. \A p \in S : Earlier(p) \in SUBSET S
    OBVIOUS
  <2> HIDE DEF Earlier
  <2> QED BY <2>1, FS_Subset, FS_CardinalityType
<1>2. ASSUME NEW p \in S, NEW q \in S, <<p, q>> \in R
      PROVE  Cardinality(Earlier(p)) < Cardinality(Earlier(q))
  <2>1. Earlier(p) \subseteq Earlier(q) /\ p \in Earlier(q) /\ p \notin Earlier(p)
    BY <1>2 DEF StrictOrder
  <2>2. /\ Cardinality(Earlier(p)) <= Cardinality(Earlier(q))
        /\ Cardinality(Earlier(q)) = Cardinality(Earlier(p)) => Earlier(q) = Earlier(p)
    <3> HIDE DEF Earlier
    <3> QED BY <1>1, <2>1, FS_Subset
  <2> HIDE DEF Earlier
  <2> QED BY <1>1, <2>1, <2>2
<1>a. first = {p \in S : Cardinality(Earlier(p)) < k}
  BY DEF FirstOf
<1> HIDE DEF Earlier, first
<1>3. rank \in Injection(first, 0 .. k - 1)
  <2>1. rank \in [first -> 0 .. k - 1]
    BY <1>1, <1>a
  <2>2. \A p, q \in first : rank[p] = rank[q] => p = q
    <3> SUFFICES ASSUME NEW p \in first, NEW q \in first, rank[p] = rank[q], p # q PROVE FALSE
      OBVIOUS
    <3>1. p \in S /\ q \in S /\ Cardinality(Earlier(p)) = Cardinality(Earlier(q))
      BY <1>a
    <3>2. <<p, q>> \in R \/ <<q, p>> \in R
      BY <3>1 DEF StrictOrder
    <3> QED BY <1>1, <1>2, <3>1, <3>2
  <2>3. \A T, f : f \in [first -> T] /\ (\A p, q \in first : f[p] = f[q] => p = q) => f \in Injection(first, T)
    BY DEF Injection, IsInjective
  <2> HIDE DEF rank
  <2> QED BY <2>1, <2>2, <2>3
<1>4. IsFiniteSet(0 .. k - 1) /\ Cardinality(0 .. k - 1) = k
  <2>1. 0 \in Int /\ k - 1 \in Int
    OBVIOUS
  <2>2. IsFiniteSet(0 .. k - 1) /\ Cardinality(0 .. k - 1) = IF 0 > k - 1 THEN 0 ELSE k - 1 - 0 + 1
    BY <2>1, FS_Interval
  <2> QED BY <2>2
<1>5. Cardinality(first) <= k
  BY <1>3, <1>4, FS_Injection
<1>6. \A p \in first, q \in S \ first : <<p, q>> \in R
  <2> SUFFICES ASSUME NEW p \in first, NEW q \in S \ first PROVE <<p, q>> \in R
    OBVIOUS
  <2>1. Cardinality(Earlier(p)) < k /\ ~(Cardinality(Earlier(q)) < k) /\ p # q
    BY <1>a
  <2>2. ~(<<q, p>> \in R)
    BY <1>1, <1>2, <1>a, <2>1
  <2> QED BY <1>a, <2>1, <2>2 DEF StrictOrder
<1> QED BY <1>5, <1>6 DEF first

LEMMA PagesFinite == IsFiniteSet(Pages) /\ Pages \subseteq Nat
<1>1. 1 \in Int /\ MaxPage \in Int
  BY BoundsAssumption
<1> QED BY <1>1, FS_Interval DEF Pages

(* The pages that are selected are as many as asked for at most, and no    *)
(* other page is better (page_selection.select_significant_pages).         *)
THEOREM BestPagesSelected ==
  ASSUME NEW score \in [Pages -> 0 .. MaxScore]
  PROVE  /\ Significant(score) \subseteq Pages
         /\ IsFiniteSet(Significant(score)) /\ Cardinality(Significant(score)) <= MaxPagesPerPdf
         /\ \A p \in Significant(score), q \in Pages \ Significant(score) :
              score[p] > 0 /\ (score[p] > score[q] \/ (score[p] = score[q] /\ p < q))
<1> DEFINE useful == {p \in Pages : score[p] > 0}
           R == {d \in useful \X useful :
                   score[d[1]] > score[d[2]] \/ (score[d[1]] = score[d[2]] /\ d[1] < d[2])}
           best == FirstOf(MaxPagesPerPdf, useful, R)
<1>1. \A p, q \in useful : <<p, q>> \in R <=> score[p] > score[q] \/ (score[p] = score[q] /\ p < q)
  OBVIOUS
<1>2. IsFiniteSet(useful) /\ useful \subseteq Nat /\ \A p \in useful : score[p] \in Nat
  <2>1. useful \in SUBSET Pages
    OBVIOUS
  <2>2. \A p \in useful : score[p] \in Nat
    BY BoundsAssumption
  <2> HIDE DEF useful
  <2> QED BY <2>1, <2>2, PagesFinite, FS_Subset
<1>3. Significant(score) = best
  BY <1>1 DEF Significant, FirstOf
<1>4. MaxPagesPerPdf \in Nat
  BY BoundsAssumption
<1> HIDE DEF useful, R
<1>5. StrictOrder(useful, R)
  BY <1>1, <1>2 DEF StrictOrder
<1>6. /\ Cardinality(best) <= MaxPagesPerPdf
      /\ \A p \in best, q \in useful \ best : <<p, q>> \in R
  BY <1>2, <1>4, <1>5, FirstOfOrder
<1>7. best \subseteq useful /\ useful \subseteq Pages /\ IsFiniteSet(best)
  <2>1. best \in SUBSET useful
    BY DEF FirstOf
  <2>2. useful \subseteq Pages
    BY DEF useful
  <2> HIDE DEF best
  <2> QED BY <1>2, <2>1, <2>2, FS_Subset
<1> HIDE DEF best
<1>8. ASSUME NEW p \in best, NEW q \in Pages \ best
      PROVE  score[p] > 0 /\ (score[p] > score[q] \/ (score[p] = score[q] /\ p < q))
  <2>1. score[p] > 0 /\ score[p] \in Nat
    BY <1>2, <1>7 DEF useful
  <2>2. CASE q \in useful
    BY <1>1, <1>6, <1>7, <2>1, <2>2
  <2>3. CASE q \notin useful
    <3>1. score[q] \in 0 .. MaxScore /\ ~(score[q] > 0)
      BY <2>3 DEF useful
    <3> QED BY <2>1, <3>1, BoundsAssumption
  <2> QED BY <2>2, <2>3
<1> QED BY <1>3, <1>6, <1>7, <1>8

LEMMA DiscoveredWithin ==
  ASSUME NEW bucket \in SUBSET Objects
  PROVE  Discovered(bucket) \subseteq Objects /\ Cardinality(Discovered(bucket)) <= MaxPdfs
<1> DEFINE pdfs == bucket \ Ineligible
           R == {d \in pdfs \X pdfs : d[1] < d[2]}
<1>1. \A p, q \in pdfs : <<p, q>> \in R <=> p < q
  OBVIOUS
<1>2. pdfs \in SUBSET Objects /\ pdfs \subseteq Nat /\ MaxPdfs \in Nat
  BY DocumentsAssumption, BoundsAssumption
<1>3. Discovered(bucket) = FirstOf(MaxPdfs, pdfs, R)
  <2>1. \A p \in pdfs : {q \in pdfs : q < p} = {q \in pdfs : <<q, p>> \in R}
    BY <1>1
  <2> HIDE DEF R
  <2> QED BY <2>1 DEF Discovered, FirstOf
<1> HIDE DEF pdfs, R
<1>4. IsFiniteSet(pdfs)
  BY <1>2, DocumentsAssumption, FS_Subset
<1>5. StrictOrder(pdfs, R)
  BY <1>1, <1>2 DEF StrictOrder
<1>6. Cardinality(FirstOf(MaxPdfs, pdfs, R)) <= MaxPdfs
  BY <1>2, <1>4, <1>5, FirstOfOrder
<1> QED BY <1>2, <1>3, <1>6 DEF FirstOf

PagesOf(o) == {p \in Pages : <<o, p>> \in selected}

(* The examples of a document are made from its selected pages, a document *)
(* is read once.                                                           *)
LimitsInv ==
  pc # "idle" =>
    /\ Cardinality(discovered) <= MaxPdfs
    /\ \A d \in selected : d[1] \in processed
    /\ \A o \in Objects : Cardinality(PagesOf(o)) <= MaxPagesPerPdf
    /\ \A n \in DOMAIN generated : <<generated[n].object, generated[n].page>> \in selected
    /\ pc = "page" => \A p \in pages : <<pdf, p>> \in selected

LEMMA LimitsInvKept == IInv /\ DocumentsInv /\ LimitsInv /\ [Next]_vars => LimitsInv'
<1> SUFFICES ASSUME TypeOK, DocumentsInv, LimitsInv, [Next]_vars PROVE LimitsInv'
  BY DEF IInv
<1> USE DEF TypeOK, LimitsInv
<1>1. ASSUME NEW b \in SUBSET Objects, NEW o \in BOOLEAN, NEW d \in BOOLEAN, Start(b, o, d)
      PROVE  LimitsInv'
  <2>1. Cardinality(discovered') <= MaxPdfs /\ selected' = {} /\ generated' = <<>> /\ pc' = "pdf"
    BY <1>1, DiscoveredWithin DEF Start
  <2>2. \A q \in Objects : PagesOf(q)' = {}
    BY <2>1 DEF PagesOf
  <2>3. Cardinality({}) <= MaxPagesPerPdf
    BY FS_EmptySet, BoundsAssumption
  <2>4. ASSUME NEW q \in Objects PROVE Cardinality(PagesOf(q)') <= MaxPagesPerPdf
    BY ONLY <2>2, <2>3, q \in Objects
  <2> QED BY <2>1, <2>4
<1>2. ASSUME NEW o \in todo, NEW score \in [Pages -> 0 .. MaxScore], ReadPdf(o, score)
      PROVE  LimitsInv'
  <2>1. /\ selected' = selected \cup ({o} \X Significant(score)) /\ processed' = processed \cup {o}
        /\ pages' \subseteq Significant(score) /\ pdf' = o /\ o \notin processed /\ pc # "idle"
        /\ UNCHANGED <<discovered, generated>>
    BY <1>2 DEF ReadPdf, DocumentsInv
  <2>2. Significant(score) \subseteq Pages /\ Cardinality(Significant(score)) <= MaxPagesPerPdf
    BY BestPagesSelected
  <2>3. ASSUME NEW q \in Objects PROVE Cardinality(PagesOf(q)') <= MaxPagesPerPdf
    <3>1. CASE q = o
      <4>1. PagesOf(q)' = Significant(score)
        BY <2>1, <2>2, <3>1 DEF PagesOf
      <4> QED BY <2>2, <4>1
    <3>2. CASE q # o
      <4>1. PagesOf(q)' = PagesOf(q)
        BY <2>1, <3>2 DEF PagesOf
      <4> QED BY <2>1, <4>1
    <3> QED BY <3>1, <3>2
  <2>4. (\A d \in selected : d[1] \in processed)'
    BY <2>1
  <2>5. (\A n \in DOMAIN generated : <<generated[n].object, generated[n].page>> \in selected)'
    BY <2>1
  <2>6. (\A p \in pages : <<pdf, p>> \in selected)'
    BY <2>1
  <2> QED BY <2>1, <2>3, <2>4, <2>5, <2>6
<1>3. ASSUME NEW o \in todo, ReadFails(o) PROVE LimitsInv'
  BY <1>3 DEF ReadFails, PagesOf
<1>4. ASSUME NEW p \in pages, ValidAnswer(p) PROVE LimitsInv'
  <2> DEFINE r == [name |-> FileName[pdf], page |-> p, object |-> pdf, run |-> run]
  <2>1. /\ generated' = Append(generated, r) /\ r.object = pdf /\ r.page = p
        /\ pc = "page" /\ pages' = pages \ {p} /\ UNCHANGED <<pdf, processed, selected, discovered>>
    BY <1>4 DEF ValidAnswer, NextPage, summary
  <2> HIDE DEF r
  <2>2. (\A n \in DOMAIN generated : <<generated[n].object, generated[n].page>> \in selected)'
    BY <2>1
  <2>3. \A q \in Objects : PagesOf(q)' = PagesOf(q)
    BY <2>1 DEF PagesOf
  <2> QED BY <2>1, <2>2, <2>3
<1>5. ASSUME NEW p \in pages, InvalidAnswer(p) PROVE LimitsInv'
  BY <1>5 DEF InvalidAnswer, NextPage, PagesOf
<1>6. CASE ModelFails \/ LoadRecords \/ Merge \/ StartFails \/ UNCHANGED vars
  BY <1>6 DEF ModelFails, LoadRecords, Merge, StartFails, vars, work, summary, PagesOf
<1>7. CASE EndDry \/ LoadFails \/ Write \/ WriteFails \/ Stop
  BY <1>7 DEF EndDry, LoadFails, Write, WriteFails, Stop
<1> QED BY <1>1, <1>2, <1>3, <1>4, <1>5, <1>6, <1>7 DEF Next, Program, ReadStep, PageStep, EndStep

(* The examples of a document have as many pages.                          *)
LEMMA LimitsFollow ==
  TypeOK /\ DocumentsInv /\ ExamplesInv /\ LimitsInv /\ pc # "idle" => WithinLimits
<1> SUFFICES ASSUME TypeOK, DocumentsInv, ExamplesInv, LimitsInv, pc # "idle" PROVE WithinLimits
  OBVIOUS
<1>1. Cardinality(processed \cup skipped) <= MaxPdfs
  <2>1. discovered \in SUBSET Objects /\ processed \cup skipped \in SUBSET discovered
    BY DEF TypeOK, DocumentsInv
  <2>2. IsFiniteSet(discovered)
    BY <2>1, DocumentsAssumption, FS_Subset
  <2>3. /\ Cardinality(processed \cup skipped) <= Cardinality(discovered)
        /\ IsFiniteSet(processed \cup skipped)
    BY <2>1, <2>2, FS_Subset
  <2>4. /\ Cardinality(processed \cup skipped) \in Nat /\ Cardinality(discovered) \in Nat
        /\ Cardinality(discovered) <= MaxPdfs /\ MaxPdfs \in Nat
    BY <2>2, <2>3, FS_CardinalityType, BoundsAssumption DEF LimitsInv
  <2> QED BY <2>3, <2>4
<1>2. ASSUME NEW o \in Objects
      PROVE  Cardinality({n \in DOMAIN generated : generated[n].object = o}) <= MaxPagesPerPdf
  <2> DEFINE examples == {n \in DOMAIN generated : generated[n].object = o}
             page == [n \in examples |-> generated[n].page]
  <2>1. \A n \in examples : generated[n].page \in PagesOf(o)
    BY DEF TypeOK, LimitsInv, Records, PagesOf
  <2>2. \A m, n \in examples : page[m] = page[n] => m = n
    BY DEF ExamplesInv
  <2> HIDE DEF examples
  <2>3. page \in [examples -> PagesOf(o)]
    BY <2>1
  <2>4. \A S, T, f : f \in [S -> T] /\ (\A m, n \in S : f[m] = f[n] => m = n) => f \in Injection(S, T)
    BY DEF Injection, IsInjective
  <2> HIDE DEF page
  <2>5. page \in Injection(examples, PagesOf(o))
    BY <2>2, <2>3, <2>4
  <2>6. PagesOf(o) \in SUBSET Pages
    BY DEF PagesOf
  <2>7. IsFiniteSet(PagesOf(o))
    BY <2>6, PagesFinite, FS_Subset
  <2>8. Cardinality(examples) <= Cardinality(PagesOf(o)) /\ IsFiniteSet(examples)
    BY <2>5, <2>7, FS_Injection
  <2>9. /\ Cardinality(examples) \in Nat /\ Cardinality(PagesOf(o)) \in Nat
        /\ Cardinality(PagesOf(o)) <= MaxPagesPerPdf /\ MaxPagesPerPdf \in Nat
    BY <2>7, <2>8, FS_CardinalityType, BoundsAssumption DEF LimitsInv
  <2>10. Cardinality(examples) <= MaxPagesPerPdf
    BY <2>8, <2>9
  <2> QED BY <2>10 DEF examples
<1> QED BY <1>1, <1>2 DEF WithinLimits

LEMMA LimitsStart == Init => LimitsInv /\ WithinLimits
<1> SUFFICES ASSUME Init PROVE LimitsInv /\ WithinLimits
  OBVIOUS
<1>1. LimitsInv
  BY DEF Init, LimitsInv
<1>2. processed \cup skipped = {} /\ \A o : {n \in DOMAIN generated : generated[n].object = o} = {}
  BY DEF Init
<1>3. Cardinality({}) = 0 /\ MaxPdfs \in Nat /\ MaxPagesPerPdf \in Nat
  BY FS_EmptySet, BoundsAssumption
<1> QED BY <1>1, <1>2, <1>3 DEF WithinLimits

(* No score, retry or failure makes a run of the generator work on more    *)
(* documents than --max-pdfs, or make more than --max-pages-per-pdf        *)
(* examples of one (WithinLimits; main's slice of the documents and        *)
(* page_selection.select_significant_pages).                               *)
THEOREM LimitsAreKept == Spec => []WithinLimits
<1> DEFINE I == IInv /\ SummaryInv /\ LimitsInv /\ WithinLimits
<1>1. Init => I
  BY InitEstablishes, SummaryStarts, LimitsStart
<1>2. IInv /\ SummaryInv /\ [Next]_vars => IInv' /\ SummaryInv'
  BY StepKeepsType, StepKeepsWorking, StepKeepsMerging, StepKeepsFile,
     DocumentsKept, ExamplesKept, AgesKept, CountsKept, SummaryKept DEF SummaryInv, IInv
<1>3. IInv /\ SummaryInv /\ LimitsInv /\ [Next]_vars => LimitsInv'
  BY LimitsInvKept DEF SummaryInv
<1>4. I /\ [Next]_vars => WithinLimits'
  <2> SUFFICES ASSUME I, [Next]_vars PROVE WithinLimits'
    OBVIOUS
  <2>1. CASE pc' # "idle"
    <3>1. (TypeOK /\ DocumentsInv /\ ExamplesInv /\ LimitsInv)'
      BY <1>2, <1>3 DEF SummaryInv, IInv
    <3>2. (TypeOK /\ DocumentsInv /\ ExamplesInv /\ LimitsInv /\ pc # "idle" => WithinLimits)'
      BY LimitsFollow, PTL
    <3> QED BY <2>1, <3>1, <3>2
  <2>2. CASE pc' = "idle"
    <3>1. UNCHANGED <<processed, skipped, generated>>
      BY <2>2 DEF Next, vars, summary, Program, ReadStep, PageStep, EndStep, Start, StartFails,
        ReadPdf, ReadFails, ModelFails, ValidAnswer, InvalidAnswer, NextPage, EndDry, LoadRecords,
        LoadFails, Merge, Write, WriteFails, Stop
    <3> QED BY <3>1 DEF WithinLimits
  <2> QED BY <2>1, <2>2
<1>5. I => WithinLimits
  OBVIOUS
<1> QED BY <1>1, <1>2, <1>3, <1>4, <1>5, PTL DEF Spec

-------------------------------------------------------------------------------
(* The runner.  Each reader is in step with the agent, whether or not the  *)
(* events come with names, and each row was made from what its stream was. *)

Ends == {"broken", "error", "done", "cut"}
StreamRecords == [sent : Answers, last : {"start"} \cup Contract!Events, end : Ends]

(* What the gateway does to the names is undone: the readers know of the   *)
(* metadata when and only when they came.                                  *)
ReadersKnow ==
  /\ last # "transcript"
  /\ last = "start" => ~seen
  /\ last \in {"metadata", "token", "references", "usage", "done"} => seen
  /\ sent.error <=> last = "error"
  /\ sent.answer = tokens
  /\ client.seen = seen /\ client.read = sent
  /\ last \in {"done", "error"} => client.at = last
  /\ last \notin {"done", "error"} => client.at \notin {"done", "error"}
  /\ stage = "read" =>
       /\ response = sent /\ last # "error"
       /\ last # "done" => client.at = "reading"

(* What was asked for a record, and what became of the answer. *)
Streamed(s) == IF s.end = "broken" THEN Failed ELSE s.sent

StreamsInv ==
  /\ streams \in Seq(StreamRecords)
  /\ Len(streams) = Len(rows) + (IF stage = "judge" THEN 1 ELSE 0)
  /\ stage = "judge" =>
       /\ response = Streamed(streams[Len(streams)])
       /\ response.error <=> streams[Len(streams)].end \notin {"done", "cut"}
       /\ ~response.error => response = sent

RowInv(i) ==
  /\ rows[i].response = Streamed(streams[i])
  /\ rows[i].response.error <=> streams[i].end \notin {"done", "cut"}
  /\ rows[i].status = Status(rows[i].response)
  /\ rows[i].response.error => rows[i].overall = "error" /\ ~rows[i].judgeError
  /\ rows[i].judgeError => rows[i].overall = "error"

JudgeErrors(rs) == {i \in DOMAIN rs : rs[i].judgeError}

FilesInv ==
  /\ stage \in {"read", "judge"} => Len(rows) < NRecords
  /\ stage \in {"start", "ask", "read", "judge"} => results = <<>>
  /\ stage # "ended" => report = <<>> /\ exitStatus = "none"
  /\ stage = "summary" => results = rows /\ Len(rows) = NRecords
  /\ exitStatus = "0" => report = <<Summary>> /\ results = rows /\ Len(rows) = NRecords

EvaluationInv ==
  /\ EvaluationTypeOK
  /\ ReadersKnow
  /\ StreamsInv
  /\ \A i \in DOMAIN rows : RowInv(i)
  /\ failures = Cardinality(JudgeErrors(rows))
  /\ FilesInv

-------------------------------------------------------------------------------
(* The events. *)

LEMMA AnswersTyped == Nothing \in Answers /\ Failed \in Answers
<1>1. 0 \in 0 .. MaxTokens /\ {} \in SUBSET Reference
  BY InputsAssumption
<1>2. Nothing \in Answers
  BY <1>1 DEF Nothing, Answers
<1>3. Failed \in Answers
  BY <1>2 DEF Failed, Answers
<1> QED
  BY <1>2, <1>3

(* The status of an answer is one of the list, and tells an error. *)
LEMMA StatusTells ==
  ASSUME NEW r \in Answers
  PROVE  /\ Status(r) \in Statuses
         /\ Status(r) = "agent_error" <=> r.error
BY DEF Status, Statuses

(* With or without names, both readers take each event for what it is. *)
LEMMA NamesAreUnderstood ==
  ASSUME EvaluationInv, stage = "read", NEW e \in Contract!Follows(last) \ {"transcript"}
  PROVE  /\ EventName(e) = e /\ ClientEventName(e) = e
         /\ e \in Contract!Events /\ last \notin {"done", "error"}
BY DEF EvaluationInv, ReadersKnow, EventName, ClientEventName, Inferred, EvaluationTypeOK,
       Contract!Follows, Contract!Events

(* What an event adds to an answer is an answer. *)
LEMMA Consumed ==
  ASSUME NEW r \in Answers, NEW e \in Contract!Events, NEW refs \in ReferenceSets,
         e = "token" => r.answer < MaxTokens
  PROVE  /\ Consume(r, e, refs) \in Answers
         /\ Consume(r, e, refs).error <=> r.error \/ e = "error"
         /\ Consume(r, e, refs).answer = IF e = "token" THEN r.answer + 1 ELSE r.answer
<1>1. /\ r.conversation \in BOOLEAN /\ r.answer \in 0 .. MaxTokens
      /\ r.references \in SUBSET Reference /\ r.usage \in BOOLEAN /\ r.error \in BOOLEAN
  BY DEF Answers
<1>2. (IF e = "token" THEN r.answer + 1 ELSE r.answer) \in 0 .. MaxTokens
  BY <1>1, InputsAssumption
<1>3. (IF e = "references" THEN refs ELSE r.references) \in SUBSET Reference
  BY <1>1, InputsAssumption
<1>4. /\ (r.conversation \/ e \in {"metadata", "done"}) \in BOOLEAN
      /\ (r.usage \/ e = "usage") \in BOOLEAN /\ (r.error \/ e = "error") \in BOOLEAN
  OBVIOUS
<1>5. Consume(r, e, refs) \in Answers
  BY <1>2, <1>3, <1>4 DEF Consume, Answers
<1> QED
  BY <1>5 DEF Consume

(* A frame keeps the readers in step with the agent. *)
LEMMA ReceiveKeeps ==
  ASSUME EvaluationInv, NEW e \in Contract!Events, NEW refs \in ReferenceSets, Receive(e, refs)
  PROVE  EvaluationInv'
<1> USE DEF EvaluationInv, EvaluationTypeOK
<1>1. /\ EventName(e) = e /\ ClientEventName(e) = e /\ last \notin {"done", "error"}
      /\ e \in Contract!Follows(last) \ {"transcript"}
  BY NamesAreUnderstood DEF Receive
<1>2. response = sent /\ client.read = sent /\ client.at = "reading" /\ sent.answer = tokens /\ ~sent.error
  BY <1>1 DEF ReadersKnow, Receive
<1> DEFINE read == Consume(sent, e, refs)
<1>3. /\ read \in Answers /\ (read.error <=> e = "error")
      /\ read.answer = IF e = "token" THEN tokens + 1 ELSE tokens
  BY <1>2, Consumed DEF Receive
<1>4. sent' = read /\ response' = read
  BY <1>1, <1>2 DEF Receive
<1>5. client' = [seen |-> client.seen \/ e = "metadata", read |-> read,
                 at |-> IF e \in {"done", "error"} THEN e ELSE "reading"]
  BY <1>1, <1>2 DEF Receive, ClientReads
<1>6. tokens' = read.answer /\ tokens' \in 0 .. MaxTokens
  BY <1>3, InputsAssumption DEF Receive
<1>7. last' = e /\ (seen' <=> seen \/ e = "metadata") /\ seen' \in BOOLEAN
  BY <1>1 DEF Receive
<1> HIDE DEF read
<1>8. EvaluationTypeOK'
  BY <1>3, <1>4, <1>5, <1>6, <1>7 DEF Receive, files
<1>9. ReadersKnow'
  BY <1>1, <1>3, <1>4, <1>5, <1>6, <1>7 DEF ReadersKnow, Receive, Contract!Follows
<1>10. StreamsInv'
  <2>1. CASE e = "error"
    <3>1. stage' = "judge" /\ streams' = Append(streams, [sent |-> read, last |-> e, end |-> "error"])
      BY <1>3, <1>4, <1>7, <2>1 DEF Receive, EndStream
    <3>2. [sent |-> read, last |-> e, end |-> "error"] \in StreamRecords
      BY <1>3 DEF StreamRecords, Ends
    <3>3. Len(streams) = Len(rows) /\ streams \in Seq(StreamRecords)
      BY DEF StreamsInv, Receive
    <3> QED
      BY <1>3, <1>4, <2>1, <3>1, <3>2, <3>3 DEF StreamsInv, Receive, Streamed
  <2>2. CASE e # "error"
    <3>1. stage' = "read" /\ UNCHANGED <<streams, rows>>
      BY <1>3, <1>4, <2>2 DEF Receive
    <3> QED
      BY <3>1 DEF StreamsInv, Receive
  <2> QED
    BY <2>1, <2>2
<1>11. \A i \in DOMAIN rows' : RowInv(i)'
  BY <1>10 DEF RowInv, Receive, EndStream, StreamsInv
<1>12. FilesInv'
  BY DEF FilesInv, Receive, files
<1> QED
  BY <1>8, <1>9, <1>10, <1>11, <1>12 DEF Receive

(* The connection ends: the row will say how. *)
LEMMA EndKeeps ==
  ASSUME EvaluationInv, Close \/ Break
  PROVE  EvaluationInv'
<1> USE DEF EvaluationInv, EvaluationTypeOK
<1>1. /\ stage = "read" /\ stage' = "judge"
      /\ UNCHANGED <<rows, last, named, tokens, seen, sent, files, exitStatus, failures>>
      /\ client' = [client EXCEPT !.at = client'.at]
      /\ client'.at \in {"ended", "failed", client.at} /\ (client.at # "reading" => client'.at = client.at)
      /\ client.at = "reading" => client'.at # "reading"
  BY DEF Close, Break, ClientEnds
<1>2. PICK how \in Ends :
        /\ streams' = Append(streams, [sent |-> sent, last |-> last, end |-> how])
        /\ \/ how = "broken" /\ response' = Failed
           \/ how \in {"done", "cut"} /\ response' = response
  BY DEF Close, Break, EndStream, Ends
<1>3. Failed \in Answers /\ Failed.error
  BY AnswersTyped DEF Failed, Nothing
<1>4. EvaluationTypeOK'
  BY <1>1, <1>2, <1>3 DEF files
<1>5. ReadersKnow'
  BY <1>1 DEF ReadersKnow
<1>6. StreamsInv'
  <2>1. [sent |-> sent, last |-> last, end |-> how] \in StreamRecords
    BY DEF StreamRecords
  <2>2. Len(streams) = Len(rows) /\ streams \in Seq(StreamRecords)
    BY <1>1 DEF StreamsInv
  <2>3. response = sent /\ ~response.error
    BY <1>1 DEF ReadersKnow
  <2> QED
    BY <1>1, <1>2, <1>3, <2>1, <2>2, <2>3 DEF StreamsInv, Streamed, Ends
<1>7. \A i \in DOMAIN rows' : RowInv(i)'
  BY <1>1, <1>2 DEF RowInv, StreamsInv
<1>8. FilesInv'
  BY <1>1 DEF FilesInv, files
<1> QED
  BY <1>1, <1>4, <1>5, <1>6, <1>7, <1>8

-------------------------------------------------------------------------------
(* The rows. *)

(* The judgements that failed can be counted. *)
LEMMA JudgeErrorsFinite ==
  ASSUME NEW rs \in Seq(Rows)
  PROVE  /\ IsFiniteSet(JudgeErrors(rs)) /\ Cardinality(JudgeErrors(rs)) \in 0 .. Len(rs)
<1>1. JudgeErrors(rs) \in SUBSET (1 .. Len(rs))
  BY DEF JudgeErrors
<1>2. IsFiniteSet(1 .. Len(rs)) /\ Cardinality(1 .. Len(rs)) = Len(rs)
  <2>1. 1 \in Int /\ Len(rs) \in Int /\ Len(rs) >= 0
    OBVIOUS
  <2>2. IsFiniteSet(1 .. Len(rs)) /\ Cardinality(1 .. Len(rs)) = IF 1 > Len(rs) THEN 0 ELSE Len(rs) - 1 + 1
    BY <2>1, FS_Interval
  <2> QED
    BY <2>1, <2>2
<1> QED
  BY <1>1, <1>2, FS_Subset, FS_CardinalityType

(* A row counts once. *)
LEMMA JudgeErrorsAdded ==
  ASSUME NEW rs \in Seq(Rows), NEW row \in Rows
  PROVE  Cardinality(JudgeErrors(Append(rs, row)))
           = Cardinality(JudgeErrors(rs)) + (IF row.judgeError THEN 1 ELSE 0)
<1>1. JudgeErrors(Append(rs, row))
        = IF row.judgeError THEN JudgeErrors(rs) \cup {Len(rs) + 1} ELSE JudgeErrors(rs)
  BY DEF JudgeErrors
<1>2. Len(rs) + 1 \notin JudgeErrors(rs)
  BY DEF JudgeErrors
<1>3. IsFiniteSet(JudgeErrors(rs)) /\ Cardinality(JudgeErrors(rs)) \in Nat
  BY JudgeErrorsFinite
<1>4. Cardinality(JudgeErrors(rs) \cup {Len(rs) + 1}) = Cardinality(JudgeErrors(rs)) + 1
  BY <1>2, <1>3, FS_AddElement
<1> QED
  BY <1>1, <1>3, <1>4

(* A row that says what became of its question. *)
LEMMA RowAdded ==
  ASSUME EvaluationInv, NEW r \in Answers, NEW overall \in Labels, NEW noJudge \in BOOLEAN,
         AddRow(r, overall, noJudge), Len(rows) < NRecords, stage \in {"ask", "judge"},
         streams' \in Seq(StreamRecords), Len(streams') = Row,
         \A i \in DOMAIN rows : streams'[i] = streams[i],
         r = Streamed(streams'[Row]), r.error <=> streams'[Row].end \notin {"done", "cut"},
         r.error => overall = "error" /\ ~noJudge, noJudge => overall = "error",
         failures' = failures + (IF noJudge THEN 1 ELSE 0),
         UNCHANGED <<stream, files, exitStatus>>
  PROVE  EvaluationInv'
<1> USE DEF EvaluationInv, EvaluationTypeOK
<1> DEFINE row == [response |-> r, status |-> Status(r), overall |-> overall, judgeError |-> noJudge]
<1>1. row \in Rows /\ rows' = Append(rows, row) /\ stage' = "ask" /\ row.judgeError = noJudge
  BY StatusTells DEF AddRow, Rows
<1>2. /\ row.response = r /\ row.status = Status(r) /\ row.overall = overall
  OBVIOUS
<1> HIDE DEF row
<1>3. /\ rows' \in Seq(Rows) /\ Len(rows') = Row /\ rows'[Row] = row
      /\ \A i \in DOMAIN rows : rows'[i] = rows[i]
      /\ DOMAIN rows' = DOMAIN rows \cup {Row}
  BY <1>1 DEF Row
<1>4. failures' = Cardinality(JudgeErrors(rows'))
  BY <1>1, JudgeErrorsAdded
<1>5. failures' \in 0 .. NRecords
  BY <1>3, <1>4, JudgeErrorsFinite, InputsAssumption DEF Row
<1>6. EvaluationTypeOK'
  <2>1. results' \in {<<>>, rows'} /\ Len(report') <= 1 /\ stage' = "ask"
    BY <1>1 DEF files, FilesInv
  <2>2. rows' \in Seq(Rows) /\ Len(rows') <= NRecords
    BY <1>3, InputsAssumption DEF Row
  <2> QED
    BY <1>5, <2>1, <2>2 DEF stream
<1>7. \A i \in DOMAIN rows' : RowInv(i)'
  <2>1. ASSUME NEW i \in DOMAIN rows  PROVE RowInv(i)'
    <3>1. rows'[i] = rows[i] /\ streams'[i] = streams[i] /\ RowInv(i)
      BY <1>3
    <3> QED
      BY <3>1 DEF RowInv
  <2>2. ASSUME NEW i, i = Row  PROVE RowInv(i)'
    BY <1>1, <1>2, <1>3, <2>2 DEF RowInv
  <2> QED
    BY <1>3, <2>1, <2>2
<1>8. ReadersKnow'
  BY <1>1 DEF ReadersKnow, stream
<1>9. StreamsInv'
  BY <1>1, <1>3 DEF StreamsInv
<1>10. FilesInv'
  BY <1>1 DEF FilesInv, files
<1> QED
  BY <1>4, <1>6, <1>7, <1>8, <1>9, <1>10

LEMMA RowKeeps ==
  ASSUME EvaluationInv,
         RequestFails \/ SkipJudge \/ JudgeFails \/ \E overall \in Labels : Judge(overall)
  PROVE  EvaluationInv'
<1> USE DEF EvaluationInv, EvaluationTypeOK
<1>1. CASE RequestFails
  <2> DEFINE s == [sent |-> Nothing, last |-> "start", end |-> "broken"]
  <2>1. s \in StreamRecords /\ Streamed(s) = Failed /\ Failed.error /\ s.end = "broken"
    BY AnswersTyped DEF StreamRecords, Ends, Streamed, Failed, Nothing
  <2> HIDE DEF s
  <2>2. streams' = Append(streams, s) /\ Len(streams) = Len(rows) /\ streams \in Seq(StreamRecords)
    BY <1>1 DEF RequestFails, StreamsInv, s
  <2>3. Row = Len(rows) + 1 /\ Len(rows) < NRecords
    BY <1>1, InputsAssumption DEF Row, RequestFails
  <2>4. /\ streams' \in Seq(StreamRecords) /\ Len(streams') = Row /\ streams'[Row] = s
        /\ \A i \in DOMAIN rows : streams'[i] = streams[i]
    BY <2>1, <2>2, <2>3
  <2>5. failures' = failures + (IF FALSE THEN 1 ELSE 0)
    BY <1>1 DEF RequestFails
  <2> QED
    BY <1>1, <2>1, <2>3, <2>4, <2>5, AnswersTyped, RowAdded DEF RequestFails, Labels
<1>2. ASSUME stage = "judge"
      PROVE  /\ response \in Answers /\ Len(rows) < NRecords /\ Row = Len(rows) + 1
             /\ streams \in Seq(StreamRecords) /\ Len(streams) = Row
             /\ response = Streamed(streams[Row])
             /\ response.error <=> streams[Row].end \notin {"done", "cut"}
  BY <1>2 DEF StreamsInv, FilesInv, Row
<1>3. CASE SkipJudge
  <2>1. failures' = failures + (IF FALSE THEN 1 ELSE 0)
    BY <1>3 DEF SkipJudge
  <2> QED
    BY <1>2, <1>3, <2>1, RowAdded DEF SkipJudge, Labels
<1>4. CASE JudgeFails
  <2>1. failures' = failures + (IF TRUE THEN 1 ELSE 0)
    BY <1>4 DEF JudgeFails
  <2> QED
    BY <1>2, <1>4, <2>1, RowAdded DEF JudgeFails, Labels
<1>5. ASSUME NEW overall \in Labels, Judge(overall)
      PROVE  EvaluationInv'
  <2>1. failures' = failures + (IF FALSE THEN 1 ELSE 0)
    BY <1>5 DEF Judge
  <2> QED
    BY <1>2, <1>5, <2>1, RowAdded DEF Judge
<1> QED
  BY <1>1, <1>3, <1>4, <1>5

-------------------------------------------------------------------------------
(* The invariant. *)

LEMMA EvaluationStarts == EvaluationInit => EvaluationInv
<1> SUFFICES ASSUME EvaluationInit  PROVE EvaluationInv
  OBVIOUS
<1>1. EvaluationTypeOK
  <2>1. 0 \in 0 .. MaxTokens /\ 0 \in 0 .. NRecords /\ Len(<<>>) <= NRecords
    BY InputsAssumption
  <2>2. client \in [seen : BOOLEAN, read : Answers, at : {"reading", "done", "error", "ended", "failed"}]
    BY AnswersTyped DEF EvaluationInit, ClientStart
  <2>3. rows \in Seq(Rows) /\ Len(report) <= 1
    BY DEF EvaluationInit
  <2> QED
    BY <2>1, <2>2, <2>3, AnswersTyped DEF EvaluationInit, EvaluationTypeOK
<1>2. JudgeErrors(rows) = {}
  BY DEF EvaluationInit, JudgeErrors
<1>3. ReadersKnow
  BY DEF EvaluationInit, ReadersKnow, ClientStart, Nothing
<1>4. StreamsInv /\ FilesInv
  BY DEF EvaluationInit, StreamsInv, FilesInv
<1> QED
  BY <1>1, <1>2, <1>3, <1>4, FS_EmptySet DEF EvaluationInit, EvaluationInv

LEMMA ProgramKeeps ==
  ASSUME EvaluationInv,
         \/ StartEvaluation \/ StartEvaluationFails \/ OpenStream
         \/ WriteResults \/ WriteSummary \/ WriteFileFails
  PROVE  EvaluationInv'
<1> USE InputsAssumption DEF EvaluationInv, EvaluationTypeOK
<1>1. UNCHANGED <<rows, streams, failures>>
  BY DEF StartEvaluation, StartEvaluationFails, OpenStream, WriteResults, WriteSummary, WriteFileFails
<1>2. \A i \in DOMAIN rows' : RowInv(i)'
  BY <1>1 DEF RowInv
<1>3. CASE OpenStream
  <2>1. client' \in [seen : BOOLEAN, read : Answers, at : {"reading", "done", "error", "ended", "failed"}]
    BY <1>3, AnswersTyped DEF OpenStream, ClientStart
  <2>2. EvaluationTypeOK'
    <3>1. tokens' \in 0 .. MaxTokens /\ results' \in {<<>>, rows'} /\ Len(report') <= 1
      BY <1>1, <1>3 DEF OpenStream, files
    <3>2. response' \in Answers /\ sent' \in Answers
      BY <1>3, AnswersTyped DEF OpenStream
    <3> QED
      BY <1>1, <1>3, <2>1, <3>1, <3>2 DEF OpenStream
  <2>3. ReadersKnow'
    BY <1>3 DEF OpenStream, ReadersKnow, ClientStart, Nothing
  <2>4. StreamsInv'
    BY <1>1, <1>3 DEF OpenStream, StreamsInv
  <2>5. FilesInv'
    BY <1>1, <1>3 DEF OpenStream, FilesInv, files, Row
  <2> QED
    BY <1>1, <1>2, <2>2, <2>3, <2>4, <2>5
<1>4. CASE ~OpenStream
  <2>1. UNCHANGED stream /\ stage' \in {"ask", "summary", "ended"} /\ stage \in {"start", "ask", "summary"}
    BY <1>4 DEF StartEvaluation, StartEvaluationFails, WriteResults, WriteSummary, WriteFileFails
  <2>2. ReadersKnow' /\ StreamsInv'
    BY <1>1, <2>1 DEF stream, ReadersKnow, StreamsInv
  <2>3. results' \in {<<>>, rows'} /\ Len(report') <= 1 /\ exitStatus' \in {"none", "0", "1"}
    <3>1. CASE WriteSummary
      BY <1>1, <3>1 DEF WriteSummary
    <3>2. CASE ~WriteSummary
      BY <1>1, <1>4, <3>2 DEF StartEvaluation, StartEvaluationFails, WriteResults, WriteFileFails, files
    <3> QED
      BY <3>1, <3>2
  <2>4. EvaluationTypeOK'
    BY <1>1, <2>1, <2>3 DEF stream
  <2>5. Summary' = Summary
    BY <1>1 DEF Summary
  <2>6. FilesInv'
    BY <1>1, <1>4, <2>5 DEF StartEvaluation, StartEvaluationFails, WriteResults, WriteSummary, WriteFileFails,
                            files, FilesInv, Row
  <2> QED
    BY <1>1, <1>2, <2>2, <2>4, <2>6
<1> QED
  BY <1>3, <1>4

(* The invariant holds of every reachable state. *)
THEOREM EvaluationInvariant == EvaluationSpec => []EvaluationInv
<1>1. EvaluationInv /\ [EvaluationNext]_evaluationVars => EvaluationInv'
  <2> SUFFICES ASSUME EvaluationInv, [EvaluationNext]_evaluationVars  PROVE EvaluationInv'
    OBVIOUS
  <2>1. CASE UNCHANGED evaluationVars
    BY <2>1 DEF evaluationVars, stream, files, EvaluationInv, EvaluationTypeOK, ReadersKnow, StreamsInv,
                RowInv, FilesInv, Summary
  <2> QED
    BY <2>1, ReceiveKeeps, EndKeeps, RowKeeps, ProgramKeeps DEF EvaluationNext
<1> QED
  BY <1>1, EvaluationStarts, PTL DEF EvaluationSpec

(* The variables keep to their types, for any number of records and any    *)
(* length of an answer (EvaluationTypeOK).                                 *)
THEOREM EvaluationTypes == EvaluationSpec => []EvaluationTypeOK
<1>1. EvaluationInv => EvaluationTypeOK
  BY DEF EvaluationInv
<1> QED
  BY <1>1, EvaluationInvariant, PTL

(* Each row says what was streamed for its question, whatever the gateway  *)
(* did to it and however it ended (RowsSayWhatWasStreamed; the reader of   *)
(* agent_client.py).                                                       *)
THEOREM RowsAreTrue == EvaluationSpec => []RowsSayWhatWasStreamed
<1>1. EvaluationInv => RowsSayWhatWasStreamed
  BY DEF EvaluationInv, RowInv, Streamed, RowsSayWhatWasStreamed
<1> QED
  BY <1>1, EvaluationInvariant, PTL

(* The runner and the command line client read one answer alike            *)
(* (ReadersAgree; agent_client._normalize_sse_event_name and the one of    *)
(* agent_cli.py).                                                          *)
THEOREM ReadersAlwaysAgree == EvaluationSpec => []ReadersAgree
<1>1. EvaluationInv => ReadersAgree
  BY DEF EvaluationInv, ReadersKnow, StreamsInv, ReadersAgree
<1> QED
  BY <1>1, EvaluationInvariant, PTL

-------------------------------------------------------------------------------
(* The summary of the runner. *)

(* Sets that do not meet are counted one after the other. *)
LEMMA DisjointCount ==
  ASSUME NEW S, NEW T, IsFiniteSet(S), IsFiniteSet(T), S \cap T = {}
  PROVE  /\ IsFiniteSet(S \cup T)
         /\ Cardinality(S \cup T) = Cardinality(S) + Cardinality(T)
<1>1. Cardinality(S) \in Nat /\ Cardinality(T) \in Nat /\ Cardinality(S \cap T) = 0
  BY FS_CardinalityType, FS_EmptySet
<1>2. /\ IsFiniteSet(S \cup T)
      /\ Cardinality(S \cup T) = Cardinality(S) + Cardinality(T) - Cardinality(S \cap T)
  BY FS_Union
<1> QED
  BY <1>1, <1>2

(* Each row has one label, and one error of the agent or none. *)
LEMMA SummaryCounts ==
  ASSUME EvaluationInv, exitStatus = "0"
  PROVE  SummaryAddsUp
<1> USE DEF EvaluationInv, EvaluationTypeOK
<1> DEFINE D == DOMAIN rows
           E == {i \in D : rows[i].response.error}
           Label(l) == {i \in D : rows[i].overall = l}
           read == {i \in DOMAIN streams : streams[i].end \in {"done", "cut"}}
<1>1. /\ report = <<Summary>> /\ results = rows /\ Len(rows) = NRecords /\ Len(streams) = Len(rows)
      /\ streams \in Seq(StreamRecords) /\ D = 1 .. Len(rows) /\ Len(rows) \in Nat
  BY DEF FilesInv, StreamsInv
<1>2. IsFiniteSet(D) /\ Cardinality(D) = Len(rows)
  <2>1. 1 \in Int /\ Len(rows) \in Int
    BY <1>1
  <2>2. /\ IsFiniteSet(1 .. Len(rows))
        /\ Cardinality(1 .. Len(rows)) = IF 1 > Len(rows) THEN 0 ELSE Len(rows) - 1 + 1
    BY <2>1, FS_Interval
  <2> QED
    BY <1>1, <2>2
<1> HIDE DEF D
<1>3. \A S \in SUBSET D : IsFiniteSet(S) /\ Cardinality(S) \in Nat
  BY <1>2, FS_Subset, FS_CardinalityType
<1> USE DEF D
<1>4. Summary.total = NRecords /\ Summary.judgeErrors = failures
  BY <1>1 DEF Summary, JudgeErrors
<1>5. Summary.agentErrors = Cardinality(E) /\ Summary.status["agent_error"] = Cardinality(E)
  <2>1. \A i \in D : rows[i] \in Rows
    BY <1>1
  <2>2. {i \in D : rows[i].status = "agent_error"} = E
    <3>1. \A i \in D : rows[i].response \in Answers
      BY <2>1 DEF Rows
    <3> QED
      BY <3>1, StatusTells DEF RowInv
  <2> QED
    BY <2>2 DEF Summary, Statuses
<1>6. Cardinality(E) + Cardinality(read) = Len(rows)
  <2>1. E \cap read = {} /\ E \cup read = D
    BY <1>1 DEF RowInv
  <2>2. IsFiniteSet(E) /\ IsFiniteSet(read)
    BY <1>3, <2>1
  <2> QED
    BY <1>2, <2>1, <2>2, DisjointCount
<1>7. \A l \in Labels : Summary.overall[l] = Cardinality(Label(l))
  BY DEF Summary
<1>8. Cardinality(Label("error")) >= Cardinality(E) + failures
  <2>1. E \cap JudgeErrors(rows) = {} /\ E \cup JudgeErrors(rows) \subseteq Label("error")
    BY DEF RowInv, JudgeErrors
  <2>2. Cardinality(E \cup JudgeErrors(rows)) = Cardinality(E) + failures
    BY <1>3, <2>1, DisjointCount DEF JudgeErrors
  <2>3. Cardinality(E \cup JudgeErrors(rows)) <= Cardinality(Label("error"))
    BY <1>3, <2>1, FS_Subset
  <2> QED
    BY <1>3, <2>2, <2>3
<1>9. Cardinality(Label("pass")) + Cardinality(Label("review")) + Cardinality(Label("fail"))
        + Cardinality(Label("error")) = Len(rows)
  <2>1. \A l \in Labels : IsFiniteSet(Label(l)) /\ Cardinality(Label(l)) \in Nat
    BY <1>3
  <2>2. \A k, l \in Labels : k # l => Label(k) \cap Label(l) = {}
    OBVIOUS
  <2> DEFINE two == Label("pass") \cup Label("review")
             three == two \cup Label("fail")
  <2>3. IsFiniteSet(two) /\ Cardinality(two) = Cardinality(Label("pass")) + Cardinality(Label("review"))
    BY <2>1, <2>2, DisjointCount DEF Labels
  <2>4. two \cap Label("fail") = {} /\ three \cap Label("error") = {}
    OBVIOUS
  <2>5. IsFiniteSet(three) /\ Cardinality(three) = Cardinality(two) + Cardinality(Label("fail"))
    BY <2>1, <2>3, <2>4, DisjointCount DEF Labels
  <2>6. Cardinality(three \cup Label("error")) = Cardinality(three) + Cardinality(Label("error"))
    BY <2>1, <2>4, <2>5, DisjointCount DEF Labels
  <2>7. three \cup Label("error") = D
    <3>1. \A i \in D : rows[i] \in Rows
      BY <1>1
    <3>2. \A i \in D : rows[i].overall \in Labels
      BY <3>1 DEF Rows
    <3> QED
      BY <3>2 DEF Labels
  <2> HIDE DEF two, three, Label, D
  <2> QED
    BY <1>2, <2>3, <2>5, <2>6, <2>7
<1>10. report[1] = Summary
  BY <1>1
<1> QED
  BY <1>1, <1>4, <1>5, <1>6, <1>7, <1>8, <1>9, <1>10 DEF SummaryAddsUp, Labels

(* The counts of the summary fit together and count the failures there     *)
(* were (SummaryAddsUp; evaluation_results.build_summary).                 *)
THEOREM SummariesOfRunsAddUp == EvaluationSpec => []SummaryAddsUp
<1>1. EvaluationInv => SummaryAddsUp
  BY SummaryCounts DEF SummaryAddsUp
<1> QED
  BY <1>1, EvaluationInvariant, PTL
===============================================================================
