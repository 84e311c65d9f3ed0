----------------------------- MODULE GoldenDataset -----------------------------
(***************************************************************************)
(* The golden dataset of the evaluation and the program that brings it up  *)
(* to date from the PDFs of a bucket                                       *)
(* (management/evals/generate_golden_dataset.py, dataset_io.py,            *)
(* question_generation.py, page_selection.py).  Runs follow one another    *)
(* on one file; documents come and go between them; every call that leaves *)
(* the program can fail, and a run can be stopped at any step.             *)
(*                                                                         *)
(* The id of a record is a hash of the file name and the page, so both     *)
(* stand for the key of a record here; two objects in different folders    *)
(* can have one file name.                                                 *)
(***************************************************************************)
EXTENDS Naturals, Sequences, FiniteSets

CONSTANTS
  Objects,         \* the PDFs, numbered in the order of their object names
  Ineligible,      \* those that are empty or have another extension
  FileName,        \* object -> file name
  MaxPage,         \* pages of a PDF
  MaxPagesPerPdf,  \* EVAL_MAX_PAGES_PER_PDF
  MaxPdfs,         \* --max-pdfs
  MaxAttempts,     \* max_retries + 1 of generate_question_answer
  MaxScore,        \* scores are cut off here
  MaxRuns          \* bound

ASSUME DocumentsAssumption ==
  Objects \subseteq Nat /\ IsFiniteSet(Objects) /\ Ineligible \subseteq Objects
  /\ FileName \in [Objects -> STRING]
ASSUME BoundsAssumption ==
  MaxPage \in Nat /\ MaxPagesPerPdf \in Nat \ {0} /\ MaxPdfs \in Nat \ {0}
  /\ MaxAttempts \in Nat \ {0} /\ MaxScore \in Nat /\ MaxRuns \in Nat

Pages   == 1 .. MaxPage
Names   == {FileName[o] : o \in Objects}
Records == [name : Names, page : Pages, object : Objects, run : 1 .. MaxRuns]
Key(r)  == <<r.name, r.page>>
Keys(s) == {Key(s[i]) : i \in DOMAIN s}

VARIABLES
  dataset,     \* the records of the file
  run,         \* number of the run
  overwrite,   \* --overwrite
  dry,         \* --dry-run
  pc,          \* "idle", "pdf", "page", "merge", "write"
  todo,        \* documents not begun
  pdf,         \* the document at work
  pages,       \* its selected pages not worked off
  attempts,    \* model calls for the least of them
  generated,   \* records made in this run
  discovered, processed, skipped,  \* documents, as the summary counts them
  selected, failed,                \* <<document, page>>, as the summary counts them
  merged,      \* the records to be written
  next,        \* position in generated
  added, replaced,                 \* counts of the summary
  exit,        \* "none", 0 or 1, "crashed"
  before       \* history: the file when the run read it

mode    == <<run, overwrite, dry>>
work    == <<todo, pdf, pages, attempts>>
summary == <<discovered, processed, skipped, selected, failed>>
merge   == <<merged, next, added, replaced, before>>
vars    == <<dataset, mode, pc, work, generated, summary, merge, exit>>

Init ==
  /\ dataset = <<>> /\ run = 0 /\ overwrite = FALSE /\ dry = FALSE /\ pc = "idle"
  /\ todo = {} /\ pdf = 0 /\ pages = {} /\ attempts = 0 /\ generated = <<>>
  /\ discovered = {} /\ processed = {} /\ skipped = {} /\ selected = {} /\ failed = {}
  /\ merged = <<>> /\ next = 1 /\ added = 0 /\ replaced = 0 /\ before = <<>> /\ exit = "none"

Least(S, x) == x \in S /\ \A y \in S : x <= y

-------------------------------------------------------------------------------
(* The documents of a run. *)

(* discover_pdf_objects, cut to --max-pdfs. *)
Discovered(bucket) ==
  LET pdfs == bucket \ Ineligible
  IN  {o \in pdfs : Cardinality({q \in pdfs : q < o}) < MaxPdfs}

Start(bucket, o, d) ==
  /\ pc = "idle" /\ run < MaxRuns
  /\ run' = run + 1 /\ overwrite' = o /\ dry' = d
  /\ discovered' = Discovered(bucket) /\ todo' = discovered'
  /\ processed' = {} /\ skipped' = {} /\ selected' = {} /\ failed' = {} /\ generated' = <<>>
  /\ pages' = {} /\ attempts' = 0 /\ pc' = "pdf" /\ exit' = "none"
  /\ merged' = <<>> /\ next' = 1 /\ added' = 0 /\ replaced' = 0 /\ before' = <<>>
  /\ UNCHANGED <<dataset, pdf>>

(* validate_config, the clients or the listing fail. *)
StartFails ==
  /\ pc = "idle" /\ run < MaxRuns
  /\ run' = run + 1 /\ exit' = "1"
  /\ UNCHANGED <<dataset, overwrite, dry, pc, work, generated, summary, merge>>

(* Defect: one page more than asked for. *)
SignificantOneMore(score) ==
  LET useful == {p \in Pages : score[p] > 0}
      Better(q, p) == score[q] > score[p] \/ (score[q] = score[p] /\ q < p)
  IN  {p \in useful : Cardinality({q \in useful : Better(q, p)}) <= MaxPagesPerPdf}

(* The best pages with a score, the earlier of two equal ones. *)
Significant(score) ==
  LET useful == {p \in Pages : score[p] > 0}
      Better(q, p) == score[q] > score[p] \/ (score[q] = score[p] /\ q < p)
  IN  {p \in useful : Cardinality({q \in useful : Better(q, p)}) < MaxPagesPerPdf}

(* A document is downloaded, read and its pages are selected. *)
ReadPdf(o, score) ==
  /\ pc = "pdf" /\ Least(todo, o)
  /\ todo' = todo \ {o} /\ pdf' = o
  /\ processed' = processed \cup {o}
  /\ selected' = selected \cup ({o} \X Significant(score))
  /\ pages' = IF dry THEN {} ELSE Significant(score)
  /\ attempts' = 0 /\ pc' = IF pages' = {} THEN "pdf" ELSE "page"
  /\ UNCHANGED <<dataset, mode, generated, discovered, skipped, failed, merge, exit>>

ReadFails(o) ==
  /\ pc = "pdf" /\ Least(todo, o)
  /\ todo' = todo \ {o} /\ skipped' = skipped \cup {o}
  /\ UNCHANGED <<dataset, mode, pc, pdf, pages, attempts, generated, discovered, processed,
                 selected, failed, merge, exit>>

-------------------------------------------------------------------------------
(* generate_question_answer for the least selected page. *)

NextPage(p) ==
  /\ pages' = pages \ {p} /\ attempts' = 0
  /\ pc' = IF pages' = {} THEN "pdf" ELSE "page"

ValidAnswer(p) ==
  /\ pc = "page" /\ Least(pages, p)
  /\ generated' = Append(generated, [name |-> FileName[pdf], page |-> p, object |-> pdf, run |-> run])
  /\ NextPage(p)
  /\ UNCHANGED <<dataset, mode, todo, pdf, summary, merge, exit>>

(* Defect: the model is asked until it answers well. *)
InvalidAnswerForEver(p) ==
  /\ pc = "page" /\ Least(pages, p)
  /\ attempts' = (attempts + 1) % MaxAttempts
  /\ UNCHANGED <<dataset, mode, pc, todo, pdf, pages, generated, summary, merge, exit>>

(* Defect: the last invalid answer leaves no trace. *)
InvalidAnswerUnreported(p) ==
  /\ pc = "page" /\ Least(pages, p)
  /\ IF attempts + 1 < MaxAttempts THEN attempts' = attempts + 1 /\ UNCHANGED <<pages, pc>>
     ELSE NextPage(p)
  /\ UNCHANGED <<dataset, mode, todo, pdf, generated, summary, merge, exit>>

(* No JSON, an empty text, or a question with a forbidden reference. *)
InvalidAnswer(p) ==
  /\ pc = "page" /\ Least(pages, p)
  /\ IF attempts + 1 < MaxAttempts
     THEN attempts' = attempts + 1 /\ UNCHANGED <<failed, pages, pc>>
     ELSE NextPage(p) /\ failed' = failed \cup {<<pdf, p>>}
  /\ UNCHANGED <<dataset, mode, todo, pdf, generated, discovered, processed, skipped, selected,
                 merge, exit>>

(* Any other exception, of the call or of an answer that is no object,     *)
(* leaves the document; its records so far stay.                           *)
ModelFails ==
  /\ pc = "page"
  /\ skipped' = skipped \cup {pdf}
  /\ pages' = {} /\ attempts' = 0 /\ pc' = "pdf"
  /\ UNCHANGED <<dataset, mode, todo, pdf, generated, discovered, processed, selected, failed,
                 merge, exit>>

-------------------------------------------------------------------------------
(* The end of a run: load_jsonl_records, merge_records and                 *)
(* write_jsonl_records_atomic, or the summary of a dry run.                *)

(* main. *)
ExitCode == IF discovered # {} /\ (processed # {} \/ skipped = {}) THEN "0" ELSE "1"

EndDry ==
  /\ pc = "pdf" /\ todo = {} /\ dry
  /\ pc' = "idle" /\ exit' = ExitCode
  /\ UNCHANGED <<dataset, mode, work, generated, summary, merge>>

LoadRecords ==
  /\ pc = "pdf" /\ todo = {} /\ ~dry
  /\ before' = dataset /\ merged' = dataset
  /\ next' = 1 /\ added' = 0 /\ replaced' = 0
  /\ pc' = IF generated = <<>> THEN "write" ELSE "merge"
  /\ UNCHANGED <<dataset, mode, work, generated, summary, exit>>

(* The file cannot be read, or a line of it is no record. *)
LoadFails ==
  /\ pc = "pdf" /\ todo = {} /\ ~dry
  /\ pc' = "idle" /\ exit' = "1"
  /\ UNCHANGED <<dataset, mode, work, generated, summary, merge>>

(* Where merged has a record of the key. *)
Places(k) == {i \in DOMAIN merged : Key(merged[i]) = k}

(* Defect: the ids are those of the file read, and not brought up to date. *)
MergeAgainstFile(r) ==
  \/ /\ Key(r) \notin Keys(before)
     /\ merged' = Append(merged, r) /\ added' = added + 1 /\ UNCHANGED replaced
  \/ /\ Key(r) \in Keys(before) /\ UNCHANGED <<merged, added, replaced>>

(* Defect: the mode is not looked at. *)
MergeAlwaysReplaces(r) ==
  \/ /\ Places(Key(r)) = {}
     /\ merged' = Append(merged, r) /\ added' = added + 1 /\ UNCHANGED replaced
  \/ \E i \in Places(Key(r)) :
        merged' = [merged EXCEPT ![i] = r] /\ replaced' = replaced + 1 /\ UNCHANGED added

(* Defect: nothing is replaced in any mode. *)
MergeNeverReplaces(r) ==
  \/ /\ Places(Key(r)) = {}
     /\ merged' = Append(merged, r) /\ added' = added + 1 /\ UNCHANGED replaced
  \/ Places(Key(r)) # {} /\ UNCHANGED <<merged, added, replaced>>

(* The last record of a key is replaced, with --overwrite. *)
MergeRecord(r) ==
  \/ /\ Places(Key(r)) = {}
     /\ merged' = Append(merged, r) /\ added' = added + 1 /\ UNCHANGED replaced
  \/ \E i \in Places(Key(r)) :
        /\ overwrite /\ \A j \in Places(Key(r)) : j <= i
        /\ merged' = [merged EXCEPT ![i] = r] /\ replaced' = replaced + 1 /\ UNCHANGED added
  \/ Places(Key(r)) # {} /\ ~overwrite /\ UNCHANGED <<merged, added, replaced>>

Merge ==
  /\ pc = "merge" /\ MergeRecord(generated[next])
  /\ next' = next + 1
  /\ pc' = IF next = Len(generated) THEN "write" ELSE "merge"
  /\ UNCHANGED <<dataset, mode, work, generated, summary, before, exit>>

(* A new file takes the place of the old one at once. *)
Write ==
  /\ pc = "write" /\ dataset' = merged
  /\ pc' = "idle" /\ exit' = ExitCode
  /\ UNCHANGED <<mode, work, generated, summary, merge>>

WriteFails ==
  /\ pc = "write" /\ pc' = "idle" /\ exit' = "1"
  /\ UNCHANGED <<dataset, mode, work, generated, summary, merge>>

Stop ==
  /\ pc # "idle" /\ pc' = "idle" /\ exit' = "crashed"
  /\ UNCHANGED <<dataset, mode, work, generated, summary, merge>>

-------------------------------------------------------------------------------
ReadStep == \E o \in todo : ReadFails(o) \/ \E score \in [Pages -> 0 .. MaxScore] : ReadPdf(o, score)
PageStep == ModelFails \/ \E p \in pages : ValidAnswer(p) \/ InvalidAnswer(p)
EndStep  == EndDry \/ LoadRecords \/ LoadFails \/ Merge \/ Write \/ WriteFails
Program  == ReadStep \/ PageStep \/ EndStep

Next ==
  \/ \E bucket \in SUBSET Objects, o, d \in BOOLEAN : Start(bucket, o, d)
  \/ StartFails \/ Program \/ Stop

Spec     == Init /\ [][Next]_vars
FairSpec == Spec /\ WF_vars(Program)

-------------------------------------------------------------------------------
(* Properties. *)

TypeOK ==
  /\ dataset \in Seq(Records) /\ generated \in Seq(Records) /\ merged \in Seq(Records)
  /\ before \in Seq(Records)
  /\ run \in 0 .. MaxRuns /\ overwrite \in BOOLEAN /\ dry \in BOOLEAN
  /\ pc \in {"idle", "pdf", "page", "merge", "write"}
  /\ todo \subseteq Objects /\ pdf \in Objects \cup {0}
  /\ pages \subseteq Pages /\ attempts \in 0 .. MaxAttempts - 1
  /\ discovered \subseteq Objects /\ processed \subseteq Objects /\ skipped \subseteq Objects
  /\ selected \subseteq Objects \X Pages /\ failed \subseteq Objects \X Pages
  /\ next \in 1 .. Len(generated) + 1 /\ added \in Nat /\ replaced \in Nat
  /\ exit \in {"none", "0", "1", "crashed"}

(* Running the generator again does not duplicate records                  *)
(* (specs/0015-evaluation-golden-dataset.md:463), whatever documents share *)
(* a file name.                                                            *)
OneRecordPerPage ==
  \A i, j \in DOMAIN dataset : Key(dataset[i]) = Key(dataset[j]) => i = j

(* Records stay where they are and as they are, whatever became of their   *)
(* documents and whatever failed in the run; only with --overwrite a new   *)
(* record of the same page takes the place of one (specs/0015:345-356).    *)
ExistingRecordsAreKept ==
  [][dataset' # dataset => ~dry /\ \A i \in DOMAIN dataset :
       /\ i \in DOMAIN dataset'
       /\ \/ dataset'[i] = dataset[i]
          \/ (overwrite /\ Key(dataset'[i]) = Key(dataset[i]) /\ dataset'[i].run = run)]_vars

(* After a run that wrote its file, each page it made an example for has   *)
(* one: of this run if the page is new or --overwrite is given, and the    *)
(* old one otherwise (specs/0015:345-359).                                 *)
Written == pc = "idle" /\ exit = "0" /\ ~dry
NewExamplesArrive ==
  Written => \A n \in DOMAIN generated : \E i \in DOMAIN dataset :
    /\ Key(dataset[i]) = Key(generated[n])
    /\ IF overwrite \/ Key(generated[n]) \notin Keys(before) THEN dataset[i].run = run
       ELSE i \in DOMAIN before /\ dataset[i] = before[i]

(* The summary of a run that came to its end: every document was processed *)
(* or skipped, every selected page of one that was not skipped has an      *)
(* example or a failure, and, if no two documents share a file name,       *)
(* "added" and "replaced" count the records that are new and that changed. *)
SummaryIsTrue ==
  Written =>
    /\ discovered = processed \cup skipped
    /\ \A d \in selected : d[1] \in skipped \/ d \in failed
         \/ \E n \in DOMAIN generated : <<generated[n].object, generated[n].page>> = d
    /\ (\A o, q \in discovered : FileName[o] = FileName[q] => o = q) =>
         /\ Len(dataset) = Len(before) + added
         /\ replaced = Cardinality({i \in DOMAIN before : dataset[i] # before[i]})

(* A run works on at most --max-pdfs documents, and makes at most          *)
(* --max-pages-per-pdf examples of each, whatever the scores, the retries  *)
(* and the failures (specs/0015:148-149).                                  *)
WithinLimits ==
  /\ Cardinality(processed \cup skipped) <= MaxPdfs
  /\ \A o \in Objects :
       Cardinality({n \in DOMAIN generated : generated[n].object = o}) <= MaxPagesPerPdf

(* A run whose calls return comes to its end: the attempts are bounded.    *)
RunEnds == pc # "idle" ~> pc = "idle"
===============================================================================
