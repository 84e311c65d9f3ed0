----------------------------- MODULE RagEvaluation -----------------------------
(***************************************************************************)
(* The evaluation runner (management/evals/run_rag_evaluation.py): it asks *)
(* the agent each question of the golden dataset, reads the answer from    *)
(* its stream (agent_client.py), compares the references                   *)
(* (reference_checks.py), lets a model judge the answer (judge.py) and     *)
(* writes the rows and their summary (evaluation_results.py).              *)
(*                                                                         *)
(* The agent sends what StreamContract allows; between it and its readers  *)
(* is a gateway that may strip the names of the events, hold the           *)
(* connection open after the last one, or end it at any place.  The        *)
(* command line client (clients/agent_cli.py) reads the same answer, with  *)
(* a reader of its own.                                                    *)
(***************************************************************************)
EXTENDS Naturals, Sequences, FiniteSets

CONSTANTS
  NRecords,     \* records selected from the dataset
  MaxTokens,    \* bound: tokens of an answer
  ReferenceSets \* the references of an answer: [pdf: it is the expected one, page]

Reference == [pdf : BOOLEAN, page : {"expected", "other", "unknown"}]
ASSUME InputsAssumption ==
  NRecords \in Nat /\ MaxTokens \in Nat /\ ReferenceSets \subseteq SUBSET Reference

Nothing == [conversation |-> FALSE, answer |-> 0, references |-> {}, usage |-> FALSE, error |-> FALSE]
Answers == [conversation : BOOLEAN, answer : 0 .. MaxTokens, references : SUBSET Reference,
            usage : BOOLEAN, error : BOOLEAN]
Labels  == {"pass", "review", "fail", "error"}
Statuses == {"agent_error", "no_references", "pdf_missing", "pdf_found_page_unknown",
             "pdf_and_page_found", "pdf_found_page_missing"}
Rows == [response : Answers, status : Statuses, overall : Labels, judgeError : BOOLEAN]

VARIABLES
  stage,    \* "start", "ask", "read", "judge", "summary" or "ended"
  rows,     \* the rows of the records done
  last,     \* the event the agent sent last, as in StreamContract
  named,    \* the gateway leaves the names of the events
  tokens,   \* tokens the agent sent
  seen,     \* _parse_agent_stream's metadata_seen
  response, \* _parse_agent_stream's state
  client,   \* the command line client: what it has read and where it is
  results, report,  \* the two files: what was written, <<>> before
  exitStatus, \* "none", "0" or "1"
  sent,     \* history: what the agent sent of the answer at hand
  streams,  \* history: for each question, what was sent and how the stream ended
  failures  \* history: judgements that failed

stream == <<last, named, tokens, seen, response, client, sent>>
files  == <<results, report>>
evaluationVars == <<stage, rows, stream, files, exitStatus, streams, failures>>

Contract == INSTANCE StreamContract

ClientStart == [seen |-> FALSE, read |-> Nothing, at |-> "reading"]

EvaluationInit ==
  /\ stage = "start" /\ rows = <<>> /\ results = <<>> /\ report = <<>> /\ exitStatus = "none"
  /\ last = "start" /\ named = TRUE /\ tokens = 0 /\ seen = FALSE /\ response = Nothing
  /\ client = ClientStart /\ sent = Nothing /\ streams = <<>> /\ failures = 0

-------------------------------------------------------------------------------
(* The events and their readers. *)

(* What a reader takes a frame for whose event name is left: the key of its *)
(* payload tells the event, except that the conversation comes twice.      *)
Inferred(e, metadataSeen) ==
  IF e \notin {"metadata", "done"} THEN e ELSE IF metadataSeen THEN "done" ELSE "metadata"

(* agent_client._normalize_sse_event_name *)
EventName(e) == IF named THEN e ELSE Inferred(e, seen)

(* Defect: the reader does not remember that the metadata came. *)
ClientForgets(e) == IF named THEN e ELSE Inferred(e, FALSE)

(* agent_cli._normalize_sse_event_name *)
ClientEventName(e) == IF named THEN e ELSE Inferred(e, client.seen)

(* What an event called name with the references refs adds to an answer. *)
Consume(r, name, refs) ==
  [conversation |-> r.conversation \/ name \in {"metadata", "done"},
   answer       |-> IF name = "token" THEN r.answer + 1 ELSE r.answer,
   references   |-> IF name = "references" THEN refs ELSE r.references,
   usage        |-> r.usage \/ name = "usage",
   error        |-> r.error \/ name = "error"]

(* render_stream leaves its loop at "done" and at "error". *)
ClientReads(e, refs) ==
  IF client.at # "reading" THEN client
  ELSE [seen |-> client.seen \/ ClientEventName(e) = "metadata",
        read |-> Consume(client.read, ClientEventName(e), refs),
        at   |-> IF ClientEventName(e) \in {"done", "error"} THEN ClientEventName(e) ELSE "reading"]

(* The client's connection ends. *)
ClientEnds(how) == [client EXCEPT !.at = IF @ = "reading" THEN how ELSE @]

-------------------------------------------------------------------------------
(* The records and the settings, and the request for the next record. *)

Row == Len(rows) + 1

StartEvaluation ==
  /\ stage = "start" /\ NRecords > 0 /\ stage' = "ask"
  /\ UNCHANGED <<rows, stream, files, exitStatus, streams, failures>>

(* The dataset cannot be read or is empty, or a setting is missing. *)
StartEvaluationFails ==
  /\ stage = "start" /\ stage' = "ended" /\ exitStatus' = "1"
  /\ UNCHANGED <<rows, stream, files, streams, failures>>

OpenStream ==
  /\ stage = "ask" /\ Row <= NRecords
  /\ named' \in BOOLEAN /\ last' = "start" /\ tokens' = 0
  /\ seen' = FALSE /\ response' = Nothing /\ client' = ClientStart /\ sent' = Nothing
  /\ stage' = "read"
  /\ UNCHANGED <<rows, files, exitStatus, streams, failures>>

(* check_references *)
Status(r) ==
  LET matching == {x \in r.references : x.pdf}
      known == {x \in matching : x.page # "unknown"}
  IN  IF r.error THEN "agent_error"
      ELSE IF r.references = {} THEN "no_references"
      ELSE IF matching = {} THEN "pdf_missing"
      ELSE IF known = {} THEN "pdf_found_page_unknown"
      ELSE IF \E x \in known : x.page = "expected" THEN "pdf_and_page_found"
      ELSE "pdf_found_page_missing"

AddRow(r, overall, failed) ==
  /\ rows' = Append(rows, [response |-> r, status |-> Status(r), overall |-> overall, judgeError |-> failed])
  /\ stage' = "ask"

Failed == [Nothing EXCEPT !.error = TRUE]

(* No connection, or a status other than 2xx. *)
RequestFails ==
  /\ stage = "ask" /\ Row <= NRecords
  /\ AddRow(Failed, "error", FALSE)
  /\ streams' = Append(streams, [sent |-> Nothing, last |-> "start", end |-> "broken"])
  /\ UNCHANGED <<stream, files, exitStatus, failures>>

EndStream(how) == streams' = Append(streams, [sent |-> sent', last |-> last', end |-> how])

(* _consume_sse_frame; the reader stops at an error. *)
Receive(e, refs) ==
  /\ stage = "read" /\ e \in Contract!Follows(last) \ {"transcript"}
  /\ e = "token" => tokens < MaxTokens
  /\ last' = e /\ tokens' = IF e = "token" THEN tokens + 1 ELSE tokens
  /\ sent' = Consume(sent, e, refs)
  /\ seen' = (seen \/ EventName(e) = "metadata")
  /\ response' = Consume(response, EventName(e), refs)
  /\ client' = ClientReads(e, refs)
  /\ IF response'.error
     THEN stage' = "judge" /\ EndStream("error")
     ELSE stage' = "read" /\ UNCHANGED streams
  /\ UNCHANGED <<rows, named, files, exitStatus, failures>>

(* The connection is closed in order, if the agent is done or not. *)
Close ==
  /\ stage = "read" /\ stage' = "judge"
  /\ client' = ClientEnds("ended") /\ UNCHANGED <<last, named, tokens, seen, response, sent>>
  /\ EndStream(IF last = "done" THEN "done" ELSE "cut")
  /\ UNCHANGED <<rows, files, exitStatus, failures>>

(* Defect: what was read before a failure is taken for the answer. *)
BreakKeepsAnswer ==
  /\ stage = "read" /\ stage' = "judge"
  /\ client' = ClientEnds("failed") /\ UNCHANGED <<last, named, tokens, seen, response, sent>>
  /\ EndStream("broken")
  /\ UNCHANGED <<rows, files, exitStatus, failures>>

(* The connection breaks, ends within a frame, or is silent for longer     *)
(* than the timeout: invoke_agent drops what it read.                      *)
Break ==
  /\ stage = "read" /\ stage' = "judge"
  /\ response' = Failed
  /\ client' = ClientEnds("failed") /\ UNCHANGED <<last, named, tokens, seen, sent>>
  /\ EndStream("broken")
  /\ UNCHANGED <<rows, files, exitStatus, failures>>

-------------------------------------------------------------------------------
(* The judgement, and the files. *)

SkipJudge ==
  /\ stage = "judge" /\ response.error /\ AddRow(response, "error", FALSE)
  /\ UNCHANGED <<stream, files, exitStatus, streams, failures>>

(* The judge is told not to answer "error", and may. *)
Judge(overall) ==
  /\ stage = "judge" /\ ~response.error /\ AddRow(response, overall, FALSE)
  /\ UNCHANGED <<stream, files, exitStatus, streams, failures>>

(* Defect: a question whose judgement fails is asked again. *)
JudgeRetries ==
  /\ stage = "judge" /\ ~response.error /\ stage' = "ask"
  /\ streams' = SubSeq(streams, 1, Len(streams) - 1)
  /\ UNCHANGED <<rows, stream, files, exitStatus, failures>>

(* Defect: a failed judgement is not marked. *)
JudgeFailsSilently ==
  /\ stage = "judge" /\ ~response.error /\ AddRow(response, "error", FALSE)
  /\ failures' = failures + 1
  /\ UNCHANGED <<stream, files, exitStatus, streams>>

(* The call fails, or its answer is no JSON or has a label of its own. *)
JudgeFails ==
  /\ stage = "judge" /\ ~response.error /\ AddRow(response, "error", TRUE)
  /\ failures' = failures + 1
  /\ UNCHANGED <<stream, files, exitStatus, streams>>

(* build_summary *)
Summary ==
  [total       |-> Len(rows),
   agentErrors |-> Cardinality({i \in DOMAIN rows : rows[i].response.error}),
   judgeErrors |-> Cardinality({i \in DOMAIN rows : rows[i].judgeError}),
   overall     |-> [l \in Labels |-> Cardinality({i \in DOMAIN rows : rows[i].overall = l})],
   status      |-> [s \in Statuses |-> Cardinality({i \in DOMAIN rows : rows[i].status = s})]]

WriteResults ==
  /\ stage = "ask" /\ Row > NRecords
  /\ results' = rows /\ stage' = "summary"
  /\ UNCHANGED <<rows, stream, report, exitStatus, streams, failures>>

WriteSummary ==
  /\ stage = "summary" /\ report' = <<Summary>> /\ stage' = "ended" /\ exitStatus' = "0"
  /\ UNCHANGED <<rows, stream, results, streams, failures>>

(* Each file is replaced as a whole or not at all. *)
WriteFileFails ==
  /\ stage = "summary" \/ (stage = "ask" /\ Row > NRecords)
  /\ stage' = "ended" /\ exitStatus' = "1"
  /\ UNCHANGED <<rows, stream, files, streams, failures>>

-------------------------------------------------------------------------------
EvaluationNext ==
  \/ StartEvaluation \/ StartEvaluationFails \/ OpenStream \/ RequestFails \/ Close \/ Break
  \/ \E e \in Contract!Events, refs \in ReferenceSets : (e # "references" => refs = {}) /\ Receive(e, refs)
  \/ SkipJudge \/ JudgeFails \/ \E overall \in Labels : Judge(overall)
  \/ WriteResults \/ WriteSummary \/ WriteFileFails

EvaluationSpec == EvaluationInit /\ [][EvaluationNext]_evaluationVars
FairEvaluationSpec == EvaluationSpec /\ WF_evaluationVars(EvaluationNext)

-------------------------------------------------------------------------------
(* Properties. *)

EvaluationTypeOK ==
  /\ stage \in {"start", "ask", "read", "judge", "summary", "ended"}
  /\ rows \in Seq(Rows) /\ Len(rows) <= NRecords
  /\ named \in BOOLEAN /\ tokens \in 0 .. MaxTokens /\ seen \in BOOLEAN
  /\ last \in {"start"} \cup Contract!Events
  /\ response \in Answers /\ sent \in Answers
  /\ client \in [seen : BOOLEAN, read : Answers, at : {"reading", "done", "error", "ended", "failed"}]
  /\ results \in {<<>>, rows} /\ Len(report) <= 1 /\ exitStatus \in {"none", "0", "1"}
  /\ failures \in 0 .. NRecords

(* Each row says what the agent sent for its question, whether or not the  *)
(* gateway left the names of the events: the answer, its conversation, the *)
(* references and the usage of a stream that was read, and an error and    *)
(* nothing else if the request or the stream failed (agent_client.py).     *)
RowsSayWhatWasStreamed ==
  \A i \in DOMAIN rows :
    rows[i].response = IF streams[i].end = "broken" THEN Failed ELSE streams[i].sent

(* The runner and the command line client understand an answer alike       *)
(* (specs/0016:184-186): at the end of a stream the one has read what the  *)
(* other shows, and with "done" or "error" the client is at its end,       *)
(* whatever the gateway does with the connection after it.                 *)
ReadersAgree ==
  /\ last \in {"done", "error"} => client.at = last
  /\ stage = "judge" /\ ~response.error => client.read = response

(* The summary of a run that came to its end: it is about the rows that    *)
(* were written, the judge's errors are the judgements that failed, the    *)
(* agent's errors are those the references are not compared for, and each  *)
(* answer that was read to an end has one label of the judge or one of its *)
(* failures (evaluation_results.py:86-140).                                *)
SummaryAddsUp ==
  exitStatus = "0" =>
    LET s == report[1]
        read == {i \in DOMAIN streams : streams[i].end \in {"done", "cut"}}
    IN  /\ results = rows /\ s.total = NRecords
        /\ s.judgeErrors = failures
        /\ s.status["agent_error"] = s.agentErrors /\ s.agentErrors + Cardinality(read) = s.total
        /\ s.overall["error"] >= s.agentErrors + s.judgeErrors
        /\ s.overall["pass"] + s.overall["review"] + s.overall["fail"] + s.overall["error"] = s.total

(* Failures of single records do not keep the run from its end: each call  *)
(* has a timeout and no record is tried twice (run_rag_evaluation.py).     *)
EvaluationEnds == <>(stage = "ended")
===============================================================================
