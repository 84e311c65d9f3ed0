# OCI RAG Agent Blueprint: TLA+ specifications, model checks and proofs

The repository deploys and runs a retrieval-augmented agent on Oracle Cloud
Infrastructure. This directory holds TLA+ models of the parts of it that keep
state, the TLC configurations that check them on small instances, and TLAPS
proofs of the properties that matter most, for every value of the constants.
`PROJECT.json` lists the runs, the lines each definition stands for, the hazards
and the results; this file is the guide.

Line numbers refer to files under `src/`; specifications of the repository are
cited by their number (`0010:515` is `specs/0010-agent-factory.md`, line 515).

## 1. Inventory

### Agent Factory API (`agent-factory/api/agent_factory_api`)

- **Deployment runs** (`app.py`, `executor.py`, `commands.py`, `models.py`).
  State: the dictionary `RUNS` of run records in memory (status, completion time,
  error, outputs, and fifteen steps with a status each); in the thread of a run,
  the identifiers found so far. Operations: submission (a dry run is finished
  inside the request, a live one is left to a background thread), the fifteen
  steps, readiness polling, health check, failure handling, status requests.
  Hard: a step can fail in many ways, two of which bypass the handlers; the
  step to blame is guessed from the words of an error; the hosted deployment
  settles in its own time; status requests read the record without a lock while
  the thread writes it; nothing survives a restart. Correct when: the record
  tells the truth about the cloud, at every moment and above all at the end.
- **Foundation resources** (`resources.py`). State: none of its own; the bucket,
  the vector store and the connector are in the cloud. Operations: find, create,
  wait, verify, and the preflight of a dry run. Hard: lookup and creation are two
  calls and runs with the same names interleave; what was just created cannot
  always be read yet; the creation is verified by identifier with a fallback to
  the name; preflight repeats the decisions in code of its own. Correct when: a
  connector rests on ready resources, what is handed out is alive, and a dry run
  accepts only what the live run would.
- **Ready-to-run script** (`ready_script.py`, `ready_script_runner.py`): renders a
  deployment as a script and runs it through the same executor. Sequential.
- **IDCS token check** (`idcs.py`): one request, and pure validation of its answer.

### Agent Factory page (`agent-factory/ui/app/page.js`)

State: the run shown, the error shown, whether a submission is pending, the
endpoint, the interval of the polls. It talks to the API by HTTP: a submission,
then a poll every 1500 ms until the run ended. Hard: polls overlap, answers
overtake each other, replies are lost, an effect is cancelled while its requests
are under way, the service restarts. Correct when: what is shown is the end of
the user's run, and stays so.

### Agent (`agent`)

- **Answer streams** (`agent.py`, `main.py`): a generator of server-sent events
  over the stream of the Responses API. State: the tokens sent, the response
  identifier, the references and the usage found. Hard: the status line is sent
  before anything can fail, so failures are events; the parser of the stream can
  fail in the middle; final data may have to be retrieved after the stream.
  Correct when: the events come in an order the readers can rely on even if a
  gateway strips their names, and every failure is reported once.
- **Voice questions** (`audio.py`): upload, a transcription job that is polled to
  a deadline, its output read, then the answer stream after a transcript event.
  State: the audio, the jobs and the transcripts of all requests, in one bucket and
  in OCI Speech. Hard: the handler sleeps between polls while it holds the event
  loop; the job goes on after its deadline; a transcript may have to be looked up
  by prefix among those of others. Correct when: everyone gets their own words, the
  status fits what became of the job, and nobody waits for ever behind a stuck one.
- **Document ingestion** (`document_ingestion.py`, with
  `management/document_ingestion.py`, and the bulk loader
  `management/load_documents.py`): check for existing objects, upload, start a
  connector job, follow its status. State: none of its own; the objects are in the
  bucket. Hard: check and upload are separate calls, an upload can fail in the
  middle, a call can take effect although its answer is lost, submissions and
  loaders share the bucket. Correct when: a job is made for a complete set only,
  nothing that was there is replaced unasked, and what is left is accounted for.
- **References, usage, schema validation, configuration, observability**: pure
  functions over one response or one request, and glue.

### Chat page (`ui/app/page.js`, `ui/app/sse.mjs`)

State: the conversation, the messages, the busy flag, the reference of the
request an abort reaches, the recording, the token. Hard: typed and spoken
questions share the busy flag and the abort reference; a reset can come at any
await; the microphone, its recorders and their stop events are asynchronous, and
one recording can be asked for while another is. Correct when: a new conversation is
new, the page leaves its streaming mode, and a recording can be stopped.

### Evaluation (`management/evals`)

- **Golden dataset** (`generate_golden_dataset.py`, `dataset_io.py`,
  `question_generation.py`, `page_selection.py`, `pdf_pages.py`). State: a JSONL file
  that outlives the runs. Operations: choose pages of the PDFs of a bucket, let a
  model write a question for each, merge the examples into the file. Hard: any
  call can fail and any run can be stopped; documents come and go between runs; two
  documents can share a file name, which is what a record is known by. Correct when:
  what is in the file stays, what was made arrives, and the summary is true.
- **RAG evaluation** (`run_rag_evaluation.py`, `agent_client.py`, `judge.py`,
  `reference_checks.py`, `evaluation_results.py`). State: the rows. Operations: put
  each question to the agent, read the stream, compare references, let a model
  judge, write rows and summary. Hard: a gateway strips event names, cuts streams or
  breaks them; any record can fail. Correct when: a row says what was streamed and
  the summary adds up.

### Command line clients (`clients`)

Sequential programs over the services above; `agent_cli.py` has a reader of answer
streams of its own.

### Who talks to whom

    Factory page --HTTP--> Factory API --+-- background thread --> OCI control plane
                                         +-- run record <-- status requests (threads)
    Chat page ----HTTP/SSE--> agent --> Responses API, OCI Speech, Object Storage
    CLI ----------HTTP/SSE--> agent
    RAG evaluation HTTP/SSE-> agent; judging model; results and summary files
    golden dataset ---------> Object Storage, generating model; dataset file
    bulk loader ------------> Object Storage, connector (as the agent's ingestion)

## 2. Plan

In this order, the most important behaviour first. Done:

1. `FactorySteps`, `RunContract`, `LiveRun`: a deployment run and what it promises.
2. `RunSnapshot`: the same record while it is read.
3. `Foundation`: concurrent runs on the same cloud resources.
4. `FactoryUI`: the page that follows runs.
5. `StreamContract`, `AgentStream`: an answer stream and the order it promises.
6. `ChatUI`: the page that reads answer streams; composes `StreamContract`.
7. `IngestionContract`, `DocumentIngestion`: submissions and loaders on one bucket.
8. `GoldenDataset`: runs of the generator on one file.
9. `RagEvaluation`: the evaluation as a reader of answer streams, next to the
   command line client; composes `StreamContract`.
10. `AudioTranscription`: voice questions of several agents before their streams.

Left, in this order:

11. `IngestionClient`: the status polling of `document_ingestion_cli.py` and of the
    pages, over `IngestionContract`.
12. `ReadyScript`: the script runner over the contract `RunContract` (instance as
    for `LiveRun`), and the export from the page, whose form may have changed.
13. `References`: deduplication and normalisation as functions, checked against a
    reference definition over bounded inputs.
14. The credential checks of the factory page in `FactoryUI`.

Every safety property of the passing runs is proved (section 6); a module that is
added brings its proof with it. Still worth proving about what there is: that the
run on the factory page is in the state of some run of `LiveRun`, which needs the
service of `FactoryUI` composed with it.

## 3. The models and the code

In every model a step is what the code does between two points where another
actor can act: for Python threads one call to the cloud or, in `RunSnapshot`, one
assignment; for the pages what runs between two awaits; for the generator what
runs between two yields or calls.

### `LiveRun` (with `FactorySteps`) and `RunContract`

`FactorySteps` numbers the fifteen steps of `build_steps`, with the rule by which
`_failed_resource_step_id` guesses a failed step from words (the words are the
set `Keywords`) and the sweep of `_mark_live_run_failed`. `LiveRun` has the record
(`status`, `completed`, `steps`, `error`, `outputs`), the locals of the thread
(`produced`, `cursor`, `pc`, `polls`, `answer`) and the cloud (`hostedApp`,
`deployment`). One action per report or call of the thread; every exit of the
code has its own action, those through exceptions that nothing handles
(`SetupDies`, `CommandDies`, `ExtractDies`) included. An error's text is the set
of keywords it contains, and any set is possible. What the cloud tells of a
resource need not be its state: `listed` is what the listing of applications told of
the one to be used (absent, in transition, active, or there without a state), and
`answer` what a readiness poll found (the deployment's state, none at all, or an
endpoint address without a state). The code takes the second kind of each for ready
(`executor.py:626`, `executor.py:512`), and so do `LookupApplication` and
`PollReturns`, whatever the state in the cloud is. `SuccessIsReal` and
`DeploymentRestsOnImageAndApplication` say exactly that much: an active resource, or
one of which no state was told. `RunContract` is the abstract
specification: a run begins once, its steps are worked on in order and one at a
time, it ends once, and success means that every step was finished. `LiveRun`
implements it with the mapping `active <- {cursor}` while the thread is inside a
step and `finished <- cursor - 1`.

### `RunSnapshot`

The writer is `_set_step_status`, `_mark_running_steps_failed`,
`_mark_live_run_failed` and the end of `_execute_live_run`, one assignment a step,
in source order; a status request is `DeploymentRun.to_dict`, one field a step, in
the order of its dictionary. The steps of the workflow are `1..N`, any can fail,
any can be blamed.

### `Foundation`, `MCFoundation`

`bucket`, `store[c]`, `connector[c]` are the states in the cloud, a resource being
known by its creator `c` (a run, or one of `Old`). "hidden" is a resource whose
creation was accepted but which a read does not find yet. A state is what the
service tells: "ACTIVE" is any answer that is neither transitional nor failed, one
without a state included, which is all the code asks for (`resources.py:2054`) and
what `0010:264` says; that such a resource does not fall back into a transition is
assumed of the cloud. Each run goes through
lookup, creation, wait of the three resources; the preflight predicates are the
dry run's. `Cloud` lets resources appear and settle. Listing by name returns any
resource of the name that is listed, as the code takes the first of an order that
the service chooses.

### `FactoryUI`

The page's state (`Submit`, `Submitted`, `RunEffects`, `Poll`, `Refresh`, ...), the
requests in flight, and the service's runs. An effect of React is run by
`RunEffects` after a render; its cleanup (`Cancel`) makes the answers of its polls
be dropped. `Restart` forgets the runs of a service; `SetBackendUrl` edits the
endpoint.

### `AgentStream`, `StreamContract`

`pc` is the place in `stream_agent_request`; every call to the API may raise, with
a parser failure (`JSONDecodeError`) and any other exception kept apart, as the
handlers do (`Handle`). The events with no text carry the identifier, references,
usage and the end of the response in any combination. `Disconnect` is a client
that goes away. `Inferred` is the rule of the readers for frames without a name.
`StreamContract` is the order of the events; `AgentStream` implements it with
`last` mapped to the last event sent, and `ChatUI` takes its answers from it.

### `ChatUI`

`phase[r]` is where the function of request `r` waits: for its token, for the
response, or for a frame. An abort takes effect at once for a fetch and a read
(their promises reject before the next event of the page), and only after the
token arrived for a request that waits for one: `GetToken`. The conversation is
named after the request it was made for. `epoch` and `born` are history
variables: they count resets and say in which conversation a question was asked.
Recordings are numbered: `recorders[n]` is the recorder of the `n`-th click on the
microphone button, `recorder` the one the page holds in its reference, `stream` its
microphone. `StartRecording` is possible whenever the button is, so a second recording
can be asked for while the first waits for the permission. The stop event of a recorder
comes later than the call or the end of the tracks that stopped it (`RecordingStopped`),
and `Cleanup` is the cleanup of the effect on the audio URL, which stops the tracks of
the microphone that is held then.
Texts, token totals and error messages are left out.

### `DocumentIngestion`, `IngestionContract`, `MCDocumentIngestion`

A task is a submission to the agent or a run of the loader; `pc[t]` is the call it
makes next (`check` an object, `put` one, create the `sync`). The handler of the
agent awaits nothing between its calls, so one submission is active at a time
(`Submit`), while loaders are processes of their own. `Reject` stands for every
validation of `_build_upload_plan`; what is wrong with a file name is one value,
`Unsupported`. The two differ as the code does: the agent looks at all objects
first and refuses the whole submission if any exists, and stops at the first
failed upload (`CheckObject`, `UploadBreaks`); the loader looks at each object just
before its upload, skips or fails it and goes on (`SkipObject`, `CheckFails`,
`LoadFails`, `NextDocument`). A failing call may have taken effect. `content` tells
who wrote an object; `before` and `wrote` are history variables. The status
requests only read, and are left out. `IngestionContract` is the abstract
specification: a task is refused without a trace, or stores what it was asked to,
and a job is made when all of that is in the bucket.

### `GoldenDataset`, `MCGoldenDataset`

`dataset` is the file; a record is its key (file name and page), the object it was
made from and the run that made it, `run` and `object` telling apart what the file
does not. One run at a time: `Start` fixes its flags and the documents it discovers,
in the order of their names (`Discovered`), then one action per call: `ReadPdf`,
which chooses the pages by any scores (`Significant`), a model call with a valid, an
invalid or no answer, `LoadRecords`, `Merge`, `Write`. A failure inside a document
skips the rest of it and keeps the examples made before, as the code does. `Stop`
ends the program at any place. `MergeRecord` is the body of the loop of
`merge_records`; `Merge` takes one record of it a step. The same key can be met
twice in one run, by documents that share a name.

### `RagEvaluation`, `MCRagEvaluation`

Each answer is any sequence of events of `StreamContract`, whose names the gateway
keeps or strips for the whole answer (`named`). `Receive` is one frame, read by
`_consume_sse_frame` (`response`, `seen`) and, at once, by the reader of
`agent_cli.py` (`client`), which stops at `done` and `error` while the other reads
on to the end of the connection. `Close` ends the connection anywhere between
frames and `Break` in the middle of one or by a timeout. `Status` is
`check_references`, over references that name the expected document or not and the
expected page, another one or none. `sent`, `streams` and `failures` are history
variables. Of an answer's text its number of tokens is kept.

### `AudioTranscription`, `MCAudioTranscription`

`pc[r]` is the place of `create_audio_response`. From its settings to its transcript
the handler awaits nothing, sleeps included, so `LoopIsFree` guards what begins or
goes on in the same agent: other requests queue, and a stream sends nothing
meanwhile. Several agents share the bucket. `status[r]` is the status code the
client gets, by the handler that the exception reaches: one that is wrapped gives
502, one that is not reaches the middleware and gives 500 (`UploadFails`,
`PollBreaks`). `folder[r]` is the output prefix its job was created with: the one of
the settings with a uuid of the request, which the model takes for the request itself
(two requests never draw the same one). A transcript is known by its folder and its
speaker, and lands there whenever its job succeeds, long after a timeout too.
`location[r]` is what the task says of its output, names, the prefix or nothing, `Under`
what a listing by prefix returns, and `Candidates` what the code may then read. That the
names a task gives are those of its own output is assumed of OCI Speech. The deadline is
a number of polls, the last of which can come at any one of them (`TimesOut`). OCI Speech is external: a job may end
or not, whatever became of its request.

## 4. Runs

Passing runs:

| run | question | bounds |
| --- | --- | --- |
| `live_run` | Is the record of a run truthful through every failure, does the thread end, is the contract kept? | two readiness polls: one that waits, one that gives up |
| `run_snapshot` | Is an answer with a final status exact? | three steps (before, at, after the one at work); one request, as requests do not affect each other |
| `foundation` | Do two runs interfere with what a connector rests on, is a live connector handed out, does preflight agree with the lookups? | two runs; every value of every mode; one old resource, which with that of the other run makes a name ambiguous |
| `page_follows_runs` | Does the page stay true to the runs it made, and does it get to show their end? | two submissions, two answers in flight, two endpoints |
| `agent_stream` | Order and end of the events under every failure | three tokens and three other events: more of them repeat the same places |
| `chat_text` | Are conversations ever mixed with typed questions? | four questions, three resets |
| `chat_voice` | With overlap and tokens: is the page ever busy for nothing, for ever? Can a recording be stopped? | two questions (they overlap), one reset, two recordings (they overlap) |
| `document_ingestion` | Are jobs complete, existing objects kept and leftovers accounted for, with partial failures, lost answers and crashes? | two submissions and one loader: one after the other for the agent, beside it for the loader; two objects, one shared by every pair of lists, first or last |
| `golden_dataset` | Do records stay, do examples arrive, is the summary true, is no more done than asked for, does a run end, with failures and interruptions? | two runs (the second finds the file of the first); two documents of one name and an object that is no PDF; two of three pages chosen; two attempts; the limit on documents is not below their number, so that both can be met in one run: that it holds where it cuts is the theorem `LimitsAreKept` |
| `rag_evaluation` | Do rows, client and summary agree about what was streamed, and does the evaluation end? | two questions: a failed one beside one that is not; two tokens; references of every kind that the comparison tells apart |
| `audio_transcription` | Does everyone get their own words, do the answers fit the jobs, is everyone answered? | three requests to two agents: two queue for one event loop, the third shares only the bucket; two polls; every kind of output location |

One run shows a disagreement between a document and the code:
`chat_old_conversation` checks the sentence of `0006` that a new conversation is
new, and TLC finds a spoken and a typed question whose overlap makes a question
continue the conversation the user left; the finding quotes the sentence.

### Known departures without a run

The models contain these behaviours too; a property that excludes them fails. No
run is spent on them:

- The readiness step is reported succeeded from the exit code of a poll, while the
  deployment may still be `CREATING` (`executor.py:445`; `0010:496` says that it
  must not be).
- An application that is listed without a state is reused at once (`executor.py:626`),
  where `0010:599-602` waits for it to be active, and an endpoint address without a state is
  ready (`executor.py:512`), where `0010:498` asks for a ready state: `SuccessIsReal`
  and `DeploymentRestsOnImageAndApplication` are claimed up to these answers.
- Two live runs with the same names can both create a vector store or a connector
  (`resources.py:671`): lookup and creation are two calls.
- The reply to a submission that is lost leaves its run at work unseen, and the user can
  start another (`page.js:537`): `NoRunIsLeftBehind` exempts it.
- A live run with connector mode `skip` is always refused before its first command:
  the marker `<skipped>` is taken for an unresolved placeholder (`executor.py:1160`;
  `0010:454` allows such a deployment).
- A response that its service reports as failed ends with `done` and without an
  error event (`agent.py:241`; `0003:181`).
- The reader of the evaluation goes on to the end of the connection after `done`
  (`agent_client.py:172`), so a gateway that holds the connection open turns a
  complete answer into an agent error; `docs/agent-api-usage.md:184` tells clients to
  stop. A stream that is cut between two frames, on the other hand, is judged as if
  it were complete.
- A generator run whose documents all fail after their pages were chosen counts them
  as processed and exits with 0 (`generate_golden_dataset.py:575`; `0015:412`).
- An error of the SDK while a voice question is uploaded, polled or read is answered
  with 500 by the middleware (`main.py:88`), and a transcript that is no JSON with 500
  as a configuration error (`main.py:236`); `0014:339` asks for 502.
- A transcription that ends during the last sleep before the deadline is answered
  with 504 (`audio.py:542`), and one whose task names neither an object nor a prefix
  reads the first transcript of anyone under the shared prefix (`audio.py:597`):
  `TranscriptIsOwn` is claimed for tasks that name one of them.
- A step that succeeded becomes the failed one when the error of a later step
  mentions its words (`app.py:965`), and a failed dry run shows the checks that
  passed as pending (`app.py:709`); `0010:741` and `0010:510` ask for more.
- An exception that is not a `CommandExecutionError` leaves a run running for ever
  (`app.py:574`; actions `SetupDies`, `CommandDies`, `ExtractDies`).
- The answer that ends the polling of a failed run can lack its error, as the
  status is assigned first (`app.py:792`).
- A created connector can be "verified" by another one of the name
  (`resources.py:867`): in create mode an old, deleted one makes the creation fail,
  where `0010:269` says that it is ignored.
- An object that a loader stores between the look and the upload of a submission is
  replaced without `overwrite` (`agent/document_ingestion.py:552`; `0013:170` asks
  for none to be). `ExistingObjectsAreKept` claims it for what was there when the
  task began.
- An answer that a later one overtook takes finished steps back on the factory
  page (`page.js:307`).
- On the chat page a request that waits for its token is out of reach of a reset:
  its failure puts messages on the cleared page, and its end clears the busy state
  of the next question (`page.js:561`, `page.js:689`).
- A second click on the microphone button before the permission arrives starts a second
  recorder (`page.js:427`, `page.js:169`), whose references replace those of the first:
  nothing on the page stops that one any more; `0014:300` asks for recordings that can
  be stopped. `RecordingCanBeStopped` is about the recorder that the page shows.
- A recording that a reset drops comes back when its stop event arrives
  (`page.js:475`), and its audio can be sent from the cleared page.

`CHECK_DEADLOCK FALSE` is set where the system stops by design: a run that ended
is not started again, and the bounded numbers of questions are used up.

Symmetry is used for `Foundation` only, whose runs have no liveness property; runs
and old resources are interchangeable there.

## 5. Fairness

- `LiveRun`: weak fairness of the background thread. Commands have timeouts in
  the code, so a step always returns; nothing is assumed of the cloud.
- `FactoryUI`: weak fairness of the browser's effects, and strong fairness of
  polls being answered and delivered: the interval sends them for ever, and a
  network that loses infinitely many but delivers infinitely many is enough. The
  service works its run to an end (`LiveRun` shows when it does not).
- `ChatUI`: weak fairness of each request's progress: token, response and frames
  come or fail. The connection need never be closed.
- `GoldenDataset` and `RagEvaluation`: weak fairness of the program. It is
  sequential and each of its calls has a timeout (`--request-timeout-seconds`,
  `--judge-timeout-seconds`, and those of the clients it builds).
- `AudioTranscription`: weak fairness of each request's handler, which goes on when
  the event loop is free, and none of OCI Speech.

## 6. Proofs

The proofs hold for all values of the constants:

| module | about |
| --- | --- |
| `LiveRunProof` | `LiveRun`, and that it implements `RunContract` |
| `RunSnapshotProof` | `RunSnapshot` |
| `FoundationProof` | `Foundation` |
| `PagesProof` | the two pages, `FactoryUI` and `ChatUI` |
| `AgentStreamProof` | `AgentStream`, and that it implements `StreamContract` |
| `DocumentIngestionProof` | `DocumentIngestion`, and that it implements `IngestionContract` |
| `EvaluationProof` | the two programs of the evaluation, `GoldenDataset` and `RagEvaluation` |
| `AudioTranscriptionProof` | `AudioTranscription` |

`PagesProof` and `EvaluationProof` extend two modules each; their components share
nothing, and the names of `ChatUI` and `RagEvaluation` that both modules of a pair
would have are longer (`ChatInit`, `chatVars`, `EvaluationNext`).

The assumptions are those of the modules: at least one poll fits
into the deadline (`MaxPollsAssumption`; in `AudioTranscription` `BoundsAssumption`),
at least one step (`NAssumption`), the names of runs and old resources differ, and
those of submissions and loaders (`NamesAssumption`), a list of files is a list
(`PlansAssumption`) and the modes are modes (`ModesAssumption`), documents have names
and are finitely many (`DocumentsAssumption`), requests have agents
(`RequestsAssumption`), the locations are locations (`LocationsAssumption`), the inputs
of an evaluation are counts and sets of references (`InputsAssumption`), the bounds are
numbers (`PageAssumption`, `ChatAssumption`, `BoundsAssumption`). TLC evaluates all of
them. One pair of theorems has a hypothesis more, `OneAtATime`: `NewConversationsAreNew`
and `OneConversation` are about a chat page on which questions are typed and need no
token, which is what the run `chat_text` checks. Without it the first is false: that is
the finding of `chat_old_conversation`.

Some safety properties are proved and no longer part of a run, because a proof says
more than the run did: the type invariants;
`StepsInOrder`, `HealthFailureKeepsIdentifiers` and `StepInProgressFails` of
`LiveRun`; `SubmissionErrorStays` of `FactoryUI`; `FailuresAreReportedOnce` and
`FinalDataAsConfigured` of `AgentStream`.

Each argument is an inductive invariant `IInv` that contains the property, since
none of the properties is inductive as it stands:

- `LiveRun`: for every place of the thread, what the steps before it, the
  identifiers and the cloud look like there. "A success is real" needs to know at
  the end of the run everything that was established on the way.
- `RunSnapshot`: what a request has copied is tied to where the writer was: once
  it has read a final status, the steps are frozen, because the code assigns the
  status after the steps and reads it before them.
- `Foundation`: one clause per resource and run: at or after each place, what the
  run holds is readable, and active if the run made it; the cloud never undoes it.
- `FactoryUI`: every answer in flight was read from the run it names, an effect
  whose answers still count follows the run shown, and run numbers only grow.
- `AgentStream`: the place of the generator tells the last event sent, which
  events were sent, and which failures it can have met. The lemmas `Appended`,
  `SentAfter` and `StillUnderstood` say what sending one event changes.
- `DocumentIngestion`: one invariant per task (`TaskInv`): what it wrote, reported
  and found are exactly the documents before its position. Two facts carry it over
  the steps of the others: they change nothing of the task (`OthersAreSame`) and the
  bucket only grows (`BucketGrows`); with the second, what was looked for and not
  found was not there when the task began either.
- The summaries of the loaders (`LoadersAddUp`): what is counted as stored, skipped
  and failed are the documents before the position of the loader, each counted when
  the position passes it, so the counts add up to the position.
- `ChatUI` (`ChatInv`): a message streams only while its request is at work, the page
  is busy only while some request is, and the one it can abort is one of them and not
  aborted yet. Whenever it shows a recording, it holds a recorder that runs or is about to
  stop (`VoiceInv`), whichever of several recordings that is and whatever stops its
  tracks. For conversations (`ConversationInv`): with one question at a time a request at work is
  the one that a reset aborts, it was asked after the last reset, and if the page has a
  conversation it is the one of that request; what a request continues was made for one
  asked after the same reset.
- `GoldenDataset`: the records to be written are at every step of the merge those of
  the file, position by position, followed by new ones with keys of their own, and
  every example met so far has its place. The lemmas about `MergeRecord` say this
  of one example; the rest of the program changes neither the file nor the merge.
  The counts of its summary (`SummaryInv`) are cardinalities of sets that a step of
  the merge changes by one element: where names differ no key is met twice in a run,
  so a replacement hits a record of the file that was not replaced yet, and changes
  it, as every record of the file is older than the run. The limits (`LimitsInv`):
  the elements of a finite strict order that fewer than `k` others come before are at
  most `k` (`FirstOfOrder`: their ranks are an injection into `0 .. k - 1`), which
  bounds the documents and the pages that are selected (`BestPagesSelected`); a
  document is read once, its examples are made from its selected pages, and no page
  of it has two.
- `RagEvaluation` (`EvaluationInv`): the place of each reader in the stream, and what
  it has read, are tied to the agent's place and to what was sent (`ReadersKnow`),
  for frames with and without names: after each event of the contract the name that
  a reader infers is the one that was stripped (`NamesAreUnderstood`). A row repeats
  what became of its stream (`StreamsInv`, `RowInv`). The counts of the summary are those of disjoint
  sets whose union is all rows (`SummaryCounts`).
- `AudioTranscription`: for each place of a handler what it has staged, started and
  polled by then (`Working`), and for each status what the answer was made from
  (`Answered`). Other requests touch nothing of it, and a job that ended keeps its
  result, so what the last poll saw is still true when the answer is given. Each folder
  of the bucket holds the transcript of one request (`FoldersApart`), as a job is
  created with the folder of its own request and writes nowhere else, so a listing
  under that folder finds no other (`UnderOwnFolder`).

Refinements are proved for `LiveRun` against `RunContract`, for `AgentStream`
against `StreamContract` and for `DocumentIngestion` against `IngestionContract`:
initial states map to initial states, and every step to
a step or a stutter.

## 7. What is only checked, and what is not modelled

Only model-checked: liveness (`ThreadEnds`, `ShownRunGetsItsEnd`,
`StreamingModeEnds`, `RunEnds`, `EvaluationEnds`, `RequestsAreAnswered`), which is
beyond the prover. Every invariant and every action property of the passing runs is
a theorem too.

Not modelled: the text of command lines and Dockerfiles, rendering, logging and
tracing; the resolution of compartments and projects and the paging of listings;
validation of payloads; token acquisition; the answer in one piece
(`process_agent_request`); the health checks and runtime data of the pages; the
credential checks of the factory page; the status requests of ingestion and the client
that polls them; the script runner and the IDCS check, which are sequential; the
conversation of the command line client; references and usage, which are functions of
one response. What a model answers, which pages score best and whether a transcript
is good are any values: no property is about them. Two generators on one file at the same
time are not modelled: the file is read and replaced without a lock
(`generate_golden_dataset.py:441`), so one of them loses its records; nothing in the
repository runs them so.

Hazards without a property are listed with the reason in `PROJECT.json`: exceptions
that leave the thread of a run, an answer that ends the polling without its error, a
creation verified by name, a connector created twice, a lost reply to a submission, a
restart of the API that forgets its runs, an object replaced between look and upload, a
failed response that looks complete.
