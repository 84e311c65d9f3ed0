--------------------------- MODULE AudioTranscription ---------------------------
(***************************************************************************)
(* Voice questions before their answer streams: POST /responses/audio of   *)
(* the agent (agent/main.py, create_audio_response) and the transcription  *)
(* by OCI Speech (agent/audio.py).  A handler has no await from its        *)
(* settings to its transcript, so it holds the event loop of its process,  *)
(* sleeps included: each agent transcribes one request at a time and sends *)
(* nothing else meanwhile.  Several agents share the staging bucket.       *)
(*                                                                         *)
(* OCI Speech and Object Storage are external: each call may fail, a job   *)
(* goes on whatever its request does, and may never end.                   *)
(***************************************************************************)
EXTENDS Naturals

CONSTANTS
  Requests, Agents,
  Nobody,     \* no request
  AgentOf,    \* the agent a request is sent to
  MaxPolls,   \* polls of a task before the deadline
  Locations   \* what a task may say of its output, see Candidates

ASSUME RequestsAssumption == AgentOf \in [Requests -> Agents] /\ Nobody \notin Requests
ASSUME BoundsAssumption == MaxPolls \in Nat \ {0}
ASSUME LocationsAssumption == Locations \subseteq {"names", "prefix", "bare"}

VARIABLES
  pc,          \* where the handler of a request is
  status,      \* the status of its answer, 0 before
  polls,       \* polls of its task
  polled,      \* history: what the last poll said of its task
  location,    \* the output location of its task, or "none"
  transcript,  \* the request whose words were read, or Nobody
  staged,      \* requests whose audio is in the bucket
  folder,      \* whose folder the job of a request writes to: the uuid of a
               \* request is the request itself, and Nobody stands for the
               \* prefix of the settings, under which all folders lie
  outputs,     \* transcripts in the bucket: the folder, and whose words they are
  job          \* the job of a request; a task that is not listed yet is "running"

handler == <<status, polls, polled, location, transcript>>
service == <<staged, folder, outputs, job>>
vars    == <<pc, handler, service>>

Holding == {"upload", "create", "poll", "task", "read", "settings"}
Places  == {"none", "queued", "stream", "ended"} \cup Holding
Jobs    == {"none", "running", "succeeded", "failed"}
Statuses == {0, 200, 400, 500, 502, 504}

Init ==
  /\ pc = [r \in Requests |-> "none"] /\ status = [r \in Requests |-> 0]
  /\ polls = [r \in Requests |-> 0]
  /\ polled = [r \in Requests |-> "none"] /\ location = [r \in Requests |-> "none"]
  /\ transcript = [r \in Requests |-> Nobody]
  /\ staged = {} /\ outputs = {} /\ folder = [r \in Requests |-> Nobody]
  /\ job = [r \in Requests |-> "none"]

(* The event loop of the agent of r is not held by another request. *)
LoopIsFree(r) == \A q \in Requests \ {r} : AgentOf[q] = AgentOf[r] => pc[q] \notin Holding

Goto(r, place) == pc' = [pc EXCEPT ![r] = place]

Answer(r, code) ==
  /\ Goto(r, "ended") /\ status' = [status EXCEPT ![r] = code]
  /\ UNCHANGED <<polls, polled, location, transcript>>

-------------------------------------------------------------------------------
(* The request: settings, validation and clients, before anything is sent. *)

Arrive(r) ==
  /\ pc[r] = "none" /\ Goto(r, "queued") /\ UNCHANGED <<handler, service>>

(* No file, the endpoint is disabled, or the form is invalid: 400 stands   *)
(* for 404 and 413, too.                                                   *)
Reject(r) ==
  /\ pc[r] = "queued" /\ LoopIsFree(r)
  /\ Answer(r, 400)
  /\ UNCHANGED service

SettingsInvalid(r) ==
  /\ pc[r] = "queued" /\ LoopIsFree(r)
  /\ Answer(r, 500) /\ UNCHANGED service

(* A mode of authentication that reaches no service, or one that fails. *)
ClientsFail(r) ==
  /\ pc[r] = "queued" /\ LoopIsFree(r)
  /\ Answer(r, 502) /\ UNCHANGED service

Accept(r) ==
  /\ pc[r] = "queued" /\ LoopIsFree(r)
  /\ Goto(r, "upload") /\ UNCHANGED <<handler, service>>

-------------------------------------------------------------------------------
(* transcribe_audio.  An error of the SDK is a RuntimeError only where the *)
(* code wraps it: elsewhere it leaves the handler for the middleware.      *)

Upload(r) ==
  /\ pc[r] = "upload" /\ Goto(r, "create")
  /\ staged' = staged \cup {r} /\ UNCHANGED <<handler, folder, outputs, job>>

(* The upload may have arrived. *)
UploadFails(r) ==
  /\ pc[r] = "upload" /\ Answer(r, 500)
  /\ staged' \in {staged, staged \cup {r}} /\ UNCHANGED <<folder, outputs, job>>

(* Defect: the output prefix lacks the uuid of the request. *)
CreateJobWithoutFolder(r) ==
  /\ pc[r] = "create" /\ Goto(r, "poll")
  /\ job' = [job EXCEPT ![r] = "running"] /\ folder' = [folder EXCEPT ![r] = Nobody]
  /\ UNCHANGED <<handler, staged, outputs>>

(* The output goes to the folder of the request under the output prefix.   *)
CreateJob(r) ==
  /\ pc[r] = "create" /\ Goto(r, "poll")
  /\ job' = [job EXCEPT ![r] = "running"] /\ folder' = [folder EXCEPT ![r] = r]
  /\ UNCHANGED <<handler, staged, outputs>>

(* The job may have been created: its answer was lost or has no id. *)
CreateJobFails(r) ==
  /\ pc[r] = "create" /\ Answer(r, 502)
  /\ \/ UNCHANGED <<folder, job>>
     \/ job' = [job EXCEPT ![r] = "running"] /\ folder' = [folder EXCEPT ![r] = r]
  /\ UNCHANGED <<staged, outputs>>

(* The task is not there yet or goes on: sleep. *)
Poll(r) ==
  /\ pc[r] = "poll" /\ polls[r] < MaxPolls /\ job[r] = "running"
  /\ polls' = [polls EXCEPT ![r] = @ + 1] /\ polled' = [polled EXCEPT ![r] = job[r]]
  /\ UNCHANGED pc /\ UNCHANGED <<status, location, transcript, service>>

PollSucceeded(r) ==
  /\ pc[r] = "poll" /\ polls[r] < MaxPolls /\ job[r] = "succeeded"
  /\ polls' = [polls EXCEPT ![r] = @ + 1] /\ polled' = [polled EXCEPT ![r] = job[r]]
  /\ Goto(r, "task") /\ UNCHANGED <<status, location, transcript, service>>

(* The task failed or was canceled. *)
PollFailed(r) ==
  /\ pc[r] = "poll" /\ polls[r] < MaxPolls /\ job[r] = "failed"
  /\ Answer(r, 502) /\ UNCHANGED service

PollBreaks(r) ==
  /\ pc[r] = "poll" /\ polls[r] < MaxPolls
  /\ Answer(r, 500) /\ UNCHANGED service

(* Defect: the deadline moves with each poll. *)
TimesOutNever(r) ==
  /\ pc[r] = "poll" /\ polls[r] > MaxPolls
  /\ Answer(r, 504) /\ UNCHANGED service

(* Defect: the deadline is tested after a poll and before its result. *)
TimesOutBlindly(r) ==
  /\ pc[r] \in {"poll", "task"} /\ polls[r] > 0
  /\ Answer(r, 504) /\ UNCHANGED service

(* The deadline is tested after each sleep, and passes at the bound at the *)
(* latest; before the first poll it cannot have passed.                    *)
TimesOut(r) ==
  /\ pc[r] = "poll" /\ polls[r] > 0
  /\ Answer(r, 504) /\ UNCHANGED service

GetTask(r) ==
  /\ pc[r] = "task" /\ \E l \in Locations : location' = [location EXCEPT ![r] = l]
  /\ Goto(r, "read") /\ UNCHANGED <<status, polls, polled, transcript, service>>

(* The call fails, or its task has no output location. *)
GetTaskFails(r) ==
  /\ pc[r] = "task" /\ \E code \in {500, 502} : Answer(r, code)
  /\ UNCHANGED service

-------------------------------------------------------------------------------
(* The transcript. *)

(* Whose transcripts a listing under a folder returns; all folders lie     *)
(* under the prefix of the settings.                                       *)
Under(f) == {q \in Requests : \E g \in Requests \cup {Nobody} :
                                 <<g, q>> \in outputs /\ f \in {g, Nobody}}

(* The words that may be read: a task that names objects names its own, of *)
(* which the first JSON one is read, or the first one; a task that names   *)
(* none has the prefix its job was given, or none either ("bare"), and the *)
(* first JSON object under the one or under that of the settings is read,  *)
(* in the order of names that uuids have.                                  *)
Candidates(r) ==
  IF location[r] = "names" THEN {r}
  ELSE IF location[r] = "prefix" THEN Under(folder[r])
  ELSE Under(Nobody)

Read(r) ==
  /\ pc[r] = "read"
  /\ \E q \in Candidates(r) : transcript' = [transcript EXCEPT ![r] = q]
  /\ Goto(r, "settings") /\ UNCHANGED <<status, polls, polled, location, service>>

(* A call fails, or the object is no JSON, which counts as a configuration *)
(* error; or the transcript is empty or missing.                           *)
ReadFails(r) ==
  /\ pc[r] = "read" /\ \E code \in {500, 502} : Answer(r, code)
  /\ UNCHANGED service

(* The request and the settings of the agent, after the transcription. *)
AgentSettingsInvalid(r) ==
  /\ pc[r] = "settings" /\ Answer(r, 500) /\ UNCHANGED service

StartStream(r) ==
  /\ pc[r] = "settings" /\ Goto(r, "stream")
  /\ status' = [status EXCEPT ![r] = 200]
  /\ UNCHANGED <<polls, polled, location, transcript, service>>

(* The stream of AgentStream, between whose events the loop is free. *)
Stream(r) ==
  /\ pc[r] = "stream" /\ LoopIsFree(r)
  /\ Goto(r, "ended") /\ UNCHANGED <<handler, service>>

-------------------------------------------------------------------------------
(* OCI Speech. *)

JobSucceeds(r) ==
  /\ job[r] = "running" /\ job' = [job EXCEPT ![r] = "succeeded"]
  /\ outputs' = outputs \cup {<<folder[r], r>>} /\ UNCHANGED <<pc, handler, staged, folder>>

JobFails(r) ==
  /\ job[r] = "running" /\ job' = [job EXCEPT ![r] = "failed"]
  /\ UNCHANGED <<pc, handler, staged, folder, outputs>>

-------------------------------------------------------------------------------
Step(r) ==
  \/ Reject(r) \/ SettingsInvalid(r) \/ ClientsFail(r) \/ Accept(r)
  \/ Upload(r) \/ UploadFails(r) \/ CreateJob(r) \/ CreateJobFails(r)
  \/ Poll(r) \/ PollSucceeded(r) \/ PollFailed(r) \/ PollBreaks(r) \/ TimesOut(r)
  \/ GetTask(r) \/ GetTaskFails(r) \/ Read(r) \/ ReadFails(r)
  \/ AgentSettingsInvalid(r) \/ StartStream(r) \/ Stream(r)

Next ==
  \E r \in Requests : Arrive(r) \/ Step(r) \/ JobSucceeds(r) \/ JobFails(r)

Spec     == Init /\ [][Next]_vars
FairSpec == Spec /\ \A r \in Requests : WF_vars(Step(r))

-------------------------------------------------------------------------------
(* Properties. *)

TypeOK ==
  /\ pc \in [Requests -> Places] /\ status \in [Requests -> Statuses]
  /\ polls \in [Requests -> 0 .. MaxPolls]
  /\ polled \in [Requests -> Jobs] /\ location \in [Requests -> {"none"} \cup Locations]
  /\ transcript \in [Requests -> Requests \cup {Nobody}]
  /\ staged \subseteq Requests /\ job \in [Requests -> Jobs]
  /\ folder \in [Requests -> Requests \cup {Nobody}]
  /\ outputs \subseteq (Requests \cup {Nobody}) \X Requests

(* The agent answers the words of the user who asked, whatever the jobs of *)
(* other requests and of other agents, those given up included, have left  *)
(* or still write to the bucket they share: the folder of a request keeps  *)
(* its transcript apart (transcribe_audio).  A task with neither names nor *)
(* a prefix is the exception: the first transcript of anyone is read       *)
(* (_read_transcript_payload).                                             *)
TranscriptIsOwn ==
  \A r \in Requests : status[r] = 200 /\ location[r] # "bare" => transcript[r] = r

(* What an answer says is what happened: a stream has a job that succeeded *)
(* on its audio, a request that was rejected left neither audio nor job    *)
(* (specs/0014:100), and a timeout is a task that no poll saw ended        *)
(* (_wait_for_transcription_output).                                       *)
AnswersFitTheJob ==
  \A r \in Requests :
    /\ status[r] = 200 => r \in staged /\ job[r] = "succeeded" /\ polled[r] = "succeeded"
    /\ status[r] = 400 => r \notin staged /\ job[r] = "none"
    /\ status[r] = 504 => polled[r] = "running"

(* Each request is answered, if jobs end or not: a transcription that      *)
(* holds the loop ends with its deadline, so those behind it get their     *)
(* turn (_wait_for_transcription_output).                                  *)
RequestsAreAnswered == \A r \in Requests : (pc[r] = "queued") ~> (pc[r] = "ended")
===============================================================================
