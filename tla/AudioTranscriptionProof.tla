------------------------ MODULE AudioTranscriptionProof ------------------------
(***************************************************************************)
(* Proofs about AudioTranscription, for any requests, agents, bounds and   *)
(* shapes of output locations.  The invariant says for each place of a     *)
(* handler what it has done, and for each status what it rests on; a       *)
(* handler disturbs no other one, the bucket only grows, and a job that    *)
(* succeeded stays so.  A job writes to the folder of its request, so that *)
(* each folder holds the words of one request only.                        *)
(***************************************************************************)
EXTENDS AudioTranscription, TLAPS

(* What is true of a request that is under way. *)
Working(r) ==
  /\ pc[r] \in {"none", "queued"} => r \notin staged
  /\ pc[r] \in {"none", "queued", "upload", "create"} => job[r] = "none" /\ polls[r] = 0
  /\ pc[r] \notin {"stream", "ended"} => status[r] = 0
  /\ pc[r] \in {"create", "poll"} => r \in staged
  /\ pc[r] = "poll" /\ polls[r] > 0 => polled[r] = "running"
  /\ pc[r] \in {"task", "read", "settings"} => r \in staged /\ job[r] = "succeeded" /\ polled[r] = "succeeded"
  /\ pc[r] = "read" => location[r] \in Locations
  /\ pc[r] = "settings" /\ location[r] # "bare" => transcript[r] = r
  /\ job[r] # "none" => folder[r] = r

(* What is true of a request that has an answer. *)
Answered(r) ==
  /\ status[r] = 200 => r \in staged /\ job[r] = "succeeded" /\ polled[r] = "succeeded"
  /\ status[r] = 200 /\ location[r] # "bare" => transcript[r] = r
  /\ status[r] = 400 => r \notin staged /\ job[r] = "none" /\ pc[r] = "ended"
  /\ status[r] = 504 => polled[r] = "running"

(* Each folder of the bucket holds the transcript of its own request.      *)
FoldersApart == \A f \in Requests \cup {Nobody}, q \in Requests : <<f, q>> \in outputs => f = q

IInv == TypeOK /\ FoldersApart /\ \A r \in Requests : Working(r) /\ Answered(r)

USE DEF Places, Holding, Jobs, Statuses

-------------------------------------------------------------------------------
(* Types. *)

(* The initial state of the agents and of the bucket has its types.        *)
LEMMA InitTypes == Init => TypeOK
<1> SUFFICES ASSUME Init PROVE TypeOK
  OBVIOUS
<1>1. MaxPolls \in Nat /\ 0 \in 0 .. MaxPolls
  BY BoundsAssumption
<1>2. staged \subseteq Requests /\ outputs \subseteq (Requests \cup {Nobody}) \X Requests
  BY DEF Init
<1> QED
  BY <1>1, <1>2 DEF Init, TypeOK

(* An answer of a request keeps the types.                                 *)
LEMMA AnswerTypes ==
  ASSUME TypeOK, NEW r \in Requests, NEW code \in Statuses, Answer(r, code),
         staged' \subseteq Requests, outputs' = outputs, job' \in [Requests -> Jobs],
         folder' \in [Requests -> Requests \cup {Nobody}]
  PROVE  TypeOK'
<1>1. pc' \in [Requests -> Places] /\ status' \in [Requests -> Statuses]
  BY DEF Answer, Goto, TypeOK
<1> QED
  BY <1>1 DEF Answer, TypeOK

(* Each step of a handler keeps the types.                                 *)
LEMMA StepTypes ==
  ASSUME TypeOK, NEW r \in Requests, Step(r)
  PROVE  TypeOK'
<1> USE BoundsAssumption
<1>1. CASE Reject(r)
  <2>1. Answer(r, 400) /\ staged' = staged /\ folder' = folder /\ outputs' = outputs /\ job' = job
    BY <1>1 DEF Reject, service
  <2> QED
    BY <2>1, AnswerTypes DEF TypeOK
<1>2. CASE SettingsInvalid(r)
  <2>1. Answer(r, 500) /\ staged' = staged /\ folder' = folder /\ outputs' = outputs /\ job' = job
    BY <1>2 DEF SettingsInvalid, service
  <2> QED
    BY <2>1, AnswerTypes DEF TypeOK
<1>3. CASE ClientsFail(r)
  <2>1. Answer(r, 502) /\ staged' = staged /\ folder' = folder /\ outputs' = outputs /\ job' = job
    BY <1>3 DEF ClientsFail, service
  <2> QED
    BY <2>1, AnswerTypes DEF TypeOK
<1>4. CASE Accept(r)
  BY <1>4 DEF Accept, Goto, handler, service, TypeOK
<1>5. CASE Upload(r)
  BY <1>5 DEF Upload, Goto, handler, TypeOK
<1>6. CASE UploadFails(r)
  <2>1. Answer(r, 500) /\ staged' \subseteq Requests /\ folder' = folder /\ outputs' = outputs /\ job' = job
    BY <1>6 DEF UploadFails, TypeOK
  <2> QED
    BY <2>1, AnswerTypes DEF TypeOK
<1>7. CASE CreateJob(r)
  BY <1>7 DEF CreateJob, Goto, handler, TypeOK
<1>8. CASE CreateJobFails(r)
  <2>1. Answer(r, 502) /\ staged' = staged /\ outputs' = outputs /\ job' \in [Requests -> Jobs]
        /\ folder' \in [Requests -> Requests \cup {Nobody}]
    BY <1>8 DEF CreateJobFails, TypeOK
  <2> QED
    BY <2>1, AnswerTypes DEF TypeOK
<1>9. CASE Poll(r)
  BY <1>9 DEF Poll, service, TypeOK
<1>10. CASE PollSucceeded(r)
  BY <1>10 DEF PollSucceeded, Goto, service, TypeOK
<1>11. CASE PollFailed(r)
  <2>1. Answer(r, 502) /\ staged' = staged /\ folder' = folder /\ outputs' = outputs /\ job' = job
    BY <1>11 DEF PollFailed, service
  <2> QED
    BY <2>1, AnswerTypes DEF TypeOK
<1>12. CASE PollBreaks(r)
  <2>1. Answer(r, 500) /\ staged' = staged /\ folder' = folder /\ outputs' = outputs /\ job' = job
    BY <1>12 DEF PollBreaks, service
  <2> QED
    BY <2>1, AnswerTypes DEF TypeOK
<1>13. CASE TimesOut(r)
  <2>1. Answer(r, 504) /\ staged' = staged /\ folder' = folder /\ outputs' = outputs /\ job' = job
    BY <1>13 DEF TimesOut, service
  <2> QED
    BY <2>1, AnswerTypes DEF TypeOK
<1>14. CASE GetTask(r)
  BY <1>14 DEF GetTask, Goto, service, TypeOK
<1>15. CASE GetTaskFails(r)
  <2>1. PICK code \in {500, 502} : Answer(r, code)
    BY <1>15 DEF GetTaskFails
  <2>2. staged' = staged /\ folder' = folder /\ outputs' = outputs /\ job' = job
    BY <1>15 DEF GetTaskFails, service
  <2> QED
    BY <2>1, <2>2, AnswerTypes DEF TypeOK
<1>16. CASE Read(r)
  <2>1. PICK q \in Candidates(r) : transcript' = [transcript EXCEPT ![r] = q]
    BY <1>16 DEF Read
  <2>2. q \in Requests
    BY <2>1 DEF Candidates, Under
  <2> QED
    BY <1>16, <2>1, <2>2 DEF Read, Goto, service, TypeOK
<1>17. CASE ReadFails(r)
  <2>1. PICK code \in {500, 502} : Answer(r, code)
    BY <1>17 DEF ReadFails
  <2>2. staged' = staged /\ folder' = folder /\ outputs' = outputs /\ job' = job
    BY <1>17 DEF ReadFails, service
  <2> QED
    BY <2>1, <2>2, AnswerTypes DEF TypeOK
<1>18. CASE AgentSettingsInvalid(r)
  <2>1. Answer(r, 500) /\ staged' = staged /\ folder' = folder /\ outputs' = outputs /\ job' = job
    BY <1>18 DEF AgentSettingsInvalid, service
  <2> QED
    BY <2>1, AnswerTypes DEF TypeOK
<1>19. CASE StartStream(r)
  BY <1>19 DEF StartStream, Goto, service, TypeOK
<1>20. CASE Stream(r)
  BY <1>20 DEF Stream, Goto, handler, service, TypeOK
<1> QED
  BY <1>1, <1>2, <1>3, <1>4, <1>5, <1>6, <1>7, <1>8, <1>9, <1>10, <1>11, <1>12, <1>13, <1>14, <1>15,
     <1>16, <1>17, <1>18, <1>19, <1>20 DEF Step

-------------------------------------------------------------------------------
(* A step of one request and the others. *)

Same(q) ==
  /\ pc'[q] = pc[q] /\ status'[q] = status[q] /\ polls'[q] = polls[q] /\ polled'[q] = polled[q]
  /\ location'[q] = location[q] /\ transcript'[q] = transcript[q] /\ job'[q] = job[q]
  /\ folder'[q] = folder[q]
  /\ q \in staged' <=> q \in staged

(* What is true of a request stays true while nothing of it changes.       *)
LEMMA SameKeeps ==
  ASSUME NEW q \in Requests, Working(q), Answered(q), Same(q)
  PROVE  Working(q)' /\ Answered(q)'
BY DEF Working, Answered, Same

(* An answer and its request.                                              *)
LEMMA AnswerOthers ==
  ASSUME TypeOK, NEW r \in Requests, NEW q \in Requests, q # r, NEW code, Answer(r, code),
         job'[q] = job[q], folder'[q] = folder[q], q \in staged' <=> q \in staged
  PROVE  Same(q)
BY DEF Answer, Goto, TypeOK, Same

(* A handler changes nothing of the other requests.                        *)
LEMMA OthersAreSame ==
  ASSUME TypeOK, NEW r \in Requests, NEW q \in Requests, q # r, Step(r)
  PROVE  Same(q)
<1>1. CASE Reject(r) \/ SettingsInvalid(r) \/ ClientsFail(r) \/ AgentSettingsInvalid(r)
  <2>1. job' = job /\ staged' = staged /\ folder' = folder
    BY <1>1 DEF Reject, SettingsInvalid, ClientsFail, AgentSettingsInvalid, service
  <2>2. \E code \in Statuses : Answer(r, code)
    BY <1>1 DEF Reject, SettingsInvalid, ClientsFail, AgentSettingsInvalid
  <2> QED
    BY <2>1, <2>2, AnswerOthers
<1>2. CASE PollFailed(r) \/ PollBreaks(r) \/ TimesOut(r) \/ GetTaskFails(r) \/ ReadFails(r)
  <2>1. job' = job /\ staged' = staged /\ folder' = folder
    BY <1>2 DEF PollFailed, PollBreaks, TimesOut, GetTaskFails, ReadFails, service
  <2>2. \E code \in Statuses : Answer(r, code)
    BY <1>2 DEF PollFailed, PollBreaks, TimesOut, GetTaskFails, ReadFails
  <2> QED
    BY <2>1, <2>2, AnswerOthers
<1>3. CASE UploadFails(r)
  BY <1>3, AnswerOthers DEF UploadFails
<1>4. CASE CreateJobFails(r)
  <2>1. job'[q] = job[q] /\ folder'[q] = folder[q] /\ staged' = staged /\ Answer(r, 502)
    BY <1>4 DEF CreateJobFails, TypeOK
  <2> QED
    BY <2>1, AnswerOthers
<1>5. CASE Accept(r) \/ Upload(r) \/ CreateJob(r)
  BY <1>5 DEF Accept, Upload, CreateJob, Goto, handler, service, TypeOK, Same
<1>6. CASE Poll(r) \/ PollSucceeded(r) \/ GetTask(r)
  BY <1>6 DEF Poll, PollSucceeded, GetTask, Goto, service, TypeOK, Same
<1>7. CASE Read(r)
  BY <1>7 DEF Read, Goto, service, TypeOK, Same
<1>8. CASE StartStream(r) \/ Stream(r)
  BY <1>8 DEF StartStream, Stream, Goto, handler, service, TypeOK, Same
<1> QED
  BY <1>1, <1>2, <1>3, <1>4, <1>5, <1>6, <1>7, <1>8 DEF Step

(* Transcripts are written by OCI Speech alone.                            *)
LEMMA StepWritesNothing ==
  ASSUME NEW r \in Requests, Step(r)
  PROVE  outputs' = outputs
<1>1. CASE Reject(r) \/ SettingsInvalid(r) \/ ClientsFail(r) \/ Accept(r) \/ Upload(r) \/ UploadFails(r)
           \/ CreateJob(r) \/ CreateJobFails(r)
  BY <1>1 DEF Reject, SettingsInvalid, ClientsFail, Accept, Upload, UploadFails, CreateJob, CreateJobFails, service
<1>2. CASE Poll(r) \/ PollSucceeded(r) \/ PollFailed(r) \/ PollBreaks(r) \/ TimesOut(r) \/ GetTask(r)
           \/ GetTaskFails(r)
  BY <1>2 DEF Poll, PollSucceeded, PollFailed, PollBreaks, TimesOut, GetTask, GetTaskFails, service
<1>3. CASE Read(r) \/ ReadFails(r) \/ AgentSettingsInvalid(r) \/ StartStream(r) \/ Stream(r)
  BY <1>3 DEF Read, ReadFails, AgentSettingsInvalid, StartStream, Stream, service
<1> QED
  BY <1>1, <1>2, <1>3 DEF Step

-------------------------------------------------------------------------------
(* A step of a request and itself. *)

(* An answer of failure needs no more than its status says.                *)
LEMMA FailureFits ==
  ASSUME TypeOK, NEW r \in Requests, NEW code \in {500, 502}, Answer(r, code),
         job'[r] # "none" => folder'[r] = r
  PROVE  Working(r)' /\ Answered(r)'
BY DEF Answer, Goto, TypeOK, Working, Answered

(* The folder of a request holds its own words only.                       *)
LEMMA UnderOwnFolder ==
  ASSUME FoldersApart, NEW r \in Requests, NEW q \in Under(r)
  PROVE  q = r
<1>1. r # Nobody
  BY RequestsAssumption
<1>2. q \in Requests /\ \E g \in Requests \cup {Nobody} : <<g, q>> \in outputs /\ r \in {g, Nobody}
  BY DEF Under
<1> QED
  BY <1>1, <1>2 DEF FoldersApart

(* A task that names its output or its prefix gives the words of its own   *)
(* request.                                                                *)
LEMMA CandidatesAreOwn ==
  ASSUME FoldersApart, NEW r \in Requests, location[r] \in Locations, location[r] # "bare", folder[r] = r,
         NEW q \in Candidates(r)
  PROVE  q = r
<1>1. location[r] \in {"names", "prefix"}
  BY LocationsAssumption
<1>2. CASE location[r] = "names"
  BY <1>2 DEF Candidates
<1>3. CASE location[r] = "prefix"
  <2>1. q \in Under(r)
    BY <1>3 DEF Candidates
  <2> QED
    BY <2>1, UnderOwnFolder
<1> QED
  BY <1>1, <1>2, <1>3

(* Each step of a handler keeps what is true of its request.               *)
LEMMA OwnStep ==
  ASSUME TypeOK, FoldersApart, NEW r \in Requests, Working(r), Answered(r), Step(r)
  PROVE  Working(r)' /\ Answered(r)'
<1>1. CASE Reject(r)
  BY <1>1 DEF Reject, Answer, Goto, service, TypeOK, Working, Answered
<1>2. CASE SettingsInvalid(r) \/ ClientsFail(r) \/ AgentSettingsInvalid(r) \/ PollFailed(r) \/ PollBreaks(r)
  <2>1. folder' = folder /\ job' = job
    BY <1>2 DEF SettingsInvalid, ClientsFail, AgentSettingsInvalid, PollFailed, PollBreaks, service
  <2>2. job'[r] # "none" => folder'[r] = r
    BY <2>1 DEF Working
  <2> QED
    BY <1>2, <2>2, FailureFits DEF SettingsInvalid, ClientsFail, AgentSettingsInvalid, PollFailed, PollBreaks
<1>3. CASE UploadFails(r) \/ CreateJobFails(r) \/ GetTaskFails(r) \/ ReadFails(r)
  <2>1. job'[r] # "none" => folder'[r] = r
    BY <1>3 DEF UploadFails, CreateJobFails, GetTaskFails, ReadFails, service, TypeOK, Working
  <2> QED
    BY <1>3, <2>1, FailureFits DEF UploadFails, CreateJobFails, GetTaskFails, ReadFails
<1>4. CASE Accept(r) \/ Upload(r) \/ CreateJob(r)
  BY <1>4 DEF Accept, Upload, CreateJob, Goto, handler, service, TypeOK, Working, Answered
<1>5. CASE Poll(r) \/ PollSucceeded(r)
  BY <1>5 DEF Poll, PollSucceeded, Goto, service, TypeOK, Working, Answered
<1>6. CASE TimesOut(r)
  BY <1>6 DEF TimesOut, Answer, Goto, service, TypeOK, Working, Answered
<1>7. CASE GetTask(r)
  BY <1>7 DEF GetTask, Goto, service, TypeOK, Working, Answered
<1>8. CASE Read(r)
  <2>1. PICK q \in Candidates(r) : transcript' = [transcript EXCEPT ![r] = q]
    BY <1>8 DEF Read
  <2>4. location[r] \in Locations /\ folder[r] = r
    BY <1>8 DEF Read, Working
  <2>2. location[r] # "bare" => transcript'[r] = r
    BY <2>1, <2>4, CandidatesAreOwn DEF TypeOK
  <2>3. location' = location /\ folder' = folder /\ pc'[r] = "settings" /\ status'[r] = status[r] /\ polled'[r] = polled[r] /\ job'[r] = job[r]
        /\ staged' = staged /\ pc[r] = "read"
    BY <1>8 DEF Read, Goto, service, TypeOK
  <2> QED
    BY <2>2, <2>3 DEF Working, Answered
<1>9. CASE StartStream(r) \/ Stream(r)
  BY <1>9 DEF StartStream, Stream, Goto, handler, service, TypeOK, Working, Answered
<1> QED
  BY <1>1, <1>2, <1>3, <1>4, <1>5, <1>6, <1>7, <1>8, <1>9 DEF Step

(* A job that ends keeps what is true of all requests.                     *)
LEMMA JobEnds ==
  ASSUME IInv, NEW r \in Requests, JobSucceeds(r) \/ JobFails(r)
  PROVE  IInv'
<1>1. TypeOK'
  BY DEF IInv, JobSucceeds, JobFails, handler, TypeOK
<1>2. ASSUME NEW q \in Requests PROVE Working(q)' /\ Answered(q)'
  BY DEF IInv, JobSucceeds, JobFails, handler, TypeOK, Working, Answered
<1>3. FoldersApart'
  <2>1. CASE JobSucceeds(r)
    <3>1. job[r] # "none" /\ outputs' = outputs \cup {<<folder[r], r>>}
      BY <2>1 DEF JobSucceeds
    <3>2. folder[r] = r
      BY <3>1 DEF IInv, Working
    <3> QED
      BY <3>1, <3>2 DEF IInv, FoldersApart
  <2>2. CASE JobFails(r)
    BY <2>2 DEF JobFails, IInv, FoldersApart
  <2> QED
    BY <2>1, <2>2
<1> QED
  BY <1>1, <1>2, <1>3 DEF IInv

-------------------------------------------------------------------------------
(* The theorems. *)

(* The first state satisfies the invariant.                                *)
LEMMA InitInv == Init => IInv
<1> SUFFICES ASSUME Init PROVE IInv
  OBVIOUS
<1>1. ASSUME NEW r \in Requests PROVE Working(r) /\ Answered(r)
  <2>1. pc[r] = "none" /\ r \notin staged /\ job[r] = "none"
    BY DEF Init
  <2>2. status[r] = 0 /\ polls[r] = 0
    BY DEF Init
  <2> QED
    BY <2>1, <2>2 DEF Working, Answered
<1>2. FoldersApart
  BY DEF Init, FoldersApart
<1> QED
  BY <1>1, <1>2, InitTypes DEF IInv

(* Each step keeps the invariant.                                          *)
LEMMA StepInv == IInv /\ [Next]_vars => IInv'
<1> SUFFICES ASSUME IInv, [Next]_vars PROVE IInv'
  OBVIOUS
<1>1. CASE UNCHANGED vars
  BY <1>1 DEF vars, handler, service, IInv, TypeOK, FoldersApart, Working, Answered
<1>2. ASSUME NEW r \in Requests, Arrive(r) PROVE IInv'
  <2>1. TypeOK'
    BY <1>2 DEF IInv, Arrive, Goto, handler, service, TypeOK
  <2>2. ASSUME NEW q \in Requests PROVE Working(q)' /\ Answered(q)'
    BY <1>2 DEF IInv, Arrive, Goto, handler, service, TypeOK, Working, Answered
  <2>3. FoldersApart'
    BY <1>2 DEF IInv, Arrive, service, FoldersApart
  <2> QED
    BY <2>1, <2>2, <2>3 DEF IInv
<1>3. ASSUME NEW r \in Requests, Step(r) PROVE IInv'
  <2>1. TypeOK'
    BY <1>3, StepTypes DEF IInv
  <2>2. ASSUME NEW q \in Requests PROVE Working(q)' /\ Answered(q)'
    <3>1. CASE q = r
      BY <1>3, <3>1, OwnStep DEF IInv
    <3>2. CASE q # r
      BY <1>3, <3>2, OthersAreSame, SameKeeps DEF IInv
    <3> QED
      BY <3>1, <3>2
  <2>3. outputs' = outputs
    BY <1>3, StepWritesNothing
  <2>4. FoldersApart'
    BY <2>3 DEF IInv, FoldersApart
  <2> QED
    BY <2>1, <2>2, <2>4 DEF IInv
<1> QED
  BY <1>1, <1>2, <1>3, JobEnds DEF Next

(* The invariant holds in every behaviour of the agents.                   *)
THEOREM Invariance == Spec => []IInv
BY InitInv, StepInv, PTL DEF Spec

(* The state of the agents, of the bucket and of the jobs keeps its types. *)
THEOREM TypeInvariant == Spec => []TypeOK
<1>1. IInv => TypeOK
  BY DEF IInv
<1> QED
  BY <1>1, Invariance, PTL

(* Nobody's question is answered in the words of another user, for any     *)
(* number of requests and agents on one bucket and whatever jobs that were *)
(* given up write there later, unless its task has neither names nor a     *)
(* prefix (transcribe_audio, _read_transcript_payload).                    *)
THEOREM OwnTranscripts == Spec => []TranscriptIsOwn
<1>1. IInv => TranscriptIsOwn
  BY DEF IInv, Answered, TranscriptIsOwn
<1> QED
  BY <1>1, Invariance, PTL

(* A stream rests on a job that succeeded, a rejection leaves nothing, and *)
(* a timeout is a task no poll saw ended (transcribe_audio).               *)
THEOREM FittingAnswers == Spec => []AnswersFitTheJob
<1>1. ASSUME IInv, NEW r \in Requests
      PROVE  /\ status[r] = 200 => r \in staged /\ job[r] = "succeeded" /\ polled[r] = "succeeded"
             /\ status[r] = 400 => r \notin staged /\ job[r] = "none"
             /\ status[r] = 504 => polled[r] = "running"
  <2>1. status[r] \in Statuses
    BY <1>1 DEF IInv, TypeOK
  <2>2. Answered(r)
    BY <1>1 DEF IInv
  <2> QED
    BY <2>1, <2>2 DEF Answered
<1>2. IInv => AnswersFitTheJob
  BY <1>1 DEF AnswersFitTheJob
<1> QED
  BY <1>2, Invariance, PTL
===============================================================================
