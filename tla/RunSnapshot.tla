------------------------------ MODULE RunSnapshot ------------------------------
(***************************************************************************)
(* The run record while it is being read.  A status request runs in a      *)
(* thread of its own and copies the record field by field                  *)
(* (DeploymentRun.to_dict, FactoryStep.to_dict) without a lock, while the  *)
(* background thread assigns the same fields one by one (_set_step_status, *)
(* _mark_running_steps_failed, _mark_live_run_failed, the end of           *)
(* _execute_live_run).  One assignment, or one read, is one step here.     *)
(* LiveRun says which steps the writer reports; here they are N steps in   *)
(* order, any of which may fail and any of which may be blamed.            *)
(***************************************************************************)
EXTENDS Naturals

CONSTANTS
  N,         \* number of workflow steps
  Requests   \* the status requests, one thread each

ASSUME NAssumption == N \in Nat \ {0}

VARIABLES
  \* the record
  status, completed, outputs, error,
  stepStatus, stepEnded, stepError,
  \* the writer: program point, current step, blamed step, index of the sweep
  wpc, at, blamed, sweep,
  \* each request: program point, step being copied, and the fields read so far
  rpc, copying,
  gotStatus, gotCompleted, gotOutputs, gotError, gotStepStatus, gotStepEnded, gotStepError

recordVars == <<status, completed, outputs, error, stepStatus, stepEnded, stepError>>
writerVars == <<wpc, at, blamed, sweep>>
gotVars    == <<gotStatus, gotCompleted, gotOutputs, gotError,
                gotStepStatus, gotStepEnded, gotStepError>>
readerVars == <<rpc, copying, gotVars>>
vars       == <<recordVars, writerVars, readerVars>>

Step       == 1..N
RunStatus  == {"running", "succeeded", "failed"}
StepStatus == {"pending", "running", "succeeded", "failed"}
Terminal   == {"succeeded", "failed"}
Outputs    == {"initial", "final", "partial"}

WriterPoints == {"between", "working", "ending", "blamed", "blame_ended", "sweeping",
                 "swept", "sweep_ended", "fail_completed", "fail_outputs", "fail_error",
                 "success_status", "success_completed", "end"}
ReaderPoints == {"start", "completed", "step_status", "step_ended", "step_error",
                 "outputs", "error", "answered"}

TypeOK ==
  /\ status \in RunStatus /\ completed \in BOOLEAN
  /\ outputs \in Outputs /\ error \in BOOLEAN
  /\ stepStatus \in [Step -> StepStatus]
  /\ stepEnded \in [Step -> BOOLEAN] /\ stepError \in [Step -> BOOLEAN]
  /\ wpc \in WriterPoints /\ at \in 1..(N + 1) /\ blamed \in Step /\ sweep \in 1..(N + 1)
  /\ rpc \in [Requests -> ReaderPoints]
  /\ copying \in [Requests -> 1..(N + 1)]
  /\ gotStatus \in [Requests -> RunStatus] /\ gotCompleted \in [Requests -> BOOLEAN]
  /\ gotOutputs \in [Requests -> Outputs] /\ gotError \in [Requests -> BOOLEAN]
  /\ gotStepStatus \in [Requests -> [Step -> StepStatus]]
  /\ gotStepEnded \in [Requests -> [Step -> BOOLEAN]]
  /\ gotStepError \in [Requests -> [Step -> BOOLEAN]]

Blank == [s \in Step |-> FALSE]
Fresh == [s \in Step |-> "pending"]

(* The record as _create_live_run leaves it.  A field not read yet has its first value. *)
Init ==
  /\ status = "running" /\ completed = FALSE /\ outputs = "initial" /\ error = FALSE
  /\ stepStatus = Fresh /\ stepEnded = Blank /\ stepError = Blank
  /\ wpc = "between" /\ at = 1 /\ blamed = 1 /\ sweep = 1
  /\ rpc = [r \in Requests |-> "start"]
  /\ copying = [r \in Requests |-> 1]
  /\ gotStatus = [r \in Requests |-> "running"]
  /\ gotCompleted = [r \in Requests |-> FALSE]
  /\ gotOutputs = [r \in Requests |-> "initial"]
  /\ gotError = [r \in Requests |-> FALSE]
  /\ gotStepStatus = [r \in Requests |-> Fresh]
  /\ gotStepEnded = [r \in Requests |-> Blank]
  /\ gotStepError = [r \in Requests |-> Blank]

-------------------------------------------------------------------------------
(* The writer *)

StartStep ==
  /\ wpc = "between" /\ at <= N
  /\ stepStatus' = [stepStatus EXCEPT ![at] = "running"]
  /\ wpc' = "working"
  /\ UNCHANGED <<status, completed, outputs, error, stepEnded, stepError, at, blamed, sweep,
                 readerVars>>

StepSucceeds ==
  /\ wpc = "working"
  /\ stepStatus' = [stepStatus EXCEPT ![at] = "succeeded"]
  /\ wpc' = "ending"
  /\ UNCHANGED <<status, completed, outputs, error, stepEnded, stepError, at, blamed, sweep,
                 readerVars>>

EndStep ==
  /\ wpc = "ending"
  /\ stepEnded' = [stepEnded EXCEPT ![at] = TRUE]
  /\ wpc' = "between" /\ at' = at + 1
  /\ UNCHANGED <<status, completed, outputs, error, stepStatus, stepError, blamed, sweep,
                 readerVars>>

(* A readiness poll found the deployment not ready yet: the step is reported again. *)
RepeatStep ==
  /\ wpc = "between" /\ at > 1
  /\ stepStatus' = [stepStatus EXCEPT ![at - 1] = "running"]
  /\ wpc' = "working" /\ at' = at - 1
  /\ UNCHANGED <<status, completed, outputs, error, stepEnded, stepError, blamed, sweep,
                 readerVars>>

(* _mark_live_run_failed: _set_step_status of the blamed step ... *)
Blame(s) ==
  /\ wpc \in {"between", "working"}
  /\ wpc = "between" => at <= N
  /\ stepStatus' = [stepStatus EXCEPT ![s] = "failed"]
  /\ wpc' = "blamed" /\ blamed' = s
  /\ UNCHANGED <<status, completed, outputs, error, stepEnded, stepError, at, sweep, readerVars>>

BlameEnded ==
  /\ wpc = "blamed"
  /\ stepEnded' = [stepEnded EXCEPT ![blamed] = TRUE]
  /\ wpc' = "blame_ended"
  /\ UNCHANGED <<status, completed, outputs, error, stepStatus, stepError, at, blamed, sweep,
                 readerVars>>

(* Mutant of BlameError: the run's status is assigned before the sweep. *)
BlameErrorAndStatus ==
  /\ wpc = "blame_ended"
  /\ stepError' = [stepError EXCEPT ![blamed] = TRUE]
  /\ status' = "failed"
  /\ wpc' = "sweeping" /\ sweep' = 1
  /\ UNCHANGED <<completed, outputs, error, stepStatus, stepEnded, at, blamed, readerVars>>

BlameError ==
  /\ wpc = "blame_ended"
  /\ stepError' = [stepError EXCEPT ![blamed] = TRUE]
  /\ wpc' = "sweeping" /\ sweep' = 1
  /\ UNCHANGED <<status, completed, outputs, error, stepStatus, stepEnded, at, blamed, readerVars>>

(* ... then _mark_running_steps_failed, step by step ... *)
SweepPasses ==
  /\ wpc = "sweeping" /\ sweep <= N /\ stepStatus[sweep] # "running"
  /\ sweep' = sweep + 1
  /\ UNCHANGED <<recordVars, wpc, at, blamed, readerVars>>

SweepStatus ==
  /\ wpc = "sweeping" /\ sweep <= N /\ stepStatus[sweep] = "running"
  /\ stepStatus' = [stepStatus EXCEPT ![sweep] = "failed"]
  /\ wpc' = "swept"
  /\ UNCHANGED <<status, completed, outputs, error, stepEnded, stepError, at, blamed, sweep,
                 readerVars>>

SweepEnded ==
  /\ wpc = "swept"
  /\ stepEnded' = [stepEnded EXCEPT ![sweep] = TRUE]
  /\ wpc' = "sweep_ended"
  /\ UNCHANGED <<status, completed, outputs, error, stepStatus, stepError, at, blamed, sweep,
                 readerVars>>

SweepError ==
  /\ wpc = "sweep_ended"
  /\ stepError' = [stepError EXCEPT ![sweep] = TRUE]
  /\ wpc' = "sweeping" /\ sweep' = sweep + 1
  /\ UNCHANGED <<status, completed, outputs, error, stepStatus, stepEnded, at, blamed, readerVars>>

(* ... and the fields of the run: status, completed_at, outputs, error. *)
FailStatus ==
  /\ wpc = "sweeping" /\ sweep = N + 1
  /\ status' = "failed" /\ wpc' = "fail_completed"
  /\ UNCHANGED <<completed, outputs, error, stepStatus, stepEnded, stepError, at, blamed, sweep,
                 readerVars>>

FailCompleted ==
  /\ wpc = "fail_completed"
  /\ completed' = TRUE /\ wpc' = "fail_outputs"
  /\ UNCHANGED <<status, outputs, error, stepStatus, stepEnded, stepError, at, blamed, sweep,
                 readerVars>>

FailOutputs ==
  /\ wpc = "fail_outputs"
  /\ outputs' = "partial" /\ wpc' = "fail_error"
  /\ UNCHANGED <<status, completed, error, stepStatus, stepEnded, stepError, at, blamed, sweep,
                 readerVars>>

FailError ==
  /\ wpc = "fail_error"
  /\ error' = TRUE /\ wpc' = "end"
  /\ UNCHANGED <<status, completed, outputs, stepStatus, stepEnded, stepError, at, blamed, sweep,
                 readerVars>>

(* Mutant of SuccessOutputs: the status is assigned first. *)
SuccessStatusFirst ==
  /\ wpc = "between" /\ at = N + 1
  /\ status' = "succeeded" /\ wpc' = "success_status"
  /\ UNCHANGED <<completed, outputs, error, stepStatus, stepEnded, stepError, at, blamed, sweep,
                 readerVars>>

(* The end of _execute_live_run: outputs, status, completed_at. *)
SuccessOutputs ==
  /\ wpc = "between" /\ at = N + 1
  /\ outputs' = "final" /\ wpc' = "success_status"
  /\ UNCHANGED <<status, completed, error, stepStatus, stepEnded, stepError, at, blamed, sweep,
                 readerVars>>

SuccessStatus ==
  /\ wpc = "success_status"
  /\ status' = "succeeded" /\ wpc' = "success_completed"
  /\ UNCHANGED <<completed, outputs, error, stepStatus, stepEnded, stepError, at, blamed, sweep,
                 readerVars>>

SuccessCompleted ==
  /\ wpc = "success_completed"
  /\ completed' = TRUE /\ wpc' = "end"
  /\ UNCHANGED <<status, outputs, error, stepStatus, stepEnded, stepError, at, blamed, sweep,
                 readerVars>>

Writer ==
  \/ StartStep \/ StepSucceeds \/ EndStep \/ RepeatStep
  \/ \E s \in Step : Blame(s)
  \/ BlameEnded \/ BlameError
  \/ SweepPasses \/ SweepStatus \/ SweepEnded \/ SweepError
  \/ FailStatus \/ FailCompleted \/ FailOutputs \/ FailError
  \/ SuccessOutputs \/ SuccessStatus \/ SuccessCompleted

-------------------------------------------------------------------------------
(* A status request: to_dict reads the fields in the order of its dictionary. *)

ReadStatus(r) ==
  /\ rpc[r] = "start"
  /\ gotStatus' = [gotStatus EXCEPT ![r] = status]
  /\ rpc' = [rpc EXCEPT ![r] = "completed"]
  /\ UNCHANGED <<recordVars, writerVars, copying, gotCompleted, gotOutputs, gotError,
                 gotStepStatus, gotStepEnded, gotStepError>>

ReadCompleted(r) ==
  /\ rpc[r] = "completed"
  /\ gotCompleted' = [gotCompleted EXCEPT ![r] = completed]
  /\ rpc' = [rpc EXCEPT ![r] = "step_status"]
  /\ UNCHANGED <<recordVars, writerVars, copying, gotStatus, gotOutputs, gotError,
                 gotStepStatus, gotStepEnded, gotStepError>>

ReadStepStatus(r) ==
  /\ rpc[r] = "step_status" /\ copying[r] <= N
  /\ gotStepStatus' = [gotStepStatus EXCEPT ![r][copying[r]] = stepStatus[copying[r]]]
  /\ rpc' = [rpc EXCEPT ![r] = "step_ended"]
  /\ UNCHANGED <<recordVars, writerVars, copying, gotStatus, gotCompleted, gotOutputs,
                 gotError, gotStepEnded, gotStepError>>

ReadStepEnded(r) ==
  /\ rpc[r] = "step_ended"
  /\ gotStepEnded' = [gotStepEnded EXCEPT ![r][copying[r]] = stepEnded[copying[r]]]
  /\ rpc' = [rpc EXCEPT ![r] = "step_error"]
  /\ UNCHANGED <<recordVars, writerVars, copying, gotStatus, gotCompleted, gotOutputs,
                 gotError, gotStepStatus, gotStepError>>

ReadStepError(r) ==
  /\ rpc[r] = "step_error"
  /\ gotStepError' = [gotStepError EXCEPT ![r][copying[r]] = stepError[copying[r]]]
  /\ rpc' = [rpc EXCEPT ![r] = "step_status"]
  /\ copying' = [copying EXCEPT ![r] = copying[r] + 1]
  /\ UNCHANGED <<recordVars, writerVars, gotStatus, gotCompleted, gotOutputs,
                 gotError, gotStepStatus, gotStepEnded>>

ReadOutputs(r) ==
  /\ rpc[r] = "step_status" /\ copying[r] = N + 1
  /\ gotOutputs' = [gotOutputs EXCEPT ![r] = outputs]
  /\ rpc' = [rpc EXCEPT ![r] = "error"]
  /\ UNCHANGED <<recordVars, writerVars, copying, gotStatus, gotCompleted, gotError,
                 gotStepStatus, gotStepEnded, gotStepError>>

ReadError(r) ==
  /\ rpc[r] = "error"
  /\ gotError' = [gotError EXCEPT ![r] = error]
  /\ rpc' = [rpc EXCEPT ![r] = "answered"]
  /\ UNCHANGED <<recordVars, writerVars, copying, gotStatus, gotCompleted, gotOutputs,
                 gotStepStatus, gotStepEnded, gotStepError>>

Reader(r) ==
  \/ ReadStatus(r) \/ ReadCompleted(r)
  \/ ReadStepStatus(r) \/ ReadStepEnded(r) \/ ReadStepError(r)
  \/ ReadOutputs(r) \/ ReadError(r)

Next == Writer \/ \E r \in Requests : Reader(r)

Spec == Init /\ [][Next]_vars

-------------------------------------------------------------------------------
(* Properties *)

Answered(r) == rpc[r] = "answered"

(* A client stops polling when an answer is not "running", so that answer is the last word *)
(* on the steps: it must show them as they stay, although it was put together while the    *)
(* writer went on.                                                                         *)
TerminalAnswerIsExact ==
  \A r \in Requests : Answered(r) /\ gotStatus[r] \in Terminal =>
    /\ gotStatus[r] = status
    /\ gotStepStatus[r] = stepStatus
    /\ gotStepEnded[r] = stepEnded /\ gotStepError[r] = stepError

(* An answer that says "failed" shows no step at work, and for every failed step when and  *)
(* why; this is the order _mark_live_run_failed does its assignments in.  One that says    *)
(* "succeeded" carries the final outputs and only finished steps.                          *)
TerminalAnswerIsComplete ==
  \A r \in Requests :
    /\ Answered(r) /\ gotStatus[r] = "failed" =>
         /\ \A s \in Step : gotStepStatus[r][s] # "running"
         /\ \E s \in Step : gotStepStatus[r][s] = "failed"
         /\ \A s \in Step : gotStepStatus[r][s] = "failed" =>
                              gotStepEnded[r][s] /\ gotStepError[r][s]
    /\ Answered(r) /\ gotStatus[r] = "succeeded" =>
         /\ gotOutputs[r] = "final" /\ ~gotError[r]
         /\ \A s \in Step : gotStepStatus[r][s] = "succeeded" /\ gotStepEnded[r][s]
===============================================================================
