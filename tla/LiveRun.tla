-------------------------------- MODULE LiveRun --------------------------------
(***************************************************************************)
(* One deployment run of the Agent Factory API: the POST handler creates   *)
(* it, a background thread executes it step by step against the cloud      *)
(* (_execute_live_run, provision_foundation_resources,                     *)
(* execute_live_deployment_commands), and the run record it updates is     *)
(* what every status request returns.  The thread is the only writer of    *)
(* the record, so `_mark_live_run_failed` and the final assignments are    *)
(* single actions here; RunSnapshot takes them apart for concurrent reads. *)
(*                                                                         *)
(* The cloud is external: the listing of hosted applications, and a hosted *)
(* deployment that becomes ACTIVE or FAILED at a time of its own.  Any     *)
(* answer of it may leave out the lifecycle state.                         *)
(***************************************************************************)
EXTENDS FactorySteps

CONSTANT MaxPolls   \* readiness polls that fit in the deployment wait timeout
ASSUME MaxPollsAssumption == MaxPolls \in Nat \ {0}

VARIABLES
  request,    \* the validated payload: [dry, connector, jwt]
  status,     \* run.status, "none" before the run exists
  completed,  \* run.completed_at is set
  steps,      \* step_id -> status
  error,      \* class of run.error
  outputs,    \* the keys of run.outputs that have a value
  produced,   \* the executor's local `outputs` dictionary
  cursor,     \* the step the thread is at; 16 after the last
  pc,         \* where in that step it is
  polls,      \* readiness polls made
  answer,     \* lifecycle state in the last readiness answer
  listed,     \* lifecycle state of the application in the listing
  hostedApp,  \* cloud: the application of the requested name
  deployment  \* cloud: the hosted deployment of this run

runVars   == <<status, completed, steps, error, outputs>>
localVars == <<produced, cursor, pc, polls, answer, listed>>
cloudVars == <<hostedApp, deployment>>
vars      == <<request, runVars, localVars, cloudVars>>

Requests == [dry : BOOLEAN, connector : ConnectorModes, jwt : BOOLEAN]

(* Where the thread can be.  "begin" is between steps; the others are inside `cursor`. *)
InStep  == {"call", "lookup", "await", "create", "extract", "inspect"}
Between == {"begin", "setup", "finish"}
Working == InStep \cup Between
Locations == Working \cup {"idle", "done", "dead"}

OutputKeys   == {"app", "deployment", "endpoint", "foundation"}
ErrorClasses == {"none", "provisioning", "missing_cli", "unresolved", "command",
                 "no_identifier", "not_ready"}
AppStates    == {"absent", "transitional", "ACTIVE"}
DeployStates == {"absent", "CREATING", "ACTIVE", "FAILED"}

(* What the cloud may tell of a resource: its state, or nothing that can be read as one; *)
(* "endpoint" is an answer without a state that holds an endpoint URL.                   *)
Listings == {"unknown"} \cup AppStates
Answers  == {"endpoint", "unknown"} \cup DeployStates

TypeOK ==
  /\ request \in Requests
  /\ status \in {"none", "running"} \cup Terminal
  /\ completed \in BOOLEAN
  /\ steps \in [StepId -> StepStatus]
  /\ error \in ErrorClasses
  /\ outputs \in SUBSET OutputKeys
  /\ produced \in SUBSET OutputKeys
  /\ cursor \in 1..16
  /\ pc \in Locations
  /\ polls \in 0..MaxPolls
  /\ answer \in {"none"} \cup Answers
  /\ listed \in {"none"} \cup Listings
  /\ hostedApp \in AppStates
  /\ deployment \in DeployStates

Init ==
  /\ request \in Requests
  /\ status = "none" /\ completed = FALSE
  /\ steps = BuildSteps(request.connector)
  /\ error = "none" /\ outputs = {} /\ produced = {}
  /\ cursor = 1 /\ pc = "idle"
  /\ polls = 0 /\ answer = "none" /\ listed = "none"
  /\ hostedApp \in AppStates /\ deployment = "absent"

Report(s, st) == steps' = [steps EXCEPT ![s] = st]
Goto(s, l)    == cursor' = s /\ pc' = l

-------------------------------------------------------------------------------
(* Submission *)

(* A dry run is finished inside the request: all steps get the same verdict at once. *)
DryRunSucceeds ==
  /\ pc = "idle" /\ request.dry
  /\ steps' = [s \in StepId |-> IF steps[s] = "skipped" THEN "skipped" ELSE "succeeded"]
  /\ status' = "succeeded" /\ completed' = TRUE /\ outputs' = {"foundation"}
  /\ Goto(16, "done")
  /\ UNCHANGED <<request, error, produced, polls, answer, listed, cloudVars>>

(* A preflight check, or the registry login, fails at step `at`: the record is built *)
(* anew and only the step guessed from the message is touched.                       *)
DryRunFails(at, words) ==
  /\ pc = "idle" /\ request.dry
  /\ at = DataSyncConnector => request.connector # "skip"
  /\ at = RegistryLogin => "registry" \in words
  /\ steps' = [steps EXCEPT ![FailedResourceStep(words)] = "failed"]
  /\ status' = "failed" /\ completed' = TRUE /\ error' = "provisioning"
  /\ Goto(at, "done")
  /\ UNCHANGED <<request, outputs, produced, polls, answer, listed, cloudVars>>

(* A live run is stored as running and its execution is left to a background task. *)
SubmitLive ==
  /\ pc = "idle" /\ ~request.dry
  /\ Report(ValidateInput, "succeeded")
  /\ status' = "running"
  /\ Goto(ResolveCompartment, "begin")
  /\ UNCHANGED <<request, completed, error, outputs, produced, polls, answer, listed, cloudVars>>

(* _mark_live_run_failed: `kept` are the outputs the error carries. *)
MarkFailed(blamed, class, kept) ==
  /\ steps' = FailSteps(steps, blamed)
  /\ status' = "failed" /\ completed' = TRUE /\ error' = class
  /\ outputs' = kept
  /\ pc' = "done"
  /\ UNCHANGED <<request, produced, cursor, polls, answer, listed, cloudVars>>

(* An exception no handler of the thread catches: the record stays as it is. *)
ThreadDies ==
  /\ pc' = "dead"
  /\ UNCHANGED <<request, runVars, produced, cursor, polls, answer, listed, cloudVars>>

-------------------------------------------------------------------------------
(* Foundation resources *)

BeginFoundation ==
  /\ pc = "begin" /\ cursor \in Foundation
  /\ Report(cursor, IF cursor = DataSyncConnector /\ request.connector = "skip"
                    THEN "skipped" ELSE "running")
  /\ Goto(cursor, "call")
  /\ UNCHANGED <<request, status, completed, error, outputs, produced, polls, answer,
                 listed, cloudVars>>

FinishFoundation ==
  /\ pc = "call" /\ cursor \in Foundation
  /\ Report(cursor, IF cursor = DataSyncConnector /\ request.connector = "skip"
                    THEN "skipped" ELSE "succeeded")
  /\ Goto(cursor + 1, IF cursor = DataSyncConnector THEN "setup" ELSE "begin")
  /\ UNCHANGED <<request, status, completed, error, outputs, produced, polls, answer,
                 listed, cloudVars>>

(* Every exception of the provisioning is caught; none of them names its step.  The GenAI *)
(* client is built between two steps, when no step is running.                            *)
FoundationFails(words) ==
  /\ \/ pc = "call" /\ cursor \in Foundation
        /\ ~(cursor = DataSyncConnector /\ request.connector = "skip")
     \/ pc = "begin" /\ cursor = ResolveGenaiProject
  /\ MarkFailed(FailedResourceStep(words), "provisioning", {})

-------------------------------------------------------------------------------
(* Live commands: what comes before the first one *)

(* build_resolved_identifiers keeps an identifier only if it has the prefix it expects and *)
(* puts a placeholder in its place otherwise; that of a skipped connector is "<skipped>".  *)
MayResolveIdentifiers == request.connector # "skip"

RequireExecutablesFails(blamed) ==
  /\ pc = "setup" /\ blamed \in {DockerBuild, HostedApplication}
  /\ MarkFailed(blamed, "missing_cli", {})

(* _ensure_live_identifiers_resolved: a placeholder is left, whichever it is. *)
IdentifiersUnresolved ==
  /\ pc = "setup"
  /\ MarkFailed(HostedApplication, "unresolved", {})

SetupDone ==
  /\ pc = "setup" /\ MayResolveIdentifiers
  /\ Goto(DockerBuild, "begin")
  /\ UNCHANGED <<request, runVars, produced, polls, answer, listed, cloudVars>>

(* The artifact directories cannot be made, or their files not be written. *)
SetupDies ==
  /\ pc = "setup" /\ MayResolveIdentifiers
  /\ ThreadDies

-------------------------------------------------------------------------------
(* Live commands: the steps *)

BeginStep ==
  /\ pc = "begin" /\ cursor \in Executor \ {RuntimeEnvironment}
  /\ Report(cursor, "running")
  /\ Goto(cursor, IF cursor = HostedApplication THEN "lookup" ELSE "call")
  /\ UNCHANGED <<request, status, completed, error, outputs, produced, polls, answer,
                 listed, cloudVars>>

(* Mutant of CommandSucceeds: the login is skipped, as if credentials were cached. *)
CommandSucceedsWithoutLogin ==
  /\ pc = "call" /\ cursor \in CommandSteps
  /\ Report(cursor, "succeeded")
  /\ Goto(IF cursor = Registry THEN DockerPush ELSE cursor + 1, "begin")
  /\ UNCHANGED <<request, status, completed, error, outputs, produced, polls, answer,
                 listed, cloudVars>>

(* The exit code is zero, or the registry answers that the repository already exists. *)
CommandSucceeds ==
  /\ pc = "call" /\ cursor \in CommandSteps
  /\ Report(cursor, "succeeded")
  /\ Goto(cursor + 1, "begin")
  /\ UNCHANGED <<request, status, completed, error, outputs, produced, polls, answer,
                 listed, cloudVars>>

(* Non-zero exit, one-hour timeout, or a command that cannot start. *)
CommandFails ==
  /\ \/ pc = "call" /\ cursor \in Executor \ {Health}
     \/ pc \in {"lookup", "await", "create"}
  /\ MarkFailed(cursor, "command", {})

(* Output that does not decode is not an OSError and leaves the thread. *)
CommandDies ==
  /\ \/ pc = "call" /\ cursor \in Executor /\ ~(cursor = Health /\ request.jwt)
     \/ pc \in {"lookup", "await", "create"}
  /\ ThreadDies

WriteRuntimeEnvironment ==
  /\ pc = "begin" /\ cursor = RuntimeEnvironment
  /\ Report(cursor, "succeeded")
  /\ Goto(cursor + 1, "begin")
  /\ UNCHANGED <<request, status, completed, error, outputs, produced, polls, answer,
                 listed, cloudVars>>

(* The listing tells the state of the application, or lists it without one. *)
Listing(told) ==
  /\ pc = "lookup"
  /\ told \in {hostedApp} \cup (IF hostedApp = "absent" THEN {} ELSE {"unknown"})
  /\ listed' = told

(* Mutant of LookupApplication: an application that is still in transition is reused. *)
LookupWithoutState(told) ==
  /\ Listing(told)
  /\ \/ /\ told # "absent"
        /\ Report(HostedApplication, "succeeded")
        /\ produced' = produced \cup {"app"}
        /\ Goto(HostedDeployment, "begin")
     \/ /\ told = "absent"
        /\ Goto(cursor, "create")
        /\ UNCHANGED <<steps, produced>>
  /\ UNCHANGED <<request, status, completed, error, outputs, polls, answer, cloudVars>>

(* _find_existing_hosted_application_id: only a state that was told and is not ACTIVE is  *)
(* waited for; an application listed without a state is reused at once.                   *)
LookupApplication(told) ==
  /\ Listing(told)
  /\ \/ /\ told \in {"ACTIVE", "unknown"}
        /\ Report(HostedApplication, "succeeded")
        /\ produced' = produced \cup {"app"}
        /\ Goto(HostedDeployment, "begin")
     \/ /\ told = "transitional"
        /\ Goto(cursor, "await")
        /\ UNCHANGED <<steps, produced>>
     \/ /\ told = "absent"
        /\ Goto(cursor, "create")
        /\ UNCHANGED <<steps, produced>>
  /\ UNCHANGED <<request, status, completed, error, outputs, polls, answer, cloudVars>>

(* _wait_for_hosted_application: the waiting get returns once the application is active. *)
AwaitApplication ==
  /\ pc = "await" /\ hostedApp = "ACTIVE"
  /\ Report(HostedApplication, "succeeded")
  /\ produced' = produced \cup {"app"}
  /\ Goto(HostedDeployment, "begin")
  /\ UNCHANGED <<request, status, completed, error, outputs, polls, answer, listed, cloudVars>>

(* The creating command succeeded; its step is reported succeeded before its output is read. *)
CreateReturns ==
  /\ \/ /\ pc = "create"
        /\ hostedApp' = "ACTIVE"
        /\ UNCHANGED deployment
     \/ /\ pc = "call" /\ cursor = HostedDeployment
        /\ deployment' = "CREATING"
        /\ UNCHANGED hostedApp
  /\ Report(cursor, "succeeded")
  /\ Goto(cursor, "extract")
  /\ UNCHANGED <<request, status, completed, error, outputs, produced, polls, answer, listed>>

ExtractIdentifier ==
  /\ pc = "extract"
  /\ produced' = produced \cup {IF cursor = HostedApplication THEN "app" ELSE "deployment"}
  /\ Goto(cursor + 1, "begin")
  /\ UNCHANGED <<request, runVars, polls, answer, listed, cloudVars>>

(* The output is not a JSON object, or holds no identifier. *)
ExtractFails ==
  /\ pc = "extract"
  /\ MarkFailed(cursor, "no_identifier", {})

(* The JSON has a "data" that is not an object. *)
ExtractDies ==
  /\ pc = "extract"
  /\ ThreadDies

(* Mutant of PollReturns: the deadline is set anew with every poll. *)
PollReturnsAnew(a) ==
  /\ pc = "call" /\ cursor = DeploymentReadiness
  /\ a \in {deployment, "unknown", "endpoint"}
  /\ Report(cursor, "succeeded")
  /\ answer' = a
  /\ Goto(cursor, "inspect")
  /\ UNCHANGED <<request, status, completed, error, outputs, produced, polls, listed, cloudVars>>

(* One poll of _wait_for_deployment_ready.  _run_step reports the step succeeded because *)
(* the command did; the state is looked at afterwards.  Whatever the deployment is at,   *)
(* the answer may hold no state, and then an endpoint or not.                            *)
PollReturns(a) ==
  /\ pc = "call" /\ cursor = DeploymentReadiness
  /\ a \in {deployment, "unknown", "endpoint"}
  /\ Report(cursor, "succeeded")
  /\ answer' = a
  /\ polls' = polls + 1
  /\ Goto(cursor, "inspect")
  /\ UNCHANGED <<request, status, completed, error, outputs, produced, listed, cloudVars>>

(* Mutant of DeploymentReady: a state that cannot be read counts as ready. *)
DeploymentReadyByDefault ==
  /\ pc = "inspect" /\ answer \in {"ACTIVE", "endpoint", "unknown"}
  /\ produced' = produced \cup {"endpoint"}
  /\ Goto(Health, "begin")
  /\ UNCHANGED <<request, runVars, polls, answer, listed, cloudVars>>

(* A ready state; an endpoint counts as ready only in an answer without a state. *)
DeploymentReady ==
  /\ pc = "inspect" /\ answer \in {"ACTIVE", "endpoint"}
  /\ produced' = produced \cup {"endpoint"}
  /\ Goto(Health, "begin")
  /\ UNCHANGED <<request, runVars, polls, answer, listed, cloudVars>>

(* A failed state, or the deadline, which the last of MaxPolls polls reaches for certain. *)
DeploymentNotReady ==
  /\ pc = "inspect" /\ answer \in {"FAILED", "CREATING", "unknown"}
  /\ MarkFailed(cursor, "not_ready", {})

PollAgain ==
  /\ pc = "inspect" /\ answer \in {"CREATING", "unknown"} /\ polls < MaxPolls
  /\ Report(cursor, "running")
  /\ Goto(cursor, "call")
  /\ UNCHANGED <<request, status, completed, error, outputs, produced, polls, answer,
                 listed, cloudVars>>

HealthSucceeds ==
  /\ pc = "call" /\ cursor = Health
  /\ Report(cursor, "succeeded")
  /\ Goto(16, "finish")
  /\ UNCHANGED <<request, status, completed, error, outputs, produced, polls, answer,
                 listed, cloudVars>>

(* Only this failure carries the executor's outputs. *)
HealthFails ==
  /\ pc = "call" /\ cursor = Health
  /\ MarkFailed(Health, "command", produced)

Finish ==
  /\ pc = "finish"
  /\ outputs' = produced \cup {"foundation"}
  /\ status' = "succeeded" /\ completed' = TRUE
  /\ pc' = "done"
  /\ UNCHANGED <<request, steps, error, produced, cursor, polls, answer, listed, cloudVars>>

-------------------------------------------------------------------------------
(* The cloud on its own *)

ApplicationActivates ==
  /\ hostedApp = "transitional" /\ hostedApp' = "ACTIVE"
  /\ UNCHANGED <<request, runVars, localVars, deployment>>

DeploymentSettles(s) ==
  /\ deployment = "CREATING" /\ s \in {"ACTIVE", "FAILED"} /\ deployment' = s
  /\ UNCHANGED <<request, runVars, localVars, hostedApp>>

Cloud == ApplicationActivates \/ \E s \in {"ACTIVE", "FAILED"} : DeploymentSettles(s)

Submit ==
  \/ DryRunSucceeds
  \/ \E at \in Foundation \cup {RegistryLogin}, words \in SUBSET Keywords :
       DryRunFails(at, words)
  \/ SubmitLive

Thread ==
  \/ BeginFoundation \/ FinishFoundation
  \/ \E words \in SUBSET Keywords : FoundationFails(words)
  \/ \E blamed \in {DockerBuild, HostedApplication} : RequireExecutablesFails(blamed)
  \/ IdentifiersUnresolved \/ SetupDone \/ SetupDies
  \/ BeginStep \/ CommandSucceeds \/ CommandFails \/ CommandDies
  \/ WriteRuntimeEnvironment
  \/ \E told \in Listings : LookupApplication(told)
  \/ AwaitApplication
  \/ CreateReturns \/ ExtractIdentifier \/ ExtractFails \/ ExtractDies
  \/ \E a \in Answers : PollReturns(a)
  \/ DeploymentReady \/ DeploymentNotReady \/ PollAgain
  \/ HealthSucceeds \/ HealthFails
  \/ Finish

Next == Submit \/ Thread \/ Cloud

Spec == Init /\ [][Next]_vars

(* The thread pool runs the background task; nothing is assumed of the cloud. *)
FairSpec == Spec /\ WF_vars(Thread)

-------------------------------------------------------------------------------
(* Properties *)

(* A run that ended shows no step at work (0010-agent-factory.md, "no step may remain in  *)
(* running"): the blamed step need not be the running one, so this rests on the sweep     *)
(* that follows the blame.                                                                *)
EndedRunIsSettled ==
  status \in Terminal => completed /\ \A s \in StepId : steps[s] # "running"

(* Steps are worked on in workflow order: what precedes a running step is complete and    *)
(* nothing after it was touched.                                                          *)
StepsInOrder ==
  \A s \in StepId : steps[s] = "running" =>
    /\ \A t \in 1..(s - 1) : steps[t] \in Completed
    /\ \A t \in (s + 1)..15 : steps[t] \in {"pending", "skipped"}

(* A live run reports success only with every step done, every identifier delivered, and  *)
(* against no state the cloud told: the deployment is active, or the last answer about it *)
(* had an endpoint and no state; the application is active, or was listed without a state *)
(* (executor.py:512 and 626).                                                             *)
SuccessIsReal ==
  status = "succeeded" /\ ~request.dry =>
    /\ deployment = "ACTIVE" \/ answer = "endpoint"
    /\ hostedApp = "ACTIVE" \/ listed = "unknown"
    /\ outputs = OutputKeys
    /\ \A s \in StepId : steps[s] \in Completed

(* A hosted deployment is created only for an image that was pushed and an application    *)
(* whose identifier the run holds, whatever happened on the way there; the application is *)
(* active by then, unless it was listed without a state and reused as it was.             *)
DeploymentRestsOnImageAndApplication ==
  deployment # "absent" =>
    /\ steps[DockerPush] = "succeeded" /\ steps[RuntimeEnvironment] = "succeeded"
    /\ hostedApp = "ACTIVE" \/ listed = "unknown"
    /\ "app" \in produced

(* A run that failed in its health check still tells what it deployed.                    *)
HealthFailureKeepsIdentifiers ==
  status = "failed" /\ steps[Health] = "failed" => {"app", "deployment", "endpoint"} \subseteq outputs

(* The work in progress when a run fails is what is shown as failed, although the         *)
(* provisioning errors do not say which step they belong to.                              *)
StepInProgressFails ==
  [][status = "running" /\ status' = "failed" /\ pc \in InStep => steps'[cursor] = "failed"]_vars

(* The thread always comes to an end: polling is bounded even if the deployment never     *)
(* settles.                                                                               *)
ThreadEnds == status = "running" ~> pc \in {"done", "dead"}

(* The run implements RunContract: the step in progress is the thread's, not the record's.*)
Contract == INSTANCE RunContract WITH
              N        <- 15,
              active   <- IF pc \in InStep THEN {cursor} ELSE {},
              finished <- IF pc = "idle" THEN 0 ELSE cursor - 1
ImplementsContract == Contract!Spec

===============================================================================
