----------------------------- MODULE FactorySteps -----------------------------
(***************************************************************************)
(* The fifteen workflow steps of a deployment run, the statuses a step can *)
(* have, and the pure helpers of agent_factory_api/app.py that choose a    *)
(* step.  A step is the position `_build_steps` gives it, so that the      *)
(* order of the workflow is the order of the numbers.                      *)
(***************************************************************************)
EXTENDS Naturals

ValidateInput       == 1
ResolveCompartment  == 2
ResolveGenaiProject == 3
Bucket              == 4
VectorStore         == 5
DataSyncConnector   == 6
DockerBuild         == 7
Registry            == 8
RegistryLogin       == 9
DockerPush          == 10
RuntimeEnvironment  == 11
HostedApplication   == 12
HostedDeployment    == 13
DeploymentReadiness == 14
Health              == 15

StepId     == 1..15
Foundation == ResolveCompartment..DataSyncConnector
Executor   == DockerBuild..Health

(* The steps whose whole work is one subprocess: command in, exit code out. *)
CommandSteps == {DockerBuild, Registry, RegistryLogin, DockerPush}

StepStatus == {"pending", "running", "succeeded", "failed", "skipped"}
Completed  == {"succeeded", "skipped"}
Terminal   == {"succeeded", "failed"}

ConnectorModes == {"create", "reuse", "skip"}

(* _build_steps: every step pending, the connector skipped when the request says so. *)
BuildSteps(connectorMode) ==
  [s \in StepId |-> IF s = DataSyncConnector /\ connectorMode = "skip"
                    THEN "skipped" ELSE "pending"]

(* The words _failed_resource_step_id looks for; "registry" stands for "ocir" and "docker". *)
Keywords == {"compartment", "project", "bucket", "connector", "registry"}

(* _failed_resource_step_id: the step blamed for an error, from the words of its message. *)
FailedResourceStep(words) ==
  CASE "compartment" \in words -> ResolveCompartment
    [] "compartment" \notin words /\ "project" \in words -> ResolveGenaiProject
    [] words \cap {"compartment", "project"} = {} /\ "bucket" \in words -> Bucket
    [] words \cap {"compartment", "project", "bucket"} = {} /\ "connector" \in words
         -> DataSyncConnector
    [] words = {"registry"} -> RegistryLogin
    [] OTHER -> VectorStore

(* Mutant of FailSteps: without the sweep over the running steps. *)
FailBlamedOnly(steps, blamed) == [steps EXCEPT ![blamed] = "failed"]

(* _set_step_status, then _mark_running_steps_failed: the blamed step fails, and so does *)
(* every step that was still running.                                                    *)
FailSteps(steps, blamed) ==
  [s \in StepId |-> IF s = blamed \/ steps[s] = "running" THEN "failed" ELSE steps[s]]
===============================================================================
