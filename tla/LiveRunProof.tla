----------------------------- MODULE LiveRunProof -----------------------------
(***************************************************************************)
(* Proofs for LiveRun, for every readiness deadline.  The invariant ties   *)
(* the record to the place the thread is at: what is before the cursor is  *)
(* done, what is behind it is as it was built, and the identifiers and     *)
(* cloud resources are those of the steps passed.                          *)
(***************************************************************************)
EXTENDS LiveRun, TLAPS

SkipsConnector(s) == s = DataSyncConnector /\ request.connector = "skip"
Done(s)      == IF SkipsConnector(s) THEN "skipped" ELSE "succeeded"
Untouched(s) == IF SkipsConnector(s) THEN "skipped" ELSE "pending"

(* The places inside the steps. *)
PlaceInv ==
  /\ pc = "idle" <=> status = "none"
  /\ pc = "idle" => cursor = 1
  /\ pc = "done" <=> status \in Terminal
  /\ pc \in {"idle", "done"} \/ ~request.dry
  /\ pc = "begin" => cursor \in 2..15
  /\ pc = "setup" => cursor = DockerBuild
  /\ pc = "call" => cursor \in Foundation \cup CommandSteps
                              \cup {HostedDeployment, DeploymentReadiness, Health}
  /\ pc \in {"lookup", "await", "create"} => cursor = HostedApplication
  /\ pc = "extract" => cursor \in {HostedApplication, HostedDeployment}
  /\ pc = "inspect" => cursor = DeploymentReadiness
  /\ pc = "finish" => cursor = 16
  /\ cursor < DeploymentReadiness => polls = 0
  /\ cursor = DeploymentReadiness /\ pc = "begin" => polls = 0
  /\ cursor = DeploymentReadiness /\ pc = "call" => polls < MaxPolls

(* The steps of a run that has not ended. *)
StepsInv ==
  /\ status = "none" => steps = BuildSteps(request.connector)
  /\ status = "running" =>
       /\ \A s \in StepId : s < cursor => steps[s] = Done(s)
       /\ \A s \in StepId : s > cursor => steps[s] = Untouched(s)
       /\ pc \in {"begin", "setup"} => steps[cursor] = Untouched(cursor)
       /\ pc \in {"call", "lookup", "await", "create"} =>
            steps[cursor] = IF SkipsConnector(cursor) THEN "skipped" ELSE "running"
       /\ pc \in {"extract", "inspect"} => steps[cursor] = "succeeded"

(* What the run made in the cloud, and what it knows of it. *)
CloudInv ==
  /\ answer = "ACTIVE" => deployment = "ACTIVE"
  /\ deployment # "absent" => ~request.dry /\ cursor >= HostedDeployment
  /\ pc \in Working =>
       /\ deployment = "absent" <=>
            \/ cursor < HostedDeployment
            \/ cursor = HostedDeployment /\ pc # "extract"
       /\ \/ cursor < HostedApplication
          \/ cursor = HostedApplication /\ pc # "extract"
          \/ hostedApp = "ACTIVE" \/ listed = "unknown"
       /\ cursor > HostedApplication => "app" \in produced
       /\ cursor > HostedDeployment => "deployment" \in produced
       /\ cursor > DeploymentReadiness => "endpoint" \in produced
       /\ cursor > DeploymentReadiness => deployment = "ACTIVE" \/ answer = "endpoint"

IInv ==
  /\ TypeOK /\ PlaceInv /\ StepsInv /\ CloudInv
  /\ EndedRunIsSettled
  /\ SuccessIsReal
  /\ DeploymentRestsOnImageAndApplication
  /\ HealthFailureKeepsIdentifiers

-------------------------------------------------------------------------------
(* The steps are numbers. *)
LEMMA StepNumbers ==
  /\ ValidateInput = 1 /\ ResolveCompartment = 2 /\ ResolveGenaiProject = 3
  /\ Bucket = 4 /\ VectorStore = 5 /\ DataSyncConnector = 6
  /\ DockerBuild = 7 /\ Registry = 8 /\ RegistryLogin = 9 /\ DockerPush = 10
  /\ RuntimeEnvironment = 11 /\ HostedApplication = 12 /\ HostedDeployment = 13
  /\ DeploymentReadiness = 14 /\ Health = 15
  /\ StepId = 1..15 /\ Foundation = 2..6 /\ Executor = 7..15
  /\ CommandSteps = {7, 8, 9, 10}
BY DEF ValidateInput, ResolveCompartment, ResolveGenaiProject, Bucket, VectorStore,
       DataSyncConnector, DockerBuild, Registry, RegistryLogin, DockerPush,
       RuntimeEnvironment, HostedApplication, HostedDeployment, DeploymentReadiness,
       Health, StepId, Foundation, Executor, CommandSteps

(* The step guessed from an error message is never one after the registry login. *)
LEMMA BlamedIsStep ==
  ASSUME NEW words
  PROVE  FailedResourceStep(words) \in 2..9
BY StepNumbers DEF FailedResourceStep

(* Every step keeps the types and the places. *)
LEMMA TypeStep ==
  ASSUME TypeOK, PlaceInv, [Next]_vars
  PROVE  (TypeOK /\ PlaceInv)'
<1> USE MaxPollsAssumption, StepNumbers DEF TypeOK, PlaceInv, Requests, StepStatus, Terminal, ConnectorModes, InStep, Between, Working,
       Locations, OutputKeys, ErrorClasses, AppStates, DeployStates, Listings, Answers,
       Report, Goto, MarkFailed, FailSteps, ThreadDies, runVars, localVars, cloudVars
<1>1. CASE DryRunSucceeds
  BY <1>1 DEF DryRunSucceeds
<1>2. ASSUME NEW at \in Foundation \cup {RegistryLogin}, NEW words \in SUBSET Keywords, DryRunFails(at, words)
      PROVE  (TypeOK /\ PlaceInv)'
  BY <1>2, BlamedIsStep DEF DryRunFails
<1>3. CASE SubmitLive
  BY <1>3 DEF SubmitLive
<1>4. CASE BeginFoundation
  BY <1>4 DEF BeginFoundation
<1>5. CASE FinishFoundation
  BY <1>5 DEF FinishFoundation
<1>6. ASSUME NEW words \in SUBSET Keywords, FoundationFails(words)
      PROVE  (TypeOK /\ PlaceInv)'
  BY <1>6, BlamedIsStep DEF FoundationFails
<1>7. ASSUME NEW blamed \in {DockerBuild, HostedApplication}, RequireExecutablesFails(blamed)
      PROVE  (TypeOK /\ PlaceInv)'
  BY <1>7 DEF RequireExecutablesFails
<1>8. CASE IdentifiersUnresolved
  BY <1>8 DEF IdentifiersUnresolved
<1>9. CASE SetupDone
  BY <1>9 DEF SetupDone
<1>10. CASE SetupDies
  BY <1>10 DEF SetupDies
<1>11. CASE BeginStep
  BY <1>11 DEF BeginStep
<1>12. CASE CommandSucceeds
  BY <1>12 DEF CommandSucceeds
<1>13. CASE CommandFails
  BY <1>13 DEF CommandFails
<1>14. CASE CommandDies
  BY <1>14 DEF CommandDies
<1>15. CASE WriteRuntimeEnvironment
  BY <1>15 DEF WriteRuntimeEnvironment
<1>16. ASSUME NEW told \in Listings, LookupApplication(told)
      PROVE  (TypeOK /\ PlaceInv)'
  <2>1. cursor = HostedApplication /\ polls = 0 /\ status = "running"
    BY <1>16 DEF LookupApplication, Listing
  <2>2. \/ cursor' = HostedDeployment /\ pc' = "begin"
        \/ cursor' = HostedApplication /\ pc' \in {"await", "create"}
    BY <1>16, <2>1 DEF LookupApplication, Listing
  <2>3. steps' \in [StepId -> StepStatus] /\ produced' \in SUBSET OutputKeys
    BY <1>16, <2>1 DEF LookupApplication, Listing
  <2>4. UNCHANGED <<request, status, completed, error, outputs, polls, answer, cloudVars>>
    BY <1>16 DEF LookupApplication, Listing
  <2>5. listed' \in {"none"} \cup Listings
    BY <1>16 DEF LookupApplication, Listing
  <2> QED
    BY <2>1, <2>2, <2>3, <2>4, <2>5
<1>17. CASE AwaitApplication
  BY <1>17 DEF AwaitApplication
<1>18. CASE CreateReturns
  BY <1>18 DEF CreateReturns
<1>19. CASE ExtractIdentifier
  BY <1>19 DEF ExtractIdentifier
<1>20. CASE ExtractFails
  BY <1>20 DEF ExtractFails
<1>21. CASE ExtractDies
  BY <1>21 DEF ExtractDies
<1>22. ASSUME NEW a \in Answers, PollReturns(a)
      PROVE  (TypeOK /\ PlaceInv)'
  BY <1>22 DEF PollReturns
<1>23. CASE DeploymentReady
  BY <1>23 DEF DeploymentReady
<1>24. CASE DeploymentNotReady
  BY <1>24 DEF DeploymentNotReady
<1>25. CASE PollAgain
  BY <1>25 DEF PollAgain
<1>26. CASE HealthSucceeds
  BY <1>26 DEF HealthSucceeds
<1>27. CASE HealthFails
  BY <1>27 DEF HealthFails
<1>28. CASE Finish
  BY <1>28 DEF Finish
<1>29. CASE ApplicationActivates
  BY <1>29 DEF ApplicationActivates
<1>30. ASSUME NEW s \in {"ACTIVE", "FAILED"}, DeploymentSettles(s)
      PROVE  (TypeOK /\ PlaceInv)'
  BY <1>30 DEF DeploymentSettles
<1>31. CASE UNCHANGED vars
  BY <1>31 DEF vars
<1> HIDE DEF TypeOK, PlaceInv, Requests, StepStatus, Terminal, ConnectorModes, InStep, Between, Working,
       Locations, OutputKeys, ErrorClasses, AppStates, DeployStates, Listings, Answers,
       Report, Goto, MarkFailed, FailSteps, ThreadDies, runVars, localVars, cloudVars
<1> QED
  BY <1>1, <1>2, <1>3, <1>4, <1>5, <1>6, <1>7, <1>8, <1>9, <1>10, <1>11, <1>12,
     <1>13, <1>14, <1>15, <1>16, <1>17, <1>18, <1>19, <1>20, <1>21, <1>22, <1>23, <1>24,
     <1>25, <1>26, <1>27, <1>28, <1>29, <1>30, <1>31
     DEF Next, Submit, Thread, Cloud

(* Every step keeps what the record shows of the steps. *)
LEMMA RecordStep ==
  ASSUME TypeOK, PlaceInv, StepsInv, [Next]_vars
  PROVE  StepsInv'
<1> USE MaxPollsAssumption, StepNumbers DEF TypeOK, PlaceInv, StepsInv, StepStatus, Terminal, SkipsConnector, Done, Untouched,
       BuildSteps, Report, Goto, MarkFailed, FailSteps, ThreadDies, runVars, localVars, cloudVars
<1>1. CASE DryRunSucceeds
  BY <1>1 DEF DryRunSucceeds
<1>2. ASSUME NEW at \in Foundation \cup {RegistryLogin}, NEW words \in SUBSET Keywords, DryRunFails(at, words)
      PROVE  StepsInv'
  BY <1>2, BlamedIsStep DEF DryRunFails
<1>3. CASE SubmitLive
  BY <1>3 DEF SubmitLive
<1>4. CASE BeginFoundation
  BY <1>4 DEF BeginFoundation
<1>5. CASE FinishFoundation
  BY <1>5 DEF FinishFoundation
<1>6. ASSUME NEW words \in SUBSET Keywords, FoundationFails(words)
      PROVE  StepsInv'
  BY <1>6, BlamedIsStep DEF FoundationFails
<1>7. ASSUME NEW blamed \in {DockerBuild, HostedApplication}, RequireExecutablesFails(blamed)
      PROVE  StepsInv'
  BY <1>7 DEF RequireExecutablesFails
<1>8. CASE IdentifiersUnresolved
  BY <1>8 DEF IdentifiersUnresolved
<1>9. CASE SetupDone
  BY <1>9 DEF SetupDone
<1>10. CASE SetupDies
  BY <1>10 DEF SetupDies
<1>11. CASE BeginStep
  BY <1>11 DEF BeginStep
<1>12. CASE CommandSucceeds
  BY <1>12 DEF CommandSucceeds
<1>13. CASE CommandFails
  BY <1>13 DEF CommandFails
<1>14. CASE CommandDies
  BY <1>14 DEF CommandDies
<1>15. CASE WriteRuntimeEnvironment
  BY <1>15 DEF WriteRuntimeEnvironment
<1>16. ASSUME NEW told \in Listings, LookupApplication(told)
      PROVE  StepsInv'
  BY <1>16 DEF LookupApplication, Listing
<1>17. CASE AwaitApplication
  BY <1>17 DEF AwaitApplication
<1>18. CASE CreateReturns
  BY <1>18 DEF CreateReturns
<1>19. CASE ExtractIdentifier
  BY <1>19 DEF ExtractIdentifier
<1>20. CASE ExtractFails
  BY <1>20 DEF ExtractFails
<1>21. CASE ExtractDies
  BY <1>21 DEF ExtractDies
<1>22. ASSUME NEW a \in Answers, PollReturns(a)
      PROVE  StepsInv'
  BY <1>22 DEF PollReturns
<1>23. CASE DeploymentReady
  BY <1>23 DEF DeploymentReady
<1>24. CASE DeploymentNotReady
  BY <1>24 DEF DeploymentNotReady
<1>25. CASE PollAgain
  BY <1>25 DEF PollAgain
<1>26. CASE HealthSucceeds
  BY <1>26 DEF HealthSucceeds
<1>27. CASE HealthFails
  BY <1>27 DEF HealthFails
<1>28. CASE Finish
  BY <1>28 DEF Finish
<1>29. CASE ApplicationActivates
  BY <1>29 DEF ApplicationActivates
<1>30. ASSUME NEW s \in {"ACTIVE", "FAILED"}, DeploymentSettles(s)
      PROVE  StepsInv'
  BY <1>30 DEF DeploymentSettles
<1>31. CASE UNCHANGED vars
  BY <1>31 DEF vars
<1> HIDE DEF TypeOK, PlaceInv, StepsInv, StepStatus, Terminal, SkipsConnector, Done, Untouched,
       BuildSteps, Report, Goto, MarkFailed, FailSteps, ThreadDies, runVars, localVars, cloudVars
<1> QED
  BY <1>1, <1>2, <1>3, <1>4, <1>5, <1>6, <1>7, <1>8, <1>9, <1>10, <1>11, <1>12,
     <1>13, <1>14, <1>15, <1>16, <1>17, <1>18, <1>19, <1>20, <1>21, <1>22, <1>23, <1>24,
     <1>25, <1>26, <1>27, <1>28, <1>29, <1>30, <1>31
     DEF Next, Submit, Thread, Cloud

(* Every step keeps what the run knows of the cloud. *)
LEMMA CloudStep ==
  ASSUME TypeOK, PlaceInv, CloudInv, [Next]_vars
  PROVE  CloudInv'
<1> USE MaxPollsAssumption, StepNumbers DEF TypeOK, PlaceInv, CloudInv, InStep, Between, Working, AppStates, DeployStates, Listings, Answers,
       Report, Goto, MarkFailed, FailSteps, ThreadDies, runVars, localVars, cloudVars
<1>1. CASE DryRunSucceeds
  BY <1>1 DEF DryRunSucceeds
<1>2. ASSUME NEW at \in Foundation \cup {RegistryLogin}, NEW words \in SUBSET Keywords, DryRunFails(at, words)
      PROVE  CloudInv'
  BY <1>2, BlamedIsStep DEF DryRunFails
<1>3. CASE SubmitLive
  BY <1>3 DEF SubmitLive
<1>4. CASE BeginFoundation
  BY <1>4 DEF BeginFoundation
<1>5. CASE FinishFoundation
  BY <1>5 DEF FinishFoundation
<1>6. ASSUME NEW words \in SUBSET Keywords, FoundationFails(words)
      PROVE  CloudInv'
  BY <1>6, BlamedIsStep DEF FoundationFails
<1>7. ASSUME NEW blamed \in {DockerBuild, HostedApplication}, RequireExecutablesFails(blamed)
      PROVE  CloudInv'
  BY <1>7 DEF RequireExecutablesFails
<1>8. CASE IdentifiersUnresolved
  BY <1>8 DEF IdentifiersUnresolved
<1>9. CASE SetupDone
  BY <1>9 DEF SetupDone
<1>10. CASE SetupDies
  BY <1>10 DEF SetupDies
<1>11. CASE BeginStep
  BY <1>11 DEF BeginStep
<1>12. CASE CommandSucceeds
  BY <1>12 DEF CommandSucceeds
<1>13. CASE CommandFails
  BY <1>13 DEF CommandFails
<1>14. CASE CommandDies
  BY <1>14 DEF CommandDies
<1>15. CASE WriteRuntimeEnvironment
  BY <1>15 DEF WriteRuntimeEnvironment
<1>16. ASSUME NEW told \in Listings, LookupApplication(told)
      PROVE  CloudInv'
  BY <1>16 DEF LookupApplication, Listing
<1>17. CASE AwaitApplication
  BY <1>17 DEF AwaitApplication
<1>18. CASE CreateReturns
  BY <1>18 DEF CreateReturns
<1>19. CASE ExtractIdentifier
  BY <1>19 DEF ExtractIdentifier
<1>20. CASE ExtractFails
  BY <1>20 DEF ExtractFails
<1>21. CASE ExtractDies
  BY <1>21 DEF ExtractDies
<1>22. ASSUME NEW a \in Answers, PollReturns(a)
      PROVE  CloudInv'
  BY <1>22 DEF PollReturns
<1>23. CASE DeploymentReady
  BY <1>23 DEF DeploymentReady
<1>24. CASE DeploymentNotReady
  BY <1>24 DEF DeploymentNotReady
<1>25. CASE PollAgain
  BY <1>25 DEF PollAgain
<1>26. CASE HealthSucceeds
  BY <1>26 DEF HealthSucceeds
<1>27. CASE HealthFails
  BY <1>27 DEF HealthFails
<1>28. CASE Finish
  BY <1>28 DEF Finish
<1>29. CASE ApplicationActivates
  BY <1>29 DEF ApplicationActivates
<1>30. ASSUME NEW s \in {"ACTIVE", "FAILED"}, DeploymentSettles(s)
      PROVE  CloudInv'
  BY <1>30 DEF DeploymentSettles
<1>31. CASE UNCHANGED vars
  BY <1>31 DEF vars
<1> HIDE DEF TypeOK, PlaceInv, CloudInv, InStep, Between, Working, AppStates, DeployStates, Listings, Answers,
       Report, Goto, MarkFailed, FailSteps, ThreadDies, runVars, localVars, cloudVars
<1> QED
  BY <1>1, <1>2, <1>3, <1>4, <1>5, <1>6, <1>7, <1>8, <1>9, <1>10, <1>11, <1>12,
     <1>13, <1>14, <1>15, <1>16, <1>17, <1>18, <1>19, <1>20, <1>21, <1>22, <1>23, <1>24,
     <1>25, <1>26, <1>27, <1>28, <1>29, <1>30, <1>31
     DEF Next, Submit, Thread, Cloud

(* Every step keeps what an ended run shows. *)
LEMMA EndedStep ==
  ASSUME TypeOK, PlaceInv, StepsInv, EndedRunIsSettled, [Next]_vars
  PROVE  EndedRunIsSettled'
<1> USE MaxPollsAssumption, StepNumbers DEF TypeOK, PlaceInv, StepsInv, EndedRunIsSettled, StepStatus, Terminal, InStep, Between, Working,
       SkipsConnector, Done, BuildSteps, Report, Goto, MarkFailed, FailSteps, ThreadDies, runVars, localVars, cloudVars
<1>1. CASE DryRunSucceeds
  BY <1>1 DEF DryRunSucceeds
<1>2. ASSUME NEW at \in Foundation \cup {RegistryLogin}, NEW words \in SUBSET Keywords, DryRunFails(at, words)
      PROVE  EndedRunIsSettled'
  BY <1>2, BlamedIsStep DEF DryRunFails
<1>3. CASE SubmitLive
  BY <1>3 DEF SubmitLive
<1>4. CASE BeginFoundation
  BY <1>4 DEF BeginFoundation
<1>5. CASE FinishFoundation
  BY <1>5 DEF FinishFoundation
<1>6. ASSUME NEW words \in SUBSET Keywords, FoundationFails(words)
      PROVE  EndedRunIsSettled'
  BY <1>6, BlamedIsStep DEF FoundationFails
<1>7. ASSUME NEW blamed \in {DockerBuild, HostedApplication}, RequireExecutablesFails(blamed)
      PROVE  EndedRunIsSettled'
  BY <1>7 DEF RequireExecutablesFails
<1>8. CASE IdentifiersUnresolved
  BY <1>8 DEF IdentifiersUnresolved
<1>9. CASE SetupDone
  BY <1>9 DEF SetupDone
<1>10. CASE SetupDies
  BY <1>10 DEF SetupDies
<1>11. CASE BeginStep
  BY <1>11 DEF BeginStep
<1>12. CASE CommandSucceeds
  BY <1>12 DEF CommandSucceeds
<1>13. CASE CommandFails
  BY <1>13 DEF CommandFails
<1>14. CASE CommandDies
  BY <1>14 DEF CommandDies
<1>15. CASE WriteRuntimeEnvironment
  BY <1>15 DEF WriteRuntimeEnvironment
<1>16. ASSUME NEW told \in Listings, LookupApplication(told)
      PROVE  EndedRunIsSettled'
  BY <1>16 DEF LookupApplication, Listing
<1>17. CASE AwaitApplication
  BY <1>17 DEF AwaitApplication
<1>18. CASE CreateReturns
  BY <1>18 DEF CreateReturns
<1>19. CASE ExtractIdentifier
  BY <1>19 DEF ExtractIdentifier
<1>20. CASE ExtractFails
  BY <1>20 DEF ExtractFails
<1>21. CASE ExtractDies
  BY <1>21 DEF ExtractDies
<1>22. ASSUME NEW a \in Answers, PollReturns(a)
      PROVE  EndedRunIsSettled'
  BY <1>22 DEF PollReturns
<1>23. CASE DeploymentReady
  BY <1>23 DEF DeploymentReady
<1>24. CASE DeploymentNotReady
  BY <1>24 DEF DeploymentNotReady
<1>25. CASE PollAgain
  BY <1>25 DEF PollAgain
<1>26. CASE HealthSucceeds
  BY <1>26 DEF HealthSucceeds
<1>27. CASE HealthFails
  BY <1>27 DEF HealthFails
<1>28. CASE Finish
  BY <1>28 DEF Finish
<1>29. CASE ApplicationActivates
  BY <1>29 DEF ApplicationActivates
<1>30. ASSUME NEW s \in {"ACTIVE", "FAILED"}, DeploymentSettles(s)
      PROVE  EndedRunIsSettled'
  BY <1>30 DEF DeploymentSettles
<1>31. CASE UNCHANGED vars
  BY <1>31 DEF vars
<1> HIDE DEF TypeOK, PlaceInv, StepsInv, EndedRunIsSettled, StepStatus, Terminal, InStep, Between, Working,
       SkipsConnector, Done, BuildSteps, Report, Goto, MarkFailed, FailSteps, ThreadDies, runVars, localVars, cloudVars
<1> QED
  BY <1>1, <1>2, <1>3, <1>4, <1>5, <1>6, <1>7, <1>8, <1>9, <1>10, <1>11, <1>12,
     <1>13, <1>14, <1>15, <1>16, <1>17, <1>18, <1>19, <1>20, <1>21, <1>22, <1>23, <1>24,
     <1>25, <1>26, <1>27, <1>28, <1>29, <1>30, <1>31
     DEF Next, Submit, Thread, Cloud

(* Every step keeps what a success rests on. *)
LEMMA SuccessStep ==
  ASSUME TypeOK, PlaceInv, StepsInv, CloudInv, SuccessIsReal, [Next]_vars
  PROVE  SuccessIsReal'
<1> USE MaxPollsAssumption, StepNumbers DEF TypeOK, PlaceInv, StepsInv, CloudInv, SuccessIsReal, StepStatus, Terminal, InStep, Between,
       Working, OutputKeys, AppStates, DeployStates, Completed, SkipsConnector, Done, Report, Goto, MarkFailed, FailSteps, ThreadDies, runVars, localVars, cloudVars
<1>1. CASE DryRunSucceeds
  BY <1>1 DEF DryRunSucceeds
<1>2. ASSUME NEW at \in Foundation \cup {RegistryLogin}, NEW words \in SUBSET Keywords, DryRunFails(at, words)
      PROVE  SuccessIsReal'
  BY <1>2, BlamedIsStep DEF DryRunFails
<1>3. CASE SubmitLive
  BY <1>3 DEF SubmitLive
<1>4. CASE BeginFoundation
  BY <1>4 DEF BeginFoundation
<1>5. CASE FinishFoundation
  BY <1>5 DEF FinishFoundation
<1>6. ASSUME NEW words \in SUBSET Keywords, FoundationFails(words)
      PROVE  SuccessIsReal'
  BY <1>6, BlamedIsStep DEF FoundationFails
<1>7. ASSUME NEW blamed \in {DockerBuild, HostedApplication}, RequireExecutablesFails(blamed)
      PROVE  SuccessIsReal'
  BY <1>7 DEF RequireExecutablesFails
<1>8. CASE IdentifiersUnresolved
  BY <1>8 DEF IdentifiersUnresolved
<1>9. CASE SetupDone
  BY <1>9 DEF SetupDone
<1>10. CASE SetupDies
  BY <1>10 DEF SetupDies
<1>11. CASE BeginStep
  BY <1>11 DEF BeginStep
<1>12. CASE CommandSucceeds
  BY <1>12 DEF CommandSucceeds
<1>13. CASE CommandFails
  BY <1>13 DEF CommandFails
<1>14. CASE CommandDies
  BY <1>14 DEF CommandDies
<1>15. CASE WriteRuntimeEnvironment
  BY <1>15 DEF WriteRuntimeEnvironment
<1>16. ASSUME NEW told \in Listings, LookupApplication(told)
      PROVE  SuccessIsReal'
  BY <1>16 DEF LookupApplication, Listing
<1>17. CASE AwaitApplication
  BY <1>17 DEF AwaitApplication
<1>18. CASE CreateReturns
  BY <1>18 DEF CreateReturns
<1>19. CASE ExtractIdentifier
  BY <1>19 DEF ExtractIdentifier
<1>20. CASE ExtractFails
  BY <1>20 DEF ExtractFails
<1>21. CASE ExtractDies
  BY <1>21 DEF ExtractDies
<1>22. ASSUME NEW a \in Answers, PollReturns(a)
      PROVE  SuccessIsReal'
  BY <1>22 DEF PollReturns
<1>23. CASE DeploymentReady
  BY <1>23 DEF DeploymentReady
<1>24. CASE DeploymentNotReady
  BY <1>24 DEF DeploymentNotReady
<1>25. CASE PollAgain
  BY <1>25 DEF PollAgain
<1>26. CASE HealthSucceeds
  BY <1>26 DEF HealthSucceeds
<1>27. CASE HealthFails
  BY <1>27 DEF HealthFails
<1>28. CASE Finish
  <2>1. status = "running" /\ cursor = 16 /\ pc \in Working
    BY <1>28 DEF Finish
  <2>2. /\ deployment = "ACTIVE" \/ answer = "endpoint"
        /\ hostedApp = "ACTIVE" \/ listed = "unknown"
    BY <2>1
  <2>3. {"app", "deployment", "endpoint"} \subseteq produced
    BY <2>1
  <2>4. outputs' = OutputKeys
    <3>1. produced \subseteq OutputKeys
      OBVIOUS
    <3>2. outputs' = produced \cup {"foundation"}
      BY <1>28 DEF Finish
    <3> QED
      BY <2>3, <3>1, <3>2 DEF OutputKeys
  <2>5. \A s \in StepId : steps[s] \in Completed
    BY <2>1
  <2> QED
    BY <1>28, <2>2, <2>4, <2>5 DEF Finish
<1>29. CASE ApplicationActivates
  BY <1>29 DEF ApplicationActivates
<1>30. ASSUME NEW s \in {"ACTIVE", "FAILED"}, DeploymentSettles(s)
      PROVE  SuccessIsReal'
  BY <1>30 DEF DeploymentSettles
<1>31. CASE UNCHANGED vars
  BY <1>31 DEF vars
<1> HIDE DEF TypeOK, PlaceInv, StepsInv, CloudInv, SuccessIsReal, StepStatus, Terminal, InStep, Between,
       Working, OutputKeys, AppStates, DeployStates, Completed, SkipsConnector, Done, Report, Goto, MarkFailed, FailSteps, ThreadDies, runVars, localVars, cloudVars
<1> QED
  BY <1>1, <1>2, <1>3, <1>4, <1>5, <1>6, <1>7, <1>8, <1>9, <1>10, <1>11, <1>12,
     <1>13, <1>14, <1>15, <1>16, <1>17, <1>18, <1>19, <1>20, <1>21, <1>22, <1>23, <1>24,
     <1>25, <1>26, <1>27, <1>28, <1>29, <1>30, <1>31
     DEF Next, Submit, Thread, Cloud

(* Every step keeps what a hosted deployment rests on. *)
LEMMA DeploymentStep ==
  ASSUME TypeOK, PlaceInv, StepsInv, CloudInv, DeploymentRestsOnImageAndApplication, [Next]_vars
  PROVE  DeploymentRestsOnImageAndApplication'
<1> USE MaxPollsAssumption, StepNumbers DEF TypeOK, PlaceInv, StepsInv, CloudInv, DeploymentRestsOnImageAndApplication, StepStatus,
       Terminal, InStep, Between, Working, AppStates, DeployStates, SkipsConnector, Done, Report, Goto, MarkFailed, FailSteps, ThreadDies, runVars, localVars, cloudVars
<1>1. CASE DryRunSucceeds
  BY <1>1 DEF DryRunSucceeds
<1>2. ASSUME NEW at \in Foundation \cup {RegistryLogin}, NEW words \in SUBSET Keywords, DryRunFails(at, words)
      PROVE  DeploymentRestsOnImageAndApplication'
  BY <1>2, BlamedIsStep DEF DryRunFails
<1>3. CASE SubmitLive
  BY <1>3 DEF SubmitLive
<1>4. CASE BeginFoundation
  BY <1>4 DEF BeginFoundation
<1>5. CASE FinishFoundation
  BY <1>5 DEF FinishFoundation
<1>6. ASSUME NEW words \in SUBSET Keywords, FoundationFails(words)
      PROVE  DeploymentRestsOnImageAndApplication'
  BY <1>6, BlamedIsStep DEF FoundationFails
<1>7. ASSUME NEW blamed \in {DockerBuild, HostedApplication}, RequireExecutablesFails(blamed)
      PROVE  DeploymentRestsOnImageAndApplication'
  BY <1>7 DEF RequireExecutablesFails
<1>8. CASE IdentifiersUnresolved
  BY <1>8 DEF IdentifiersUnresolved
<1>9. CASE SetupDone
  BY <1>9 DEF SetupDone
<1>10. CASE SetupDies
  BY <1>10 DEF SetupDies
<1>11. CASE BeginStep
  BY <1>11 DEF BeginStep
<1>12. CASE CommandSucceeds
  BY <1>12 DEF CommandSucceeds
<1>13. CASE CommandFails
  BY <1>13 DEF CommandFails
<1>14. CASE CommandDies
  BY <1>14 DEF CommandDies
<1>15. CASE WriteRuntimeEnvironment
  BY <1>15 DEF WriteRuntimeEnvironment
<1>16. ASSUME NEW told \in Listings, LookupApplication(told)
      PROVE  DeploymentRestsOnImageAndApplication'
  BY <1>16 DEF LookupApplication, Listing
<1>17. CASE AwaitApplication
  BY <1>17 DEF AwaitApplication
<1>18. CASE CreateReturns
  BY <1>18 DEF CreateReturns
<1>19. CASE ExtractIdentifier
  BY <1>19 DEF ExtractIdentifier
<1>20. CASE ExtractFails
  BY <1>20 DEF ExtractFails
<1>21. CASE ExtractDies
  BY <1>21 DEF ExtractDies
<1>22. ASSUME NEW a \in Answers, PollReturns(a)
      PROVE  DeploymentRestsOnImageAndApplication'
  BY <1>22 DEF PollReturns
<1>23. CASE DeploymentReady
  BY <1>23 DEF DeploymentReady
<1>24. CASE DeploymentNotReady
  BY <1>24 DEF DeploymentNotReady
<1>25. CASE PollAgain
  BY <1>25 DEF PollAgain
<1>26. CASE HealthSucceeds
  BY <1>26 DEF HealthSucceeds
<1>27. CASE HealthFails
  BY <1>27 DEF HealthFails
<1>28. CASE Finish
  BY <1>28 DEF Finish
<1>29. CASE ApplicationActivates
  BY <1>29 DEF ApplicationActivates
<1>30. ASSUME NEW s \in {"ACTIVE", "FAILED"}, DeploymentSettles(s)
      PROVE  DeploymentRestsOnImageAndApplication'
  BY <1>30 DEF DeploymentSettles
<1>31. CASE UNCHANGED vars
  BY <1>31 DEF vars
<1> HIDE DEF TypeOK, PlaceInv, StepsInv, CloudInv, DeploymentRestsOnImageAndApplication, StepStatus,
       Terminal, InStep, Between, Working, AppStates, DeployStates, SkipsConnector, Done, Report, Goto, MarkFailed, FailSteps, ThreadDies, runVars, localVars, cloudVars
<1> QED
  BY <1>1, <1>2, <1>3, <1>4, <1>5, <1>6, <1>7, <1>8, <1>9, <1>10, <1>11, <1>12,
     <1>13, <1>14, <1>15, <1>16, <1>17, <1>18, <1>19, <1>20, <1>21, <1>22, <1>23, <1>24,
     <1>25, <1>26, <1>27, <1>28, <1>29, <1>30, <1>31
     DEF Next, Submit, Thread, Cloud

(* Every step keeps what a failed health check leaves behind. *)
LEMMA HealthStep ==
  ASSUME TypeOK, PlaceInv, StepsInv, CloudInv, HealthFailureKeepsIdentifiers, [Next]_vars
  PROVE  HealthFailureKeepsIdentifiers'
<1> USE MaxPollsAssumption, StepNumbers DEF TypeOK, PlaceInv, StepsInv, CloudInv, HealthFailureKeepsIdentifiers, StepStatus, Terminal,
       InStep, Between, Working, SkipsConnector, Done, Untouched, BuildSteps, Report, Goto, MarkFailed, FailSteps, ThreadDies, runVars, localVars, cloudVars
<1>1. CASE DryRunSucceeds
  BY <1>1 DEF DryRunSucceeds
<1>2. ASSUME NEW at \in Foundation \cup {RegistryLogin}, NEW words \in SUBSET Keywords, DryRunFails(at, words)
      PROVE  HealthFailureKeepsIdentifiers'
  BY <1>2, BlamedIsStep DEF DryRunFails
<1>3. CASE SubmitLive
  BY <1>3 DEF SubmitLive
<1>4. CASE BeginFoundation
  BY <1>4 DEF BeginFoundation
<1>5. CASE FinishFoundation
  BY <1>5 DEF FinishFoundation
<1>6. ASSUME NEW words \in SUBSET Keywords, FoundationFails(words)
      PROVE  HealthFailureKeepsIdentifiers'
  BY <1>6, BlamedIsStep DEF FoundationFails
<1>7. ASSUME NEW blamed \in {DockerBuild, HostedApplication}, RequireExecutablesFails(blamed)
      PROVE  HealthFailureKeepsIdentifiers'
  BY <1>7 DEF RequireExecutablesFails
<1>8. CASE IdentifiersUnresolved
  BY <1>8 DEF IdentifiersUnresolved
<1>9. CASE SetupDone
  BY <1>9 DEF SetupDone
<1>10. CASE SetupDies
  BY <1>10 DEF SetupDies
<1>11. CASE BeginStep
  BY <1>11 DEF BeginStep
<1>12. CASE CommandSucceeds
  BY <1>12 DEF CommandSucceeds
<1>13. CASE CommandFails
  BY <1>13 DEF CommandFails
<1>14. CASE CommandDies
  BY <1>14 DEF CommandDies
<1>15. CASE WriteRuntimeEnvironment
  BY <1>15 DEF WriteRuntimeEnvironment
<1>16. ASSUME NEW told \in Listings, LookupApplication(told)
      PROVE  HealthFailureKeepsIdentifiers'
  BY <1>16 DEF LookupApplication, Listing
<1>17. CASE AwaitApplication
  BY <1>17 DEF AwaitApplication
<1>18. CASE CreateReturns
  BY <1>18 DEF CreateReturns
<1>19. CASE ExtractIdentifier
  BY <1>19 DEF ExtractIdentifier
<1>20. CASE ExtractFails
  BY <1>20 DEF ExtractFails
<1>21. CASE ExtractDies
  BY <1>21 DEF ExtractDies
<1>22. ASSUME NEW a \in Answers, PollReturns(a)
      PROVE  HealthFailureKeepsIdentifiers'
  BY <1>22 DEF PollReturns
<1>23. CASE DeploymentReady
  BY <1>23 DEF DeploymentReady
<1>24. CASE DeploymentNotReady
  BY <1>24 DEF DeploymentNotReady
<1>25. CASE PollAgain
  BY <1>25 DEF PollAgain
<1>26. CASE HealthSucceeds
  BY <1>26 DEF HealthSucceeds
<1>27. CASE HealthFails
  BY <1>27 DEF HealthFails
<1>28. CASE Finish
  BY <1>28 DEF Finish
<1>29. CASE ApplicationActivates
  BY <1>29 DEF ApplicationActivates
<1>30. ASSUME NEW s \in {"ACTIVE", "FAILED"}, DeploymentSettles(s)
      PROVE  HealthFailureKeepsIdentifiers'
  BY <1>30 DEF DeploymentSettles
<1>31. CASE UNCHANGED vars
  BY <1>31 DEF vars
<1> HIDE DEF TypeOK, PlaceInv, StepsInv, CloudInv, HealthFailureKeepsIdentifiers, StepStatus, Terminal,
       InStep, Between, Working, SkipsConnector, Done, Untouched, BuildSteps, Report, Goto, MarkFailed, FailSteps, ThreadDies, runVars, localVars, cloudVars
<1> QED
  BY <1>1, <1>2, <1>3, <1>4, <1>5, <1>6, <1>7, <1>8, <1>9, <1>10, <1>11, <1>12,
     <1>13, <1>14, <1>15, <1>16, <1>17, <1>18, <1>19, <1>20, <1>21, <1>22, <1>23, <1>24,
     <1>25, <1>26, <1>27, <1>28, <1>29, <1>30, <1>31
     DEF Next, Submit, Thread, Cloud

-------------------------------------------------------------------------------
(* The invariant holds of every reachable state. *)
LEMMA InitInv == Init => IInv
<1> SUFFICES ASSUME Init  PROVE IInv
  OBVIOUS
<1> USE MaxPollsAssumption, StepNumbers DEF Init, BuildSteps
<1>1. TypeOK
  <2>1. request \in Requests /\ request.connector \in ConnectorModes /\ completed \in BOOLEAN
    BY DEF Requests
  <2>2. steps \in [StepId -> StepStatus]
    BY <2>1 DEF StepStatus
  <2>3. outputs \in SUBSET OutputKeys /\ produced \in SUBSET OutputKeys
    OBVIOUS
  <2> HIDE DEF BuildSteps
  <2> QED
    BY <2>1, <2>2, <2>3 DEF TypeOK, Terminal, Locations, ErrorClasses, AppStates,
       DeployStates, Listings, Answers
<1>2. PlaceInv /\ StepsInv
  BY DEF PlaceInv, StepsInv, Terminal
<1>3. CloudInv
  BY DEF CloudInv, Working, InStep, Between
<1>4. /\ EndedRunIsSettled /\ SuccessIsReal
      /\ DeploymentRestsOnImageAndApplication /\ HealthFailureKeepsIdentifiers
  BY DEF EndedRunIsSettled, SuccessIsReal, DeploymentRestsOnImageAndApplication,
         HealthFailureKeepsIdentifiers, Terminal
<1> QED
  BY <1>1, <1>2, <1>3, <1>4 DEF IInv

LEMMA NextInv == IInv /\ [Next]_vars => IInv'
BY TypeStep, RecordStep, CloudStep, EndedStep, SuccessStep, DeploymentStep, HealthStep DEF IInv

THEOREM Invariant == Spec => []IInv
BY InitInv, NextInv, PTL DEF Spec

(* The types are kept, for every readiness deadline: the number of polls stays below it. *)
THEOREM TypesKept == Spec => []TypeOK
BY Invariant, PTL DEF IInv

(* A run that ended shows no step at work. *)
THEOREM EndedRunsAreSettled == Spec => []EndedRunIsSettled
BY Invariant, PTL DEF IInv

(* A live run that succeeded has all steps and all identifiers, and no state the cloud told *)
(* speaks against it.                                                                       *)
THEOREM SuccessIsAlwaysReal == Spec => []SuccessIsReal
BY Invariant, PTL DEF IInv

(* A hosted deployment exists only for a pushed image and a known application, which is *)
(* active unless it was listed without a state.                                         *)
THEOREM DeploymentAlwaysRests == Spec => []DeploymentRestsOnImageAndApplication
BY Invariant, PTL DEF IInv

(* A run that failed in its health check keeps its identifiers. *)
THEOREM HealthFailureAlwaysKeeps == Spec => []HealthFailureKeepsIdentifiers
BY Invariant, PTL DEF IInv

(* The step at work is the only one, with finished steps before it and untouched ones after. *)
THEOREM StepsAreInOrder == Spec => []StepsInOrder
<1>1. IInv => StepsInOrder
  <2> SUFFICES ASSUME IInv, NEW s \in StepId, steps[s] = "running"
               PROVE  /\ \A t \in 1..(s - 1) : steps[t] \in Completed
                      /\ \A t \in (s + 1)..15 : steps[t] \in {"pending", "skipped"}
    BY DEF StepsInOrder
  <2> USE StepNumbers
  <2>1. status = "running"
    BY DEF IInv, TypeOK, StepsInv, EndedRunIsSettled, BuildSteps
  <2>2. s = cursor
    BY <2>1 DEF IInv, TypeOK, StepsInv, Done, Untouched
  <2> QED
    BY <2>1, <2>2 DEF IInv, StepsInv, Done, Untouched, Completed
<1> QED
  BY <1>1, Invariant, PTL

(* The step in progress when a run fails is shown as failed, although the blame is a guess. *)
THEOREM StepInProgressAlwaysFails == Spec => StepInProgressFails
<1>1. ASSUME IInv, Next, status = "running", status' = "failed", pc \in InStep
      PROVE  steps'[cursor] = "failed"
  <2> USE <1>1, StepNumbers DEF IInv, TypeOK, PlaceInv, StepsInv, InStep, SkipsConnector,
                               MarkFailed, FailSteps, Report, Goto
  <2>1. ASSUME NEW words \in SUBSET Keywords, FoundationFails(words)
        PROVE  steps'[cursor] = "failed"
    BY <2>1 DEF FoundationFails
  <2>2. CASE CommandFails
    BY <2>2 DEF CommandFails
  <2>3. CASE ExtractFails
    BY <2>3 DEF ExtractFails
  <2>4. CASE DeploymentNotReady
    BY <2>4 DEF DeploymentNotReady
  <2>5. CASE HealthFails
    BY <2>5 DEF HealthFails
  <2>6. CASE Submit
    BY <2>6 DEF Submit, DryRunSucceeds, DryRunFails, SubmitLive
  <2> QED
    BY <2>1, <2>2, <2>3, <2>4, <2>5, <2>6
       DEF Next, Thread, Cloud, runVars, localVars, cloudVars, ThreadDies, BeginFoundation,
           FinishFoundation, RequireExecutablesFails, IdentifiersUnresolved, SetupDone, SetupDies,
           BeginStep, CommandSucceeds, CommandDies, WriteRuntimeEnvironment, LookupApplication, Listing,
           AwaitApplication, CreateReturns, ExtractIdentifier, ExtractDies, PollReturns,
           DeploymentReady, PollAgain, HealthSucceeds, Finish, ApplicationActivates,
           DeploymentSettles
<1>2. IInv /\ [Next]_vars =>
        [status = "running" /\ status' = "failed" /\ pc \in InStep =>
           steps'[cursor] = "failed"]_vars
  BY <1>1
<1> QED
  BY <1>2, Invariant, PTL DEF Spec, StepInProgressFails

-------------------------------------------------------------------------------
(* The run is an implementation of RunContract. *)
LEMMA ContractStep ==
  ASSUME IInv, [Next]_vars
  PROVE  [Contract!Next]_(Contract!vars)
<1> USE StepNumbers DEF IInv, TypeOK, PlaceInv, InStep, Terminal, Report, Goto, MarkFailed, ThreadDies, runVars,
                        localVars, cloudVars
<1>1. ASSUME DryRunSucceeds  PROVE Contract!RecordEnded
  BY <1>1 DEF DryRunSucceeds, Contract!RecordEnded
<1>2. ASSUME NEW at \in Foundation \cup {RegistryLogin}, NEW words \in SUBSET Keywords, DryRunFails(at, words)
      PROVE  Contract!RecordEnded
  BY <1>2 DEF DryRunFails, Contract!RecordEnded
<1>3. ASSUME SubmitLive  PROVE Contract!Begin
  BY <1>3 DEF SubmitLive, Contract!Begin
<1>4. ASSUME BeginFoundation  PROVE Contract!StartStep
  BY <1>4 DEF BeginFoundation, Contract!StartStep
<1>5. ASSUME FinishFoundation  PROVE Contract!FinishStep
  BY <1>5 DEF FinishFoundation, Contract!FinishStep
<1>6. ASSUME NEW words \in SUBSET Keywords, FoundationFails(words)
      PROVE  Contract!Fail
  BY <1>6 DEF FoundationFails, Contract!Fail
<1>7. ASSUME NEW blamed \in {DockerBuild, HostedApplication}, RequireExecutablesFails(blamed)
      PROVE  Contract!Fail
  BY <1>7 DEF RequireExecutablesFails, Contract!Fail
<1>8. ASSUME IdentifiersUnresolved  PROVE Contract!Fail
  BY <1>8 DEF IdentifiersUnresolved, Contract!Fail
<1>9. ASSUME SetupDone  PROVE UNCHANGED Contract!vars
  BY <1>9 DEF SetupDone, Contract!vars
<1>10. ASSUME SetupDies  PROVE Contract!Abandon
  BY <1>10 DEF SetupDies, Contract!Abandon
<1>11. ASSUME BeginStep  PROVE Contract!StartStep
  BY <1>11 DEF BeginStep, Contract!StartStep
<1>12. ASSUME CommandSucceeds  PROVE Contract!FinishStep
  BY <1>12 DEF CommandSucceeds, Contract!FinishStep
<1>13. ASSUME CommandFails  PROVE Contract!Fail
  BY <1>13 DEF CommandFails, Contract!Fail
<1>14. ASSUME CommandDies  PROVE Contract!Abandon
  BY <1>14 DEF CommandDies, Contract!Abandon
<1>15. ASSUME WriteRuntimeEnvironment  PROVE Contract!FinishStep
  BY <1>15 DEF WriteRuntimeEnvironment, Contract!FinishStep
<1>16. ASSUME NEW told \in Listings, LookupApplication(told)
      PROVE  Contract!FinishStep \/ UNCHANGED Contract!vars
  BY <1>16 DEF LookupApplication, Listing, Contract!FinishStep, Contract!vars
<1>17. ASSUME AwaitApplication  PROVE Contract!FinishStep
  BY <1>17 DEF AwaitApplication, Contract!FinishStep
<1>18. ASSUME CreateReturns  PROVE UNCHANGED Contract!vars
  BY <1>18 DEF CreateReturns, Contract!vars
<1>19. ASSUME ExtractIdentifier  PROVE Contract!FinishStep
  BY <1>19 DEF ExtractIdentifier, Contract!FinishStep
<1>20. ASSUME ExtractFails  PROVE Contract!Fail
  BY <1>20 DEF ExtractFails, Contract!Fail
<1>21. ASSUME ExtractDies  PROVE Contract!Abandon
  BY <1>21 DEF ExtractDies, Contract!Abandon
<1>22. ASSUME NEW a \in Answers, PollReturns(a)
      PROVE  UNCHANGED Contract!vars
  BY <1>22 DEF PollReturns, Contract!vars
<1>23. ASSUME DeploymentReady  PROVE Contract!FinishStep
  BY <1>23 DEF DeploymentReady, Contract!FinishStep
<1>24. ASSUME DeploymentNotReady  PROVE Contract!Fail
  BY <1>24 DEF DeploymentNotReady, Contract!Fail
<1>25. ASSUME PollAgain  PROVE UNCHANGED Contract!vars
  BY <1>25 DEF PollAgain, Contract!vars
<1>26. ASSUME HealthSucceeds  PROVE Contract!FinishStep
  BY <1>26 DEF HealthSucceeds, Contract!FinishStep
<1>27. ASSUME HealthFails  PROVE Contract!Fail
  BY <1>27 DEF HealthFails, Contract!Fail
<1>28. ASSUME Finish  PROVE Contract!Succeed
  BY <1>28 DEF Finish, Contract!Succeed
<1>29. ASSUME ApplicationActivates  PROVE UNCHANGED Contract!vars
  BY <1>29 DEF ApplicationActivates, Contract!vars
<1>30. ASSUME NEW s \in {"ACTIVE", "FAILED"}, DeploymentSettles(s)
      PROVE  UNCHANGED Contract!vars
  BY <1>30 DEF DeploymentSettles, Contract!vars
<1>31. ASSUME UNCHANGED vars  PROVE UNCHANGED Contract!vars
  BY <1>31 DEF vars, Contract!vars
<1> HIDE DEF IInv, TypeOK, PlaceInv, InStep, Terminal
<1> QED
  BY <1>1, <1>2, <1>3, <1>4, <1>5, <1>6, <1>7, <1>8, <1>9, <1>10, <1>11, <1>12,
     <1>13, <1>14, <1>15, <1>16, <1>17, <1>18, <1>19, <1>20, <1>21, <1>22, <1>23, <1>24,
     <1>25, <1>26, <1>27, <1>28, <1>29, <1>30, <1>31
     DEF Next, Submit, Thread, Cloud, Contract!Next

(* Steps are worked on one at a time and in order, and success means all were finished. *)
THEOREM RunImplementsContract == Spec => ImplementsContract
<1>1. Init => Contract!Init
  BY DEF Init, Contract!Init, InStep
<1>2. IInv /\ [Next]_vars => [Contract!Next]_(Contract!vars)
  BY ContractStep
<1> QED
  BY <1>1, <1>2, Invariant, PTL DEF Spec, ImplementsContract, Contract!Spec

===============================================================================
