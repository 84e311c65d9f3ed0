--------------------------- MODULE RunSnapshotProof ---------------------------
(***************************************************************************)
(* Proofs for RunSnapshot, for every number of steps and every set of      *)
(* requests.  The invariant says what each program point of the writer     *)
(* guarantees of the steps, and that a copy whose status is terminal was   *)
(* made of a record whose steps no longer change.                          *)
(***************************************************************************)
EXTENDS RunSnapshot, TLAPS

DoneBefore(k)     == \A s \in Step : s < k => stepStatus[s] = "succeeded" /\ stepEnded[s]
UntouchedAfter(k) == \A s \in Step : s > k => stepStatus[s] = "pending"
FailureShown(s)   == stepStatus[s] = "failed" => stepEnded[s] /\ stepError[s]

Failing  == {"fail_completed", "fail_outputs", "fail_error"}
Sweeping == {"sweeping", "swept", "sweep_ended"}

(* Which program points go with which status. *)
StatusInv ==
  /\ status = "running" <=> wpc \notin Failing \cup {"success_completed", "end"}
  /\ wpc \in Failing => status = "failed"
  /\ wpc = "success_completed" => status = "succeeded"
  /\ wpc = "success_status" \/ status = "succeeded" => outputs = "final"
  /\ status # "failed" => ~error

(* What the steps look like while they are worked on and after all of them are done. *)
WorkInv ==
  /\ wpc = "between" => DoneBefore(at) /\ UntouchedAfter(at - 1)
  /\ wpc \in {"working", "ending"} =>
       /\ at \in Step /\ DoneBefore(at) /\ UntouchedAfter(at)
       /\ stepStatus[at] = IF wpc = "working" THEN "running" ELSE "succeeded"
  /\ wpc = "success_status" \/ status = "succeeded" => DoneBefore(N + 1)

(* What they look like from the blame to the end of a failed run. *)
FailInv ==
  /\ wpc \in {"blamed", "blame_ended"} =>
       /\ stepStatus[blamed] = "failed"
       /\ \A s \in Step \ {blamed} : stepStatus[s] # "failed"
  /\ wpc = "blame_ended" => stepEnded[blamed]
  /\ wpc \in Sweeping =>
       /\ stepStatus[blamed] = "failed"
       /\ \A s \in Step : s < sweep => stepStatus[s] # "running"
       /\ \A s \in Step : (wpc = "sweeping" \/ s # sweep) => FailureShown(s)
  /\ wpc \in {"swept", "sweep_ended"} => sweep \in Step /\ stepStatus[sweep] = "failed"
  /\ wpc = "sweep_ended" => stepEnded[sweep]
  /\ status = "failed" =>
       /\ stepStatus[blamed] = "failed"
       /\ \A s \in Step : stepStatus[s] # "running" /\ FailureShown(s)

Copied(r, s) ==
  /\ gotStepStatus[r][s] = stepStatus[s]
  /\ gotStepEnded[r][s] = stepEnded[s]
  /\ gotStepError[r][s] = stepError[s]

(* A copy with a terminal status agrees with the record as far as it has come. *)
ReaderInv ==
  \A r \in Requests :
    /\ rpc[r] = "start" => gotStatus[r] = "running"
    /\ rpc[r] \in {"start", "completed"} => copying[r] = 1
    /\ rpc[r] \in {"step_ended", "step_error"} => copying[r] \in Step
    /\ rpc[r] \in {"error", "answered"} => copying[r] = N + 1
    /\ gotStatus[r] \in Terminal =>
         /\ gotStatus[r] = status
         /\ \A s \in Step : s < copying[r] => Copied(r, s)
         /\ rpc[r] \in {"step_ended", "step_error"} =>
              gotStepStatus[r][copying[r]] = stepStatus[copying[r]]
         /\ rpc[r] = "step_error" => gotStepEnded[r][copying[r]] = stepEnded[copying[r]]
    /\ gotStatus[r] = "succeeded" =>
         /\ rpc[r] \in {"error", "answered"} => gotOutputs[r] = "final"
         /\ rpc[r] = "answered" => ~gotError[r]

IInv == TypeOK /\ StatusInv /\ WorkInv /\ FailInv /\ ReaderInv

-------------------------------------------------------------------------------

(* Every step keeps the types. *)
LEMMA TypeStep ==
  ASSUME TypeOK, WorkInv, FailInv, ReaderInv, [Next]_vars
  PROVE  TypeOK'
<1> USE NAssumption DEF TypeOK, Step, RunStatus, StepStatus, Outputs, WriterPoints, ReaderPoints, recordVars, writerVars, readerVars, gotVars
<1>1. CASE StartStep
  BY <1>1 DEF StartStep
<1>2. CASE StepSucceeds
  BY <1>2 DEF StepSucceeds
<1>3. CASE EndStep
  BY <1>3 DEF EndStep, WorkInv
<1>4. CASE RepeatStep
  BY <1>4 DEF RepeatStep
<1>5. ASSUME NEW s \in Step, Blame(s)  PROVE TypeOK'
  BY <1>5 DEF Blame
<1>6. CASE BlameEnded
  BY <1>6 DEF BlameEnded
<1>7. CASE BlameError
  BY <1>7 DEF BlameError
<1>8. CASE SweepPasses
  BY <1>8 DEF SweepPasses
<1>9. CASE SweepStatus
  BY <1>9 DEF SweepStatus
<1>10. CASE SweepEnded
  BY <1>10 DEF SweepEnded
<1>11. CASE SweepError
  BY <1>11 DEF SweepError, FailInv
<1>12. CASE FailStatus
  BY <1>12 DEF FailStatus
<1>13. CASE FailCompleted
  BY <1>13 DEF FailCompleted
<1>14. CASE FailOutputs
  BY <1>14 DEF FailOutputs
<1>15. CASE FailError
  BY <1>15 DEF FailError
<1>16. CASE SuccessOutputs
  BY <1>16 DEF SuccessOutputs
<1>17. CASE SuccessStatus
  BY <1>17 DEF SuccessStatus
<1>18. CASE SuccessCompleted
  BY <1>18 DEF SuccessCompleted
<1>19. ASSUME NEW r \in Requests, ReadStatus(r)  PROVE TypeOK'
  BY <1>19 DEF ReadStatus
<1>20. ASSUME NEW r \in Requests, ReadCompleted(r)  PROVE TypeOK'
  BY <1>20 DEF ReadCompleted
<1>21. ASSUME NEW r \in Requests, ReadStepStatus(r)  PROVE TypeOK'
  BY <1>21 DEF ReadStepStatus
<1>22. ASSUME NEW r \in Requests, ReadStepEnded(r)  PROVE TypeOK'
  BY <1>22 DEF ReadStepEnded
<1>23. ASSUME NEW r \in Requests, ReadStepError(r)  PROVE TypeOK'
  BY <1>23 DEF ReadStepError, ReaderInv
<1>24. ASSUME NEW r \in Requests, ReadOutputs(r)  PROVE TypeOK'
  BY <1>24 DEF ReadOutputs
<1>25. ASSUME NEW r \in Requests, ReadError(r)  PROVE TypeOK'
  BY <1>25 DEF ReadError
<1>26. CASE UNCHANGED vars
  BY <1>26 DEF vars
<1> QED
  BY <1>1, <1>2, <1>3, <1>4, <1>5, <1>6, <1>7, <1>8, <1>9, <1>10, <1>11, <1>12, <1>13, <1>14, <1>15, <1>16, <1>17, <1>18, <1>19, <1>20, <1>21, <1>22, <1>23, <1>24, <1>25, <1>26 DEF Next, Writer, Reader

(* Every step keeps program points and status in agreement. *)
LEMMA StatusStep ==
  ASSUME TypeOK, StatusInv, [Next]_vars
  PROVE  StatusInv'
<1> USE NAssumption DEF StatusInv, TypeOK, RunStatus, Outputs, WriterPoints, Failing, recordVars, writerVars, readerVars, gotVars
<1>1. CASE StartStep
  BY <1>1 DEF StartStep
<1>2. CASE StepSucceeds
  BY <1>2 DEF StepSucceeds
<1>3. CASE EndStep
  BY <1>3 DEF EndStep
<1>4. CASE RepeatStep
  BY <1>4 DEF RepeatStep
<1>5. ASSUME NEW s \in Step, Blame(s)  PROVE StatusInv'
  BY <1>5 DEF Blame
<1>6. CASE BlameEnded
  BY <1>6 DEF BlameEnded
<1>7. CASE BlameError
  BY <1>7 DEF BlameError
<1>8. CASE SweepPasses
  BY <1>8 DEF SweepPasses
<1>9. CASE SweepStatus
  BY <1>9 DEF SweepStatus
<1>10. CASE SweepEnded
  BY <1>10 DEF SweepEnded
<1>11. CASE SweepError
  BY <1>11 DEF SweepError
<1>12. CASE FailStatus
  BY <1>12 DEF FailStatus
<1>13. CASE FailCompleted
  BY <1>13 DEF FailCompleted
<1>14. CASE FailOutputs
  BY <1>14 DEF FailOutputs
<1>15. CASE FailError
  BY <1>15 DEF FailError
<1>16. CASE SuccessOutputs
  BY <1>16 DEF SuccessOutputs
<1>17. CASE SuccessStatus
  BY <1>17 DEF SuccessStatus
<1>18. CASE SuccessCompleted
  BY <1>18 DEF SuccessCompleted
<1>19. ASSUME NEW r \in Requests, ReadStatus(r)  PROVE StatusInv'
  BY <1>19 DEF ReadStatus
<1>20. ASSUME NEW r \in Requests, ReadCompleted(r)  PROVE StatusInv'
  BY <1>20 DEF ReadCompleted
<1>21. ASSUME NEW r \in Requests, ReadStepStatus(r)  PROVE StatusInv'
  BY <1>21 DEF ReadStepStatus
<1>22. ASSUME NEW r \in Requests, ReadStepEnded(r)  PROVE StatusInv'
  BY <1>22 DEF ReadStepEnded
<1>23. ASSUME NEW r \in Requests, ReadStepError(r)  PROVE StatusInv'
  BY <1>23 DEF ReadStepError
<1>24. ASSUME NEW r \in Requests, ReadOutputs(r)  PROVE StatusInv'
  BY <1>24 DEF ReadOutputs
<1>25. ASSUME NEW r \in Requests, ReadError(r)  PROVE StatusInv'
  BY <1>25 DEF ReadError
<1>26. CASE UNCHANGED vars
  BY <1>26 DEF vars
<1> QED
  BY <1>1, <1>2, <1>3, <1>4, <1>5, <1>6, <1>7, <1>8, <1>9, <1>10, <1>11, <1>12, <1>13, <1>14, <1>15, <1>16, <1>17, <1>18, <1>19, <1>20, <1>21, <1>22, <1>23, <1>24, <1>25, <1>26 DEF Next, Writer, Reader

(* Every step keeps what the writer knows of the steps while it works on them. *)
LEMMA WorkStep ==
  ASSUME TypeOK, StatusInv, WorkInv, [Next]_vars
  PROVE  WorkInv'
<1> USE NAssumption DEF StatusInv, WorkInv, TypeOK, Step, RunStatus, StepStatus, WriterPoints, Failing, DoneBefore, UntouchedAfter, recordVars, writerVars, readerVars, gotVars
<1>1. CASE StartStep
  BY <1>1 DEF StartStep
<1>2. CASE StepSucceeds
  BY <1>2 DEF StepSucceeds
<1>3. CASE EndStep
  BY <1>3 DEF EndStep
<1>4. CASE RepeatStep
  BY <1>4 DEF RepeatStep
<1>5. ASSUME NEW s \in Step, Blame(s)  PROVE WorkInv'
  BY <1>5 DEF Blame
<1>6. CASE BlameEnded
  BY <1>6 DEF BlameEnded
<1>7. CASE BlameError
  BY <1>7 DEF BlameError
<1>8. CASE SweepPasses
  BY <1>8 DEF SweepPasses
<1>9. CASE SweepStatus
  BY <1>9 DEF SweepStatus
<1>10. CASE SweepEnded
  BY <1>10 DEF SweepEnded
<1>11. CASE SweepError
  BY <1>11 DEF SweepError
<1>12. CASE FailStatus
  BY <1>12 DEF FailStatus
<1>13. CASE FailCompleted
  BY <1>13 DEF FailCompleted
<1>14. CASE FailOutputs
  BY <1>14 DEF FailOutputs
<1>15. CASE FailError
  BY <1>15 DEF FailError
<1>16. CASE SuccessOutputs
  BY <1>16 DEF SuccessOutputs
<1>17. CASE SuccessStatus
  BY <1>17 DEF SuccessStatus
<1>18. CASE SuccessCompleted
  BY <1>18 DEF SuccessCompleted
<1>19. ASSUME NEW r \in Requests, ReadStatus(r)  PROVE WorkInv'
  BY <1>19 DEF ReadStatus
<1>20. ASSUME NEW r \in Requests, ReadCompleted(r)  PROVE WorkInv'
  BY <1>20 DEF ReadCompleted
<1>21. ASSUME NEW r \in Requests, ReadStepStatus(r)  PROVE WorkInv'
  BY <1>21 DEF ReadStepStatus
<1>22. ASSUME NEW r \in Requests, ReadStepEnded(r)  PROVE WorkInv'
  BY <1>22 DEF ReadStepEnded
<1>23. ASSUME NEW r \in Requests, ReadStepError(r)  PROVE WorkInv'
  BY <1>23 DEF ReadStepError
<1>24. ASSUME NEW r \in Requests, ReadOutputs(r)  PROVE WorkInv'
  BY <1>24 DEF ReadOutputs
<1>25. ASSUME NEW r \in Requests, ReadError(r)  PROVE WorkInv'
  BY <1>25 DEF ReadError
<1>26. CASE UNCHANGED vars
  BY <1>26 DEF vars
<1> QED
  BY <1>1, <1>2, <1>3, <1>4, <1>5, <1>6, <1>7, <1>8, <1>9, <1>10, <1>11, <1>12, <1>13, <1>14, <1>15, <1>16, <1>17, <1>18, <1>19, <1>20, <1>21, <1>22, <1>23, <1>24, <1>25, <1>26 DEF Next, Writer, Reader

(* Every step keeps what the writer knows of the steps while it fails the run. *)
LEMMA FailStep ==
  ASSUME TypeOK, StatusInv, WorkInv, FailInv, [Next]_vars
  PROVE  FailInv'
<1> USE NAssumption DEF StatusInv, FailInv, TypeOK, Step, RunStatus, StepStatus, WriterPoints, Failing, Sweeping, FailureShown, recordVars, writerVars, readerVars, gotVars
<1>1. CASE StartStep
  BY <1>1 DEF StartStep
<1>2. CASE StepSucceeds
  BY <1>2 DEF StepSucceeds
<1>3. CASE EndStep
  BY <1>3 DEF EndStep
<1>4. CASE RepeatStep
  BY <1>4 DEF RepeatStep
<1>5. ASSUME NEW s \in Step, Blame(s)  PROVE FailInv'
  BY <1>5 DEF Blame, WorkInv, DoneBefore, UntouchedAfter
<1>6. CASE BlameEnded
  BY <1>6 DEF BlameEnded
<1>7. CASE BlameError
  BY <1>7 DEF BlameError
<1>8. CASE SweepPasses
  BY <1>8 DEF SweepPasses
<1>9. CASE SweepStatus
  BY <1>9 DEF SweepStatus
<1>10. CASE SweepEnded
  BY <1>10 DEF SweepEnded
<1>11. CASE SweepError
  BY <1>11 DEF SweepError
<1>12. CASE FailStatus
  BY <1>12 DEF FailStatus
<1>13. CASE FailCompleted
  BY <1>13 DEF FailCompleted
<1>14. CASE FailOutputs
  BY <1>14 DEF FailOutputs
<1>15. CASE FailError
  BY <1>15 DEF FailError
<1>16. CASE SuccessOutputs
  BY <1>16 DEF SuccessOutputs
<1>17. CASE SuccessStatus
  BY <1>17 DEF SuccessStatus
<1>18. CASE SuccessCompleted
  BY <1>18 DEF SuccessCompleted
<1>19. ASSUME NEW r \in Requests, ReadStatus(r)  PROVE FailInv'
  BY <1>19 DEF ReadStatus
<1>20. ASSUME NEW r \in Requests, ReadCompleted(r)  PROVE FailInv'
  BY <1>20 DEF ReadCompleted
<1>21. ASSUME NEW r \in Requests, ReadStepStatus(r)  PROVE FailInv'
  BY <1>21 DEF ReadStepStatus
<1>22. ASSUME NEW r \in Requests, ReadStepEnded(r)  PROVE FailInv'
  BY <1>22 DEF ReadStepEnded
<1>23. ASSUME NEW r \in Requests, ReadStepError(r)  PROVE FailInv'
  BY <1>23 DEF ReadStepError
<1>24. ASSUME NEW r \in Requests, ReadOutputs(r)  PROVE FailInv'
  BY <1>24 DEF ReadOutputs
<1>25. ASSUME NEW r \in Requests, ReadError(r)  PROVE FailInv'
  BY <1>25 DEF ReadError
<1>26. CASE UNCHANGED vars
  BY <1>26 DEF vars
<1> QED
  BY <1>1, <1>2, <1>3, <1>4, <1>5, <1>6, <1>7, <1>8, <1>9, <1>10, <1>11, <1>12, <1>13, <1>14, <1>15, <1>16, <1>17, <1>18, <1>19, <1>20, <1>21, <1>22, <1>23, <1>24, <1>25, <1>26 DEF Next, Writer, Reader

(* The writer leaves the steps alone once a status is terminal, and a status that is *)
(* terminal does not change; what was copied by then stays true.                     *)
LEMMA WriterFreezes ==
  ASSUME TypeOK, StatusInv, Writer, status \in Terminal
  PROVE  status' = status /\ UNCHANGED <<stepStatus, stepEnded, stepError>>
BY DEF Writer, TypeOK, StatusInv, WriterPoints, Failing, Terminal, StartStep, StepSucceeds,
       EndStep, RepeatStep, Blame, BlameEnded, BlameError, SweepPasses, SweepStatus,
       SweepEnded, SweepError, FailStatus, FailCompleted, FailOutputs, FailError,
       SuccessOutputs, SuccessStatus, SuccessCompleted, recordVars

LEMMA WriterLeavesReaders ==
  Writer => UNCHANGED readerVars
BY DEF Writer, StartStep, StepSucceeds, EndStep, RepeatStep, Blame, BlameEnded, BlameError,
       SweepPasses, SweepStatus, SweepEnded, SweepError, FailStatus, FailCompleted,
       FailOutputs, FailError, SuccessOutputs, SuccessStatus, SuccessCompleted

(* Every step keeps the copies in agreement with the record. *)
LEMMA ReaderStep ==
  ASSUME TypeOK, StatusInv, ReaderInv, [Next]_vars
  PROVE  ReaderInv'
<1> USE NAssumption DEF TypeOK, Step, ReaderInv, Copied, RunStatus, Terminal, ReaderPoints,
                        recordVars, writerVars, readerVars, gotVars
<1>1. CASE Writer
  BY <1>1, WriterFreezes, WriterLeavesReaders
<1>2. ASSUME NEW r \in Requests, ReadStatus(r)  PROVE ReaderInv'
  BY <1>2 DEF ReadStatus, StatusInv
<1>3. ASSUME NEW r \in Requests, ReadCompleted(r)  PROVE ReaderInv'
  BY <1>3 DEF ReadCompleted
<1>4. ASSUME NEW r \in Requests, ReadStepStatus(r)  PROVE ReaderInv'
  BY <1>4 DEF ReadStepStatus
<1>5. ASSUME NEW r \in Requests, ReadStepEnded(r)  PROVE ReaderInv'
  BY <1>5 DEF ReadStepEnded
<1>6. ASSUME NEW r \in Requests, ReadStepError(r)  PROVE ReaderInv'
  BY <1>6 DEF ReadStepError
<1>7. ASSUME NEW r \in Requests, ReadOutputs(r)  PROVE ReaderInv'
  BY <1>7 DEF ReadOutputs, StatusInv
<1>8. ASSUME NEW r \in Requests, ReadError(r)  PROVE ReaderInv'
  BY <1>8 DEF ReadError, StatusInv
<1>9. CASE UNCHANGED vars
  BY <1>9 DEF vars
<1> QED
  BY <1>1, <1>2, <1>3, <1>4, <1>5, <1>6, <1>7, <1>8, <1>9 DEF Next, Reader

(* The invariant holds of every reachable state. *)
THEOREM Invariant == Spec => []IInv
<1>1. Init => IInv
  <2> SUFFICES ASSUME Init PROVE IInv
    OBVIOUS
  <2> USE NAssumption DEF Init, Step, Fresh, Blank
  <2>1. TypeOK
    <3>1. /\ Fresh \in [Step -> StepStatus] /\ Blank \in [Step -> BOOLEAN]
          /\ completed \in BOOLEAN /\ error \in BOOLEAN
      BY DEF StepStatus
    <3>2. /\ rpc \in [Requests -> ReaderPoints] /\ copying \in [Requests -> 1..(N + 1)]
          /\ gotStatus \in [Requests -> RunStatus] /\ gotOutputs \in [Requests -> Outputs]
      BY DEF RunStatus, Outputs, ReaderPoints
    <3>3. gotCompleted \in [Requests -> BOOLEAN] /\ gotError \in [Requests -> BOOLEAN]
      OBVIOUS
    <3>4. /\ gotStepStatus \in [Requests -> [Step -> StepStatus]]
          /\ gotStepEnded \in [Requests -> [Step -> BOOLEAN]]
          /\ gotStepError \in [Requests -> [Step -> BOOLEAN]]
      <4> HIDE DEF Fresh, Blank, Step
      <4> QED
        BY <3>1
    <3>5. at \in 1..(N + 1) /\ blamed \in Step /\ sweep \in 1..(N + 1)
      OBVIOUS
    <3> HIDE DEF Fresh, Blank, Step
    <3> QED
      BY <3>1, <3>2, <3>3, <3>4, <3>5 DEF TypeOK, RunStatus, Outputs, WriterPoints
  <2>2. StatusInv
    BY DEF StatusInv, Failing
  <2>3. WorkInv
    BY DEF WorkInv, DoneBefore, UntouchedAfter
  <2>4. FailInv
    BY DEF FailInv, Sweeping
  <2>5. ReaderInv
    BY DEF ReaderInv, Terminal
  <2> QED
    BY <2>1, <2>2, <2>3, <2>4, <2>5 DEF IInv
<1>2. IInv /\ [Next]_vars => IInv'
  BY TypeStep, StatusStep, WorkStep, FailStep, ReaderStep DEF IInv
<1> QED
  BY <1>1, <1>2, PTL DEF Spec

(* The types are kept, for every number of steps and every set of requests. *)
THEOREM TypesKept == Spec => []TypeOK
BY Invariant, PTL DEF IInv

(* What the invariant says of an answer whose status is terminal. *)
LEMMA TerminalAnswer ==
  ASSUME IInv, NEW r \in Requests, Answered(r), gotStatus[r] \in Terminal
  PROVE  /\ gotStatus[r] = status
         /\ gotStepStatus[r] = stepStatus
         /\ gotStepEnded[r] = stepEnded /\ gotStepError[r] = stepError
<1>1. copying[r] = N + 1 /\ gotStatus[r] = status
  BY DEF IInv, ReaderInv, Answered
<1>2. \A s \in Step : Copied(r, s)
  BY <1>1, NAssumption DEF IInv, ReaderInv, Step
<1> QED
  BY <1>1, <1>2 DEF IInv, TypeOK, Copied

(* An answer that ends the polling shows the steps as they stay. *)
THEOREM TerminalAnswersAreExact == Spec => []TerminalAnswerIsExact
<1>1. IInv => TerminalAnswerIsExact
  BY TerminalAnswer DEF TerminalAnswerIsExact
<1> QED
  BY <1>1, Invariant, PTL

(* A failed answer shows no step at work, and of each failed step when and why. *)
LEMMA FailedAnswer ==
  ASSUME IInv, NEW r \in Requests, Answered(r), gotStatus[r] = "failed"
  PROVE  /\ \A s \in Step : gotStepStatus[r][s] # "running"
         /\ \E s \in Step : gotStepStatus[r][s] = "failed"
         /\ \A s \in Step : gotStepStatus[r][s] = "failed" =>
                              gotStepEnded[r][s] /\ gotStepError[r][s]
BY TerminalAnswer DEF IInv, FailInv, FailureShown, Terminal, TypeOK

(* A succeeded answer carries the final outputs and shows every step done. *)
LEMMA SucceededAnswer ==
  ASSUME IInv, NEW r \in Requests, Answered(r), gotStatus[r] = "succeeded"
  PROVE  /\ gotOutputs[r] = "final" /\ ~gotError[r]
         /\ \A s \in Step : gotStepStatus[r][s] = "succeeded" /\ gotStepEnded[r][s]
BY TerminalAnswer, NAssumption
   DEF IInv, WorkInv, DoneBefore, ReaderInv, Answered, Terminal, Step

(* An answer that ends the polling tells what a user needs: after a failure which steps    *)
(* failed and why, after a success the outputs (TerminalAnswerIsComplete).                 *)
THEOREM TerminalAnswersAreComplete == Spec => []TerminalAnswerIsComplete
<1>1. IInv => TerminalAnswerIsComplete
  BY FailedAnswer, SucceededAnswer DEF TerminalAnswerIsComplete
<1> QED
  BY <1>1, Invariant, PTL
===============================================================================
