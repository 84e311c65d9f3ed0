------------------------------ MODULE FactoryUI ------------------------------
(***************************************************************************)
(* The page of Agent Factory (ui/app/page.js) following a deployment run:  *)
(* it submits runs, polls the run it shows every 1500 ms while that run is *)
(* active, and drops the answers of a polling effect that was cleaned up.  *)
(* Polls overlap and their answers arrive in any order.                    *)
(*                                                                         *)
(* React runs an effect and its cleanup after the render that asks for     *)
(* them, and at the latest before the next render: between a render and    *)
(* its effects other answers can be applied, which is the time in which    *)
(* "effect" differs from "Wanted".                                         *)
(*                                                                         *)
(* The services are their in-memory tables of runs.  An answer is read at  *)
(* once here; module RunSnapshot has the reading field by field.           *)
(***************************************************************************)
EXTENDS Naturals, FiniteSets

CONSTANTS
  Urls,         \* endpoints the user may type
  N,            \* number of steps of a run
  MaxRuns,      \* bound: runs made through the page
  MaxAnswers    \* bound: answers to polls under way at a time

ASSUME PageAssumption ==
  N \in Nat /\ MaxRuns \in Nat /\ MaxAnswers \in Nat \ {0} /\ Urls # {}

VARIABLES
  made,         \* number of runs made; a run is its number
  home,         \* the service that made a run
  status,       \* status of a run in the service, "lost" after a restart
  done,         \* number of its finished steps
  url,          \* endpoint in the form of the page
  shown,        \* the run shown (0: none), with
  shownStatus,  \*   the status and
  shownDone,    \*   the number of finished steps shown
  effect,       \* what the installed effect polls: {} or {<<url, run>>}
  answers,      \* answers to polls under way to the page
  submitting,   \* "no", "sent" to the service, or "replied"
  target,       \* endpoint of the submission
  reply,        \* what the reply under way tells: {} (an error) or a run
  forgotten,    \* runs whose reply was lost on its way
  error         \* the page shows an error message

server == <<made, home, status, done>>
page == <<url, shown, shownStatus, shownDone, effect, answers, error>>
submission == <<submitting, target, reply, forgotten>>
vars == <<server, page, submission>>

Ids == 1..MaxRuns
Terminal == {"succeeded", "failed"}
Answer == [run : Ids, status : {"running", "error"} \cup Terminal, done : 0..N,
           cancelled : BOOLEAN]

(* ACTIVE_RUN_STATUSES.has(run?.status) *)
IsRunActive == shownStatus = "running"

(* What the effect of the last render polls. *)
Wanted == IF IsRunActive THEN {<<url, shown>>} ELSE {}

Cancel(as) == {[a EXCEPT !.cancelled = TRUE] : a \in as}

(* Defect: the cleanup is not followed by the new effect. *)
FlushedForGood(as) ==
  /\ effect' = IF effect = Wanted THEN effect ELSE {}
  /\ answers' = IF effect = Wanted THEN as ELSE Cancel(as)

(* Cleanup of the installed effect, and the effect of the last render. *)
Flushed(as) ==
  /\ effect' = Wanted
  /\ answers' = IF effect = Wanted THEN as ELSE Cancel(as)

Init ==
  /\ made = 0
  /\ status = [i \in Ids |-> "none"] /\ done = [i \in Ids |-> 0]
  /\ url \in Urls /\ target = url /\ home = [i \in Ids |-> url]
  /\ shown = 0 /\ shownStatus = "none" /\ shownDone = 0
  /\ effect = {} /\ answers = {} /\ error = FALSE
  /\ submitting = "no" /\ reply = {} /\ forgotten = {}

-------------------------------------------------------------------------------
(* The service: a run works through its steps, ends, or is lost with the   *)
(* process that kept it.                                                   *)

Work(i) ==
  /\ status[i] = "running"
  /\ \/ done[i] < N /\ done' = [done EXCEPT ![i] = @ + 1] /\ UNCHANGED status
     \/ done[i] = N /\ status' = [status EXCEPT ![i] = "succeeded"] /\ UNCHANGED done
     \/ status' = [status EXCEPT ![i] = "failed"] /\ UNCHANGED done
  /\ UNCHANGED <<made, home, page, submission>>

Restart(u) ==
  /\ \E i \in 1..made : home[i] = u /\ status[i] # "lost"
  /\ status' = [i \in Ids |-> IF i <= made /\ home[i] = u THEN "lost" ELSE status[i]]
  /\ UNCHANGED <<made, home, done, page, submission>>

-------------------------------------------------------------------------------
(* Submission. *)

(* Defect: the run followed is not looked at. *)
CanSubmitWhileActive == submitting = "no"

CanSubmit == submitting = "no" /\ ~IsRunActive

Submit ==
  /\ CanSubmit /\ made < MaxRuns
  /\ submitting' = "sent" /\ target' = url
  /\ error' = FALSE
  /\ Flushed(answers)
  /\ UNCHANGED <<server, url, shown, shownStatus, shownDone, reply, forgotten>>

(* create_deployment refuses the payload, or the request never arrives. *)
Refuse ==
  /\ submitting = "sent" /\ submitting' = "replied"
  /\ UNCHANGED <<server, page, target, reply, forgotten>>

(* create_deployment records a run: a dry run is over with the request, a  *)
(* live one begins.  The reply may get lost.                               *)
Accept ==
  /\ submitting = "sent" /\ submitting' = "replied"
  /\ made' = made + 1
  /\ home' = [home EXCEPT ![made + 1] = target]
  /\ \E s \in {"running"} \cup Terminal, d \in 0..N :
       /\ s = "running" => d = 0
       /\ s = "succeeded" => d = N
       /\ status' = [status EXCEPT ![made + 1] = s]
       /\ done' = [done EXCEPT ![made + 1] = d]
       /\ \/ reply' = {<<made + 1, s, d>>} /\ UNCHANGED forgotten
          \/ forgotten' = forgotten \cup {made + 1} /\ UNCHANGED reply
  /\ UNCHANGED <<page, target>>

(* The rest of submitFactoryRun. *)
Submitted ==
  /\ submitting = "replied" /\ submitting' = "no" /\ reply' = {}
  /\ \/ /\ reply = {} /\ error' = TRUE
        /\ UNCHANGED <<shown, shownStatus, shownDone>>
     \/ /\ UNCHANGED error
        /\ \E r \in reply : shown' = r[1] /\ shownStatus' = r[2] /\ shownDone' = r[3]
  /\ Flushed(answers)
  /\ UNCHANGED <<server, url, target, forgotten>>

-------------------------------------------------------------------------------
(* Polling. *)

(* What get_deployment of service u answers about run i. *)
Read(u, i) ==
  IF home[i] = u /\ status[i] # "lost"
  THEN [run |-> i, status |-> status[i], done |-> done[i], cancelled |-> FALSE]
  ELSE [run |-> i, status |-> "error", done |-> 0, cancelled |-> FALSE]

NoAnswer(i) == [run |-> i, status |-> "error", done |-> 0, cancelled |-> FALSE]

(* refreshRun up to its answer: at once and at every tick of the interval. *)
Poll ==
  /\ Cardinality(answers) < MaxAnswers
  /\ \E p \in effect : answers' = answers \cup {Read(p[1], p[2])}
  /\ UNCHANGED <<server, url, shown, shownStatus, shownDone, effect, error, submission>>

PollFails ==
  /\ Cardinality(answers) < MaxAnswers
  /\ \E p \in effect : answers' = answers \cup {NoAnswer(p[2])}
  /\ UNCHANGED <<server, url, shown, shownStatus, shownDone, effect, error, submission>>

(* refreshRun of a cancelled effect does nothing with its answer. *)
Drop(a) ==
  /\ a.cancelled
  /\ answers' = answers \ {a}
  /\ UNCHANGED <<server, url, shown, shownStatus, shownDone, effect, error, submission>>

(* Defect: an error is taken for the failure of the run. *)
RefreshTakesErrorsForFailures(a) ==
  /\ ~a.cancelled
  /\ error' = FALSE
  /\ shown' = a.run /\ shownDone' = a.done
  /\ shownStatus' = IF a.status = "error" THEN "failed" ELSE a.status
  /\ Flushed(answers \ {a})
  /\ UNCHANGED <<server, url, submission>>

(* Defect: isCancelled is not looked at. *)
RefreshCancelled(a) ==
  /\ \/ a.status = "error" /\ error' = TRUE /\ UNCHANGED <<shown, shownStatus, shownDone>>
     \/ /\ a.status # "error" /\ error' = FALSE
        /\ shown' = a.run /\ shownStatus' = a.status /\ shownDone' = a.done
  /\ Flushed(answers \ {a})
  /\ UNCHANGED <<server, url, submission>>

(* The rest of refreshRun: the answer is shown, or the error is. *)
Refresh(a) ==
  /\ ~a.cancelled
  /\ \/ a.status = "error" /\ error' = TRUE /\ UNCHANGED <<shown, shownStatus, shownDone>>
     \/ /\ a.status # "error" /\ error' = FALSE
        /\ shown' = a.run /\ shownStatus' = a.status /\ shownDone' = a.done
  /\ Flushed(answers \ {a})
  /\ UNCHANGED <<server, url, submission>>

(* The effects of the last render run. *)
RunEffects ==
  /\ effect # Wanted
  /\ Flushed(answers)
  /\ UNCHANGED <<server, url, shown, shownStatus, shownDone, error, submission>>

(* The user types another endpoint. *)
SetBackendUrl(u) ==
  /\ u # url /\ url' = u
  /\ Flushed(answers)
  /\ UNCHANGED <<server, shown, shownStatus, shownDone, error, submission>>

Next ==
  \/ \E i \in Ids : Work(i)
  \/ \E u \in Urls : Restart(u) \/ SetBackendUrl(u)
  \/ Submit \/ Refuse \/ Accept \/ Submitted
  \/ Poll \/ PollFails \/ RunEffects
  \/ \E a \in answers : Drop(a) \/ Refresh(a)

(* The browser runs the effects it rendered and the interval goes on.  Of  *)
(* the network it is assumed that a poll repeated for ever is sometimes    *)
(* answered and its answer, should it tell the end of a run, delivered.    *)
Fairness ==
  /\ WF_vars(RunEffects) /\ SF_vars(Poll)
  /\ SF_vars(\E a \in answers : Drop(a))
  /\ SF_vars(\E a \in answers : a.status \in Terminal /\ Refresh(a))
  /\ SF_vars(\E a \in answers : a.status \notin Terminal /\ Refresh(a))

Spec == Init /\ [][Next]_vars
FairSpec == Spec /\ Fairness

-------------------------------------------------------------------------------
(* Properties. *)

TypeOK ==
  /\ made \in 0..MaxRuns /\ home \in [Ids -> Urls]
  /\ status \in [Ids -> {"none", "running", "lost"} \cup Terminal]
  /\ done \in [Ids -> 0..N]
  /\ url \in Urls /\ target \in Urls
  /\ shown \in 0..MaxRuns /\ shownDone \in 0..N
  /\ shownStatus \in {"none", "running"} \cup Terminal
  /\ effect \in SUBSET (Urls \X Ids) /\ answers \in SUBSET Answer
  /\ submitting \in {"no", "sent", "replied"}
  /\ reply \in SUBSET (Ids \X ({"running"} \cup Terminal) \X (0..N))
  /\ forgotten \in SUBSET Ids /\ error \in BOOLEAN

(* The end of a run on the page is the end it had in the service, with all *)
(* of its steps: no answer but that of the ended run makes the page stop   *)
(* polling (page.js:280-314).                                              *)
ShownEndIsReal ==
  shownStatus \in Terminal =>
    /\ status[shown] \in {shownStatus, "lost"}
    /\ done[shown] = shownDone

(* A run at work in a service is the one the page shows or is about to     *)
(* show, unless the reply to its submission was lost: the page never       *)
(* starts a run while it follows another (page.js:255-258).                *)
NoRunIsLeftBehind ==
  \A i \in Ids : status[i] = "running" =>
    i = shown \/ i \in forgotten \/ \E r \in reply : r[1] = i

(* The run shown gives way to later runs only, and once its end is shown   *)
(* and its polling stopped, no answer under way changes what is shown of   *)
(* it (isCancelled, page.js:285-313).                                      *)
ShownRunMovesForward ==
  [][/\ shown' >= shown
     /\ shownStatus \in Terminal /\ effect = {} /\ shown' = shown
          => UNCHANGED <<shownStatus, shownDone>>]_vars

(* The message of a failed submission stays until the next submission: no  *)
(* poll that is still under way clears it (page.js:295-303, 555-565).      *)
SubmissionErrorStays ==
  [][/\ error /\ ~IsRunActive /\ effect = {} /\ submitting = "no"
     => error' \/ submitting' = "sent"]_vars

(* A run that ended while the page follows it is shown with its end, as    *)
(* long as its service keeps it and the page asks that service: the        *)
(* interval keeps polling after errors (specs/0010:515-516).               *)
ShownRunGetsItsEnd ==
  \A i \in Ids :
    (shown = i /\ IsRunActive /\ status[i] \in Terminal)
      ~> (shownStatus \in Terminal \/ shown # i \/ status[i] = "lost" \/ url # home[i])

===============================================================================
