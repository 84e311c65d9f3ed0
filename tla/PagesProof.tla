------------------------------- MODULE PagesProof -------------------------------
(***************************************************************************)
(* Proofs about the two pages of the browser, FactoryUI and ChatUI: for    *)
(* every number of runs, steps and answers under way and any set of        *)
(* endpoints of the one, of questions, resets and recordings of the other. *)
(***************************************************************************)
EXTENDS FactoryUI, ChatUI, TLAPS

-------------------------------------------------------------------------------
(* The page of the Agent Factory. *)

(* The runs made are those with a status; one is made only while there is  *)
(* room for it.                                                            *)
ServerInv ==
  /\ \A i \in Ids : status[i] = "none" <=> i > made
  /\ submitting = "sent" => made < MaxRuns

(* An end seen anywhere is the end of the run in its service. *)
EndOf(i, s, d) == s \in Terminal => status[i] \in {s, "lost"} /\ done[i] = d

(* The page shows a run that was made; while a submission is under way it  *)
(* follows none.                                                           *)
ShownInv ==
  /\ shown <= made
  /\ shown = 0 <=> shownStatus = "none"
  /\ shown # 0 => EndOf(shown, shownStatus, shownDone)
  /\ submitting # "no" => ~IsRunActive /\ effect = {}

(* The effect polls the run shown, and an answer that is not cancelled is  *)
(* one of this effect.                                                     *)
AnswersInv ==
  /\ \A p \in effect : p[2] = shown
  /\ \A a \in answers :
       /\ a.run <= shown
       /\ EndOf(a.run, a.status, a.done)
       /\ ~a.cancelled => a.run = shown /\ effect # {}

ReplyInv ==
  \A r \in reply :
    /\ submitting = "replied" /\ r[1] = made /\ r[1] > shown
    /\ EndOf(r[1], r[2], r[3])

IInv == TypeOK /\ ServerInv /\ ShownInv /\ AnswersInv /\ ReplyInv /\ NoRunIsLeftBehind

-------------------------------------------------------------------------------
(* Cancelled answers are the answers with their flag set. *)
LEMMA Cancelled ==
  ASSUME NEW as \in SUBSET Answer, NEW b \in Cancel(as)
  PROVE  /\ b \in Answer /\ b.cancelled
         /\ \E a \in as : b.run = a.run /\ b.status = a.status /\ b.done = a.done
BY DEF Cancel, Answer

(* What every step that renders the page leaves of the invariant, when the *)
(* service does not move: it keeps some of the answers, flushes the        *)
(* effects, and shows a run whose end is real.                             *)
LEMMA FlushKeeps ==
  ASSUME IInv, NEW as \in SUBSET answers, Flushed(as), UNCHANGED server,
         shown' >= shown, shown' \in 0..MaxRuns,
         effect' # {} => shown' = shown
  PROVE  AnswersInv' /\ effect' \in SUBSET (Urls \X Ids) /\ answers' \in SUBSET Answer
<1> USE PageAssumption DEF IInv, TypeOK, ShownInv, AnswersInv, server
<1>1. as \in SUBSET Answer
  OBVIOUS
<1>2. effect' = Wanted
  BY DEF Flushed
<1>3. \A p \in effect' : p[2] = shown'
  BY <1>2 DEF Wanted
<1>4. ASSUME NEW a \in answers'
      PROVE  /\ a \in Answer /\ a.run <= shown' /\ EndOf(a.run, a.status, a.done)'
             /\ ~a.cancelled => a.run = shown' /\ effect' # {}
  <2>1. CASE effect = Wanted
    <3>1. a \in answers /\ a \in Answer /\ effect' = effect
      BY <2>1, <1>1, <1>2 DEF Flushed
    <3>2. a.run <= shown /\ EndOf(a.run, a.status, a.done) /\ a.run \in Ids
      BY <3>1 DEF Answer
    <3>3. a.run <= shown'
      BY <3>2 DEF Ids
    <3>4. EndOf(a.run, a.status, a.done)'
      BY <3>2 DEF EndOf
    <3>5. ~a.cancelled => a.run = shown' /\ effect' # {}
      BY <3>1
    <3> QED
      BY <3>1, <3>3, <3>4, <3>5
  <2>2. CASE effect # Wanted
    <3>1. a \in Cancel(as)
      BY <2>2 DEF Flushed
    <3> HIDE DEF IInv, TypeOK, ShownInv, AnswersInv, server
    <3>2. PICK b \in as : a.run = b.run /\ a.status = b.status /\ a.done = b.done
      BY <3>1, <1>1, Cancelled
    <3>3. a \in Answer /\ a.cancelled
      BY <3>1, <1>1, Cancelled
    <3>4. b \in answers /\ b.run <= shown /\ EndOf(b.run, b.status, b.done) /\ b.run \in Ids
      BY <1>1 DEF Answer, IInv, AnswersInv
    <3>5. a.run <= shown'
      BY <3>2, <3>4 DEF Ids, IInv, TypeOK
    <3>6. EndOf(a.run, a.status, a.done)'
      BY <3>2, <3>4 DEF EndOf, server
    <3> QED
      BY <3>3, <3>5, <3>6
  <2> QED
    BY <2>1, <2>2
<1>5. effect' \in SUBSET (Urls \X Ids)
  BY <1>2 DEF Wanted, IsRunActive, Ids, Terminal
<1> QED
  BY <1>3, <1>4, <1>5

LEMMA InitInv == Init => IInv
<1> SUFFICES ASSUME Init PROVE IInv
  OBVIOUS
<1>1. TypeOK
  <2>1. home \in [Ids -> Urls]
    BY DEF Init
  <2>2. status \in [Ids -> {"none", "running", "lost"} \cup Terminal] /\ done \in [Ids -> 0..N]
    BY PageAssumption DEF Init
  <2>3. made \in 0..MaxRuns /\ shown \in 0..MaxRuns /\ shownDone \in 0..N
    BY PageAssumption DEF Init
  <2> QED
    BY <2>1, <2>2, <2>3 DEF Init, TypeOK
<1>2. ServerInv /\ ShownInv
  BY PageAssumption DEF Init, ServerInv, ShownInv, IsRunActive, Ids
<1>3. AnswersInv /\ ReplyInv /\ NoRunIsLeftBehind
  BY DEF Init, AnswersInv, ReplyInv, NoRunIsLeftBehind
<1> QED
  BY <1>1, <1>2, <1>3 DEF IInv

(* The end of a run is final: whatever was read of it stays right. *)
LEMMA EndStays ==
  ASSUME IInv,
         NEW i \in Ids, NEW s, NEW d, EndOf(i, s, d),
         \/ \E j \in Ids : Work(j)
         \/ \E u \in Urls : Restart(u)
         \/ Accept /\ i <= made
  PROVE  EndOf(i, s, d)'
<1> USE DEF IInv, TypeOK, ServerInv, EndOf, Terminal
<1>1. CASE \E j \in Ids : Work(j)
  BY <1>1 DEF Work
<1>2. CASE \E u \in Urls : Restart(u)
  BY <1>2 DEF Restart
<1>3. CASE Accept /\ i <= made
  BY <1>3 DEF Accept, Ids
<1> QED
  BY <1>1, <1>2, <1>3

(* What a step of the service must still show. *)
LEMMA ServiceKeeps ==
  ASSUME IInv, \/ \E i \in Ids : Work(i)
               \/ \E u \in Urls : Restart(u)
  PROVE  IInv'
<1>1. UNCHANGED <<made, home, page, submission>>
  BY DEF Work, Restart
<1>2. TypeOK'
  <2>1. status' \in [Ids -> {"none", "running", "lost"} \cup Terminal] /\ done' \in [Ids -> 0..N]
    <3>1. CASE \E i \in Ids : Work(i)
      BY <3>1, PageAssumption DEF IInv, TypeOK, Work, Terminal
    <3>2. CASE \E u \in Urls : Restart(u)
      BY <3>2 DEF IInv, TypeOK, Restart
    <3> QED
      BY <3>1, <3>2
  <2> QED
    BY <1>1, <2>1 DEF IInv, TypeOK, page, submission
<1>3. ServerInv'
  <2>1. CASE \E i \in Ids : Work(i)
    BY <1>1, <2>1 DEF IInv, TypeOK, ServerInv, Work, submission, Terminal
  <2>2. CASE \E u \in Urls : Restart(u)
    BY <1>1, <2>2 DEF IInv, TypeOK, ServerInv, Restart, submission, Ids
  <2> QED
    BY <2>1, <2>2
<1>4. \A i \in Ids : \A s, d : EndOf(i, s, d) => EndOf(i, s, d)'
  <2> TAKE i \in Ids
  <2> TAKE s, d
  <2> QED
    BY EndStays
<1>5. ShownInv'
  <2>1. shown # 0 => EndOf(shown, shownStatus, shownDone)'
    <3>1. shown # 0 => shown \in Ids /\ EndOf(shown, shownStatus, shownDone)
      BY PageAssumption DEF IInv, TypeOK, ShownInv, Ids
    <3>2. shown' = shown /\ shownStatus' = shownStatus /\ shownDone' = shownDone
      BY <1>1 DEF page
    <3> QED
      BY <1>4, <3>1, <3>2 DEF EndOf
  <2> QED
    BY <1>1, <2>1 DEF IInv, ShownInv, page, submission, IsRunActive
<1>6. AnswersInv'
  <2>1. \A a \in answers : a.run \in Ids
    BY DEF IInv, TypeOK, Answer
  <2> QED
    BY <1>1, <1>4, <2>1 DEF IInv, AnswersInv, page, EndOf
<1>7. ReplyInv'
  <2>1. \A r \in reply : r[1] \in Ids
    BY DEF IInv, TypeOK
  <2> QED
    BY <1>1, <1>4, <2>1 DEF IInv, ReplyInv, page, submission, EndOf
<1>8. NoRunIsLeftBehind'
  BY <1>1 DEF IInv, TypeOK, NoRunIsLeftBehind, Work, Restart, page, submission, Terminal
<1> QED
  BY <1>2, <1>3, <1>5, <1>6, <1>7, <1>8 DEF IInv

LEMMA SubmitInv == ASSUME IInv, Submit PROVE IInv'
<1> USE DEF Submit, CanSubmit
<1>1. UNCHANGED <<server, url, shown, shownStatus, shownDone, reply, forgotten>> /\ ~IsRunActive
  OBVIOUS
<1>2. effect' = {}
  BY DEF Flushed, Wanted
<1>3. AnswersInv' /\ effect' \in SUBSET (Urls \X Ids) /\ answers' \in SUBSET Answer
  BY <1>1, <1>2, FlushKeeps DEF IInv, TypeOK
<1>4. TypeOK'
  BY <1>1, <1>3 DEF IInv, TypeOK, server
<1>5. ServerInv' /\ ShownInv'
  BY <1>1, <1>2 DEF IInv, TypeOK, ServerInv, ShownInv, server, EndOf, IsRunActive
<1>6. ReplyInv' /\ NoRunIsLeftBehind'
  BY <1>1 DEF IInv, ReplyInv, NoRunIsLeftBehind, server, EndOf
<1> QED
  BY <1>3, <1>4, <1>5, <1>6 DEF IInv

LEMMA RefuseInv == ASSUME IInv, Refuse PROVE IInv'
<1> USE DEF Refuse, server, page
<1>1. TypeOK' /\ ServerInv'
  BY DEF IInv, TypeOK, ServerInv
<1>2. ShownInv' /\ AnswersInv'
  BY DEF IInv, ShownInv, AnswersInv, EndOf, IsRunActive
<1>3. ReplyInv' /\ NoRunIsLeftBehind'
  BY DEF IInv, ReplyInv, NoRunIsLeftBehind, EndOf
<1> QED
  BY <1>1, <1>2, <1>3 DEF IInv

LEMMA AcceptInv == ASSUME IInv, Accept PROVE IInv'
<1> USE PageAssumption
<1>1. /\ submitting = "sent" /\ submitting' = "replied" /\ made' = made + 1
      /\ UNCHANGED <<page, target>> /\ made + 1 \in Ids /\ reply = {}
  BY DEF Accept, IInv, TypeOK, ServerInv, ReplyInv, Ids
<1>2. PICK s \in {"running"} \cup Terminal, d \in 0..N :
        /\ status' = [status EXCEPT ![made + 1] = s]
        /\ done' = [done EXCEPT ![made + 1] = d]
        /\ \/ reply' = {<<made + 1, s, d>>} /\ UNCHANGED forgotten
           \/ forgotten' = forgotten \cup {made + 1} /\ UNCHANGED reply
  BY DEF Accept
<1>3. TypeOK'
  <2>1. made' \in 0..MaxRuns /\ home' \in [Ids -> Urls]
    BY <1>1 DEF Accept, IInv, TypeOK, Ids
  <2>2. status' \in [Ids -> {"none", "running", "lost"} \cup Terminal] /\ done' \in [Ids -> 0..N]
    BY <1>2 DEF IInv, TypeOK
  <2>3. reply' \in SUBSET (Ids \X ({"running"} \cup Terminal) \X (0..N)) /\ forgotten' \in SUBSET Ids
    BY <1>1, <1>2 DEF IInv, TypeOK
  <2> QED
    BY <1>1, <2>1, <2>2, <2>3 DEF IInv, TypeOK, page
<1>4. ServerInv'
  BY <1>1, <1>2 DEF IInv, TypeOK, ServerInv, Ids, Terminal
<1>5. \A i \in 1..made : \A t, e : EndOf(i, t, e) => EndOf(i, t, e)'
  <2> TAKE i \in 1..made
  <2> TAKE t, e
  <2>1. i \in Ids /\ i <= made
    BY DEF IInv, TypeOK, Ids
  <2> QED
    BY <2>1, EndStays
<1>6. ShownInv'
  <2>1. shown # 0 => shown \in 1..made
    BY DEF IInv, TypeOK, ShownInv
  <2>2. shown # 0 => EndOf(shown, shownStatus, shownDone)'
    BY <1>1, <1>5, <2>1 DEF IInv, ShownInv, page, EndOf
  <2> QED
    BY <1>1, <2>2 DEF IInv, TypeOK, ShownInv, page, IsRunActive
<1>7. AnswersInv'
  <2>1. \A a \in answers : a.run \in 1..made /\ EndOf(a.run, a.status, a.done)
    BY DEF IInv, TypeOK, ShownInv, AnswersInv, Answer, Ids
  <2>2. effect' = effect /\ answers' = answers /\ shown' = shown
    BY <1>1 DEF page
  <2>3. \A a \in answers : EndOf(a.run, a.status, a.done)'
    BY <1>5, <2>1 DEF EndOf
  <2> QED
    BY <2>2, <2>3 DEF IInv, AnswersInv, EndOf
<1>8. ReplyInv'
  <2> SUFFICES ASSUME NEW r \in reply'
               PROVE  /\ submitting' = "replied" /\ r[1] = made' /\ r[1] > shown'
                      /\ EndOf(r[1], r[2], r[3])'
    BY DEF ReplyInv
  <2>1. r = <<made + 1, s, d>>
    BY <1>1, <1>2
  <2> QED
    <3>1. r[1] = made + 1 /\ r[2] = s /\ r[3] = d
      BY <2>1
    <3>2. status'[made + 1] = s /\ done'[made + 1] = d
      BY <1>1, <1>2 DEF IInv, TypeOK
    <3>3. made + 1 > shown' /\ made' = made + 1
      BY <1>1 DEF IInv, TypeOK, ShownInv, page
    <3> QED
      BY <1>1, <3>1, <3>2, <3>3 DEF EndOf
<1>9. NoRunIsLeftBehind'
  <2> SUFFICES ASSUME NEW i \in Ids, status'[i] = "running"
               PROVE  i = shown' \/ i \in forgotten' \/ \E r \in reply' : r[1] = i
    BY DEF NoRunIsLeftBehind
  <2>1. CASE i = made + 1
    <3>1. CASE reply' = {<<made + 1, s, d>>}
      BY <2>1, <3>1
    <3>2. CASE forgotten' = forgotten \cup {made + 1}
      BY <2>1, <3>2
    <3> QED
      BY <1>2, <3>1, <3>2
  <2>2. CASE i # made + 1
    BY <1>1, <1>2, <2>2 DEF IInv, TypeOK, NoRunIsLeftBehind, page
  <2> QED
    BY <2>1, <2>2
<1> QED
  BY <1>3, <1>4, <1>6, <1>7, <1>8, <1>9 DEF IInv

LEMMA SubmittedInv == ASSUME IInv, Submitted PROVE IInv'
<1> USE DEF Submitted
<1>1. /\ submitting = "replied" /\ submitting' = "no" /\ reply' = {}
      /\ UNCHANGED <<server, url, target, forgotten>> /\ Flushed(answers)
  OBVIOUS
<1>2. ~IsRunActive /\ effect' = {}
  BY DEF IInv, ShownInv, Flushed, Wanted
<1>3. CASE reply = {}
  <2>1. UNCHANGED <<shown, shownStatus, shownDone>> /\ error' = TRUE
    BY <1>3
  <2>2. AnswersInv' /\ effect' \in SUBSET (Urls \X Ids) /\ answers' \in SUBSET Answer
    BY <1>1, <1>2, <2>1, FlushKeeps DEF IInv, TypeOK
  <2>3. TypeOK' /\ ServerInv'
    BY <1>1, <2>1, <2>2 DEF IInv, TypeOK, ServerInv, server
  <2>4. ShownInv' /\ ReplyInv'
    BY <1>1, <2>1 DEF IInv, ShownInv, ReplyInv, server, EndOf
  <2>5. NoRunIsLeftBehind'
    BY <1>1, <1>3, <2>1 DEF IInv, NoRunIsLeftBehind, server
  <2> QED
    BY <2>2, <2>3, <2>4, <2>5 DEF IInv
<1>4. CASE reply # {}
  <2>1. PICK r \in reply : shown' = r[1] /\ shownStatus' = r[2] /\ shownDone' = r[3]
    BY <1>4
  <2>2. /\ shown' = made /\ shown' > shown /\ UNCHANGED error
        /\ EndOf(shown', shownStatus', shownDone')
        /\ shown' \in Ids /\ shownStatus' \in {"running"} \cup Terminal /\ shownDone' \in 0..N
    BY <1>4, <2>1 DEF IInv, TypeOK, ReplyInv, EndOf
  <2>3. AnswersInv' /\ effect' \in SUBSET (Urls \X Ids) /\ answers' \in SUBSET Answer
    <3>1. shown' >= shown /\ shown' \in 0..MaxRuns
      BY <2>2, PageAssumption DEF IInv, TypeOK, Ids
    <3> QED
      BY <1>1, <1>2, <3>1, FlushKeeps DEF IInv, TypeOK
  <2>4. TypeOK' /\ ServerInv'
    BY <1>1, <2>2, <2>3, PageAssumption DEF IInv, TypeOK, ServerInv, server, Ids
  <2>5. ShownInv'
    BY <1>1, <2>2, PageAssumption DEF IInv, TypeOK, ShownInv, server, EndOf, Ids, Terminal
  <2>6. ReplyInv'
    BY <1>1 DEF ReplyInv
  <2>7. NoRunIsLeftBehind'
    <3> SUFFICES ASSUME NEW i \in Ids, status[i] = "running", i # shown', i \notin forgotten
                 PROVE  FALSE
      BY <1>1 DEF NoRunIsLeftBehind, server
    <3>1. i = shown
      BY <2>2 DEF IInv, NoRunIsLeftBehind, ReplyInv
    <3> QED
      BY <1>2, <3>1, PageAssumption
         DEF IInv, TypeOK, ShownInv, ServerInv, EndOf, IsRunActive, Ids, Terminal
  <2> QED
    BY <2>3, <2>4, <2>5, <2>6, <2>7 DEF IInv
<1> QED
  BY <1>3, <1>4

LEMMA PollInv == ASSUME IInv, Poll \/ PollFails PROVE IInv'
<1>1. UNCHANGED <<server, url, shown, shownStatus, shownDone, effect, error, submission>>
  BY DEF Poll, PollFails
<1>2. PICK p \in effect :
        \E a \in {Read(p[1], p[2]), NoAnswer(p[2])} : answers' = answers \cup {a}
  BY DEF Poll, PollFails
<1>3. PICK a \in {Read(p[1], p[2]), NoAnswer(p[2])} : answers' = answers \cup {a}
  BY <1>2
<1>4. p[2] \in Ids /\ p[2] = shown
  BY DEF IInv, TypeOK, AnswersInv
<1>5. a \in Answer /\ a.run = p[2]
  <2>1. status[p[2]] \in {"none", "running", "lost"} \cup Terminal /\ done[p[2]] \in 0..N
    BY <1>4 DEF IInv, TypeOK
  <2>2. status[p[2]] # "none"
    BY <1>4, PageAssumption DEF IInv, TypeOK, ServerInv, ShownInv, Ids
  <2>3. 0 \in 0..N
    BY PageAssumption
  <2>4. a = Read(p[1], p[2]) => a \in Answer /\ a.run = p[2]
    BY <1>4, <2>1, <2>2, <2>3 DEF Read, Answer
  <2>5. a = NoAnswer(p[2]) => a \in Answer /\ a.run = p[2]
    BY <1>4, <2>3 DEF NoAnswer, Answer
  <2> QED
    BY <1>3, <2>4, <2>5
<1>6. EndOf(a.run, a.status, a.done)
  BY <1>3, <1>4 DEF EndOf, Read, NoAnswer, Terminal
<1>7. TypeOK' /\ ServerInv' /\ ShownInv'
  BY <1>1, <1>3, <1>5 DEF IInv, TypeOK, ServerInv, ShownInv, server, submission, EndOf, IsRunActive
<1>8. AnswersInv'
  <2>1. \A b \in answers' : b.run <= shown /\ EndOf(b.run, b.status, b.done)
                            /\ (~b.cancelled => b.run = shown /\ effect # {})
    BY <1>3, <1>4, <1>5, <1>6, PageAssumption DEF IInv, AnswersInv, Ids
  <2> QED
    BY <1>1, <2>1 DEF IInv, AnswersInv, EndOf, server
<1>9. ReplyInv' /\ NoRunIsLeftBehind'
  BY <1>1 DEF IInv, ReplyInv, NoRunIsLeftBehind, EndOf, server, submission
<1> QED
  BY <1>7, <1>8, <1>9 DEF IInv

LEMMA DropInv == ASSUME IInv, NEW a \in answers, Drop(a) PROVE IInv'
<1> USE DEF Drop, server, submission
<1>1. TypeOK' /\ ServerInv' /\ ShownInv'
  BY DEF IInv, TypeOK, ServerInv, ShownInv, EndOf, IsRunActive
<1>2. AnswersInv'
  BY DEF IInv, AnswersInv, EndOf
<1>3. ReplyInv' /\ NoRunIsLeftBehind'
  BY DEF IInv, ReplyInv, NoRunIsLeftBehind, EndOf
<1> QED
  BY <1>1, <1>2, <1>3 DEF IInv

(* The steps that render the page and leave the service and the submission *)
(* alone: they show the same run, with a real end.                         *)
LEMMA RenderKeeps ==
  ASSUME IInv, NEW as \in SUBSET answers, Flushed(as), UNCHANGED <<server, submission, shown>>,
         url' \in Urls, error' \in BOOLEAN,
         \/ UNCHANGED <<shownStatus, shownDone>>
         \/ /\ shown # 0 /\ submitting = "no" /\ shownDone' \in 0..N
            /\ shownStatus' \in {"running"} \cup Terminal
            /\ EndOf(shown, shownStatus', shownDone')
  PROVE  IInv'
<1>1. AnswersInv' /\ effect' \in SUBSET (Urls \X Ids) /\ answers' \in SUBSET Answer
  <2>1. shown' >= shown /\ shown' \in 0..MaxRuns /\ shown' = shown
    BY PageAssumption DEF IInv, TypeOK
  <2> QED
    BY <2>1, FlushKeeps
<1>2. TypeOK' /\ ServerInv'
  BY <1>1 DEF IInv, TypeOK, ServerInv, server, submission
<1>3. ShownInv'
  <2>1. effect' = Wanted
    BY DEF Flushed
  <2> QED
    BY <2>1 DEF IInv, ShownInv, Wanted, IsRunActive, EndOf, server, submission, Terminal
<1>4. ReplyInv' /\ NoRunIsLeftBehind'
  BY DEF IInv, ReplyInv, NoRunIsLeftBehind, EndOf, server, submission
<1> QED
  BY <1>1, <1>2, <1>3, <1>4 DEF IInv

LEMMA RefreshInv == ASSUME IInv, NEW a \in answers, Refresh(a) PROVE IInv'
<1>1. /\ ~a.cancelled /\ Flushed(answers \ {a}) /\ UNCHANGED <<server, url, submission>>
      /\ error' \in BOOLEAN
  BY DEF Refresh
<1>2. a \in Answer /\ a.run = shown /\ effect # {} /\ EndOf(shown, a.status, a.done)
  BY <1>1 DEF IInv, TypeOK, AnswersInv
<1>3. shown # 0 /\ submitting = "no"
  BY <1>2, PageAssumption DEF IInv, ShownInv, Answer, Ids
<1>4. \/ UNCHANGED <<shown, shownStatus, shownDone>>
      \/ /\ a.status # "error" /\ shown' = shown
         /\ shownStatus' = a.status /\ shownDone' = a.done
  BY <1>2 DEF Refresh
<1>5. a.status # "error" => a.status \in {"running"} \cup Terminal /\ a.done \in 0..N
  BY <1>2 DEF Answer
<1>6. url' \in Urls /\ answers \ {a} \in SUBSET answers
  BY <1>1 DEF IInv, TypeOK
<1> QED
  BY <1>1, <1>2, <1>3, <1>4, <1>5, <1>6, RenderKeeps

LEMMA NextInv == IInv /\ [Next]_vars => IInv'
<1> SUFFICES ASSUME IInv, [Next]_vars PROVE IInv'
  OBVIOUS
<1>1. ASSUME NEW i \in Ids, Work(i) PROVE IInv'
  BY <1>1, ServiceKeeps
<1>2. ASSUME NEW u \in Urls, Restart(u) PROVE IInv'
  BY <1>2, ServiceKeeps
<1>3. ASSUME NEW u \in Urls, SetBackendUrl(u) PROVE IInv'
  BY <1>3, RenderKeeps DEF SetBackendUrl, IInv, TypeOK
<1>4. CASE RunEffects
  BY <1>4, RenderKeeps DEF RunEffects, IInv, TypeOK
<1>5. CASE UNCHANGED vars
  BY <1>5 DEF vars, server, page, submission, IInv, TypeOK, ServerInv, ShownInv, AnswersInv,
     ReplyInv, NoRunIsLeftBehind, EndOf, IsRunActive
<1> QED
  BY <1>1, <1>2, <1>3, <1>4, <1>5, SubmitInv, RefuseInv, AcceptInv, SubmittedInv, PollInv,
     DropInv, RefreshInv DEF Next

-------------------------------------------------------------------------------
(* Everything the proofs rest on, as one invariant. *)
THEOREM Invariant == Spec => []IInv
BY InitInv, NextInv, PTL DEF Spec

(* The end a page shows is the end of the run, whatever polls, restarts    *)
(* and changes of the endpoint overlap (page.js:280-314).                  *)
THEOREM ShownEndsAreReal == Spec => []ShownEndIsReal
<1>1. IInv => ShownEndIsReal
  BY PageAssumption DEF IInv, TypeOK, ShownInv, ShownEndIsReal, EndOf, Terminal
<1> QED
  BY <1>1, Invariant, PTL

(* No run is at work unseen by the page that started it, but those whose   *)
(* reply was lost (page.js:255-258).                                       *)
THEOREM NoRunsAreLeftBehind == Spec => []NoRunIsLeftBehind
BY Invariant, PTL DEF IInv

(* Later runs only replace the run shown, and its end stands               *)
(* (page.js:285-313).                                                      *)
THEOREM ShownRunsMoveForward == Spec => ShownRunMovesForward
<1>1. ASSUME IInv, [Next]_vars
      PROVE  /\ shown' >= shown
             /\ (shownStatus \in Terminal /\ effect = {} /\ shown' = shown)
                  => UNCHANGED <<shownStatus, shownDone>>
  <2> USE <1>1
  <2>1. ASSUME NEW a \in answers, Refresh(a) PROVE shown' = shown /\ effect # {}
    <3>1. a.run = shown /\ effect # {}
      BY <2>1 DEF Refresh, IInv, TypeOK, AnswersInv
    <3> QED
      BY <2>1, <3>1 DEF Refresh
  <2>2. ASSUME Submitted
        PROVE  UNCHANGED <<shown, shownStatus, shownDone>> \/ shown' > shown
    BY <2>2 DEF Submitted, IInv, ReplyInv
  <2>3. ASSUME ~Submitted, \A a \in answers : ~Refresh(a)
        PROVE  UNCHANGED <<shown, shownStatus, shownDone>>
    <3>1. CASE Submit \/ Refuse \/ Accept \/ Poll \/ PollFails \/ RunEffects \/ UNCHANGED vars
      BY <3>1 DEF Submit, Refuse, Accept, Poll, PollFails, RunEffects, vars, page
    <3>2. ASSUME NEW a \in answers, Drop(a) PROVE UNCHANGED <<shown, shownStatus, shownDone>>
      BY <3>2 DEF Drop
    <3>3. ASSUME NEW i \in Ids, Work(i) PROVE UNCHANGED <<shown, shownStatus, shownDone>>
      BY <3>3 DEF Work, page
    <3>4. ASSUME NEW u \in Urls, Restart(u) \/ SetBackendUrl(u)
          PROVE  UNCHANGED <<shown, shownStatus, shownDone>>
      BY <3>4 DEF Restart, SetBackendUrl, page
    <3> QED
      BY <2>3, <3>1, <3>2, <3>3, <3>4 DEF Next
  <2>4. shown \in Nat
    BY PageAssumption DEF IInv, TypeOK
  <2>5. shown' = shown => shown' >= shown
    BY <2>4
  <2>6. shown' > shown => shown' >= shown /\ shown' # shown
    <3>1. shown' \in Nat
      BY NextInv, PageAssumption DEF IInv, TypeOK
    <3> QED
      BY <2>4, <3>1
  <2> QED
    BY <2>1, <2>2, <2>3, <2>5, <2>6
<1> QED
  BY <1>1, Invariant, PTL DEF Spec, ShownRunMovesForward

(* The message of a failed submission outlives the polls still under way   *)
(* (page.js:295-303).                                                      *)
THEOREM SubmissionErrorsStay == Spec => SubmissionErrorStays
<1>1. ASSUME IInv, [Next]_vars, error, ~IsRunActive, effect = {}, submitting = "no"
      PROVE  error' \/ submitting' = "sent"
  <2> USE <1>1
  <2>1. ~Submitted /\ \A a \in answers : ~Refresh(a)
    BY DEF Submitted, Refresh, IInv, AnswersInv
  <2>2. CASE Submit
    BY <2>2 DEF Submit
  <2>3. CASE Refuse \/ Accept \/ Poll \/ PollFails \/ RunEffects \/ UNCHANGED vars
    BY <2>3 DEF Refuse, Accept, Poll, PollFails, RunEffects, vars, page
  <2>4. ASSUME NEW a \in answers, Drop(a) PROVE UNCHANGED error
    BY <2>4 DEF Drop
  <2>5. ASSUME NEW i \in Ids, Work(i) PROVE UNCHANGED error
    BY <2>5 DEF Work, page
  <2>6. ASSUME NEW u \in Urls, Restart(u) \/ SetBackendUrl(u) PROVE UNCHANGED error
    BY <2>6 DEF Restart, SetBackendUrl, page
  <2> QED
    BY <2>1, <2>2, <2>3, <2>4, <2>5, <2>6 DEF Next
<1> QED
  BY <1>1, Invariant, PTL DEF Spec, SubmissionErrorStays

(* Type correctness, for any number of runs, steps and answers under way. *)
THEOREM TypeInvariant == Spec => []TypeOK
<1>1. IInv => TypeOK
  BY DEF IInv
<1> QED
  BY <1>1, Invariant, PTL

-------------------------------------------------------------------------------
(* The chat page, whatever questions overlap: a request under way accounts *)
(* for each answer that streams, for the busy flag and for the abort.      *)

(* A request that was not sent was not aborted. *)
ChatInv ==
  /\ ChatTypeOK
  /\ RecordingCanBeStopped
  /\ \A r \in Requests : phase[r] = "unused" => ~aborted[r]
  /\ StreamingAnswersAreRead
  /\ BusyForARequest

(* The part of the invariant that the recordings have. *)
VoiceInv ==
  /\ recording \in {"idle", "recording", "recorded", "failed"}
  /\ recorders \in [Recordings -> {"unused", "asking", "running", "stopping", "ended"}]
  /\ recorder \in {None} \cup Recordings /\ stream \in {None} \cup Recordings
  /\ cleanup \in BOOLEAN
  /\ RecordingCanBeStopped

LEMMA VoicePart == ChatInv => VoiceInv
BY DEF ChatInv, ChatTypeOK, VoiceInv

(* The steps of the recordings. *)
RecordingStep ==
  \/ \E n \in Recordings : \/ StartRecording(n) \/ RecordingStarts(n) \/ RecordingFails(n)
                          \/ MicrophoneLost(n) \/ RecordingStopped(n)
  \/ StopRecording \/ Discard \/ Cleanup

(* Stopping the tracks ends no recorder: one that runs owes its stop event. *)
LEMMA TracksStop ==
  ASSUME NEW rs \in [Recordings -> {"unused", "asking", "running", "stopping", "ended"}], StopTracks(rs)
  PROVE  /\ recorders' \in [Recordings -> {"unused", "asking", "running", "stopping", "ended"}]
         /\ stream' = None
         /\ \A n \in Recordings : rs[n] \in {"running", "stopping"} => recorders'[n] \in {"running", "stopping"}
BY DEF StopTracks

(* They leave the conversation and its requests alone, and keep their part *)
(* of the invariant.                                                       *)
LEMMA RecordingSteps ==
  ASSUME VoiceInv, RecordingStep
  PROVE  UNCHANGED <<chat, sent, phase, aborted, got, epoch>> /\ VoiceInv'
<1> USE DEF VoiceInv, RecordingCanBeStopped, UrlMayChange
<1>1. ASSUME NEW n \in Recordings, StartRecording(n)
      PROVE  UNCHANGED <<chat, sent, phase, aborted, got, epoch>> /\ VoiceInv'
  <2>1. [recorders EXCEPT ![n] = "asking"]
          \in [Recordings -> {"unused", "asking", "running", "stopping", "ended"}]
    OBVIOUS
  <2> QED
    BY <1>1, <2>1, TracksStop DEF StartRecording
<1>2. ASSUME NEW n \in Recordings, RecordingStarts(n)
      PROVE  UNCHANGED <<chat, sent, phase, aborted, got, epoch>> /\ VoiceInv'
  BY <1>2 DEF RecordingStarts, Recordings, None
<1>3. ASSUME NEW n \in Recordings, RecordingFails(n)
      PROVE  UNCHANGED <<chat, sent, phase, aborted, got, epoch>> /\ VoiceInv'
  <2>1. [recorders EXCEPT ![n] = "ended"]
          \in [Recordings -> {"unused", "asking", "running", "stopping", "ended"}]
    OBVIOUS
  <2> QED
    BY <1>3, <2>1, TracksStop DEF RecordingFails
<1>4. ASSUME NEW n \in Recordings, MicrophoneLost(n)
      PROVE  UNCHANGED <<chat, sent, phase, aborted, got, epoch>> /\ VoiceInv'
  BY <1>4 DEF MicrophoneLost
<1>5. ASSUME NEW n \in Recordings, RecordingStopped(n)
      PROVE  UNCHANGED <<chat, sent, phase, aborted, got, epoch>> /\ VoiceInv'
  <2>1. [recorders EXCEPT ![n] = "ended"]
          \in [Recordings -> {"unused", "asking", "running", "stopping", "ended"}]
    OBVIOUS
  <2> QED
    BY <1>5, <2>1, TracksStop DEF RecordingStopped
<1>6. CASE StopRecording
  BY <1>6 DEF StopRecording
<1>7. CASE Discard
  BY <1>7, TracksStop DEF Discard, discardRecording
<1>8. CASE Cleanup
  BY <1>8, TracksStop DEF Cleanup
<1> QED
  BY <1>1, <1>2, <1>3, <1>4, <1>5, <1>6, <1>7, <1>8 DEF RecordingStep

(* A recording that is discarded leaves nothing to stop. *)
LEMMA Discarded ==
  ASSUME VoiceInv, discardRecording, UrlMayChange \/ UNCHANGED cleanup
  PROVE  VoiceInv'
BY TracksStop DEF VoiceInv, discardRecording, RecordingCanBeStopped, UrlMayChange

(* A question is sent. *)
LEMMA BeginKeeps ==
  ASSUME ChatInv, NEW r \in Requests, SendQuestion(r) \/ SendRecordedAudio(r)
  PROVE  ChatInv'
<1> USE ChatAssumption DEF ChatInv, ChatTypeOK, StreamingAnswersAreRead, BusyForARequest, IsActive, Requests,
                           RecordingCanBeStopped, None, voice
<1>1. CASE SendQuestion(r)
  BY <1>1 DEF SendQuestion, Begin
<1>2. CASE SendRecordedAudio(r)
  BY <1>2 DEF SendRecordedAudio, Begin
<1> QED
  BY <1>1, <1>2

(* The end of a request leaves no answer streaming and frees the page. *)
LEMMA FinishKeeps ==
  ASSUME ChatInv, NEW r \in Requests, IsActive(r),
         NEW m \in [Requests -> {"none", "streaming", "complete"}],
         \A q \in Requests \ {r} : m[q] = messages[q],
         Finish(r, m), UNCHANGED <<conversationId, sent, aborted, epoch>>,
         got' \in [Requests -> Stream!Events \cup {"start"}],
         VoiceInv'
  PROVE  ChatInv'
<1>1. ChatTypeOK' /\ RecordingCanBeStopped'
  BY DEF VoiceInv, ChatInv, ChatTypeOK, Finish, sent
<1>2. \A q \in Requests : phase'[q] = "unused" => ~aborted'[q]
  BY DEF ChatInv, ChatTypeOK, Finish
<1>3. StreamingAnswersAreRead' /\ BusyForARequest'
  BY DEF ChatInv, ChatTypeOK, StreamingAnswersAreRead, BusyForARequest, IsActive, Requests, None, Finish
<1> QED
  BY <1>1, <1>2, <1>3 DEF ChatInv

LEMMA FailKeeps ==
  ASSUME ChatInv, NEW r \in Requests, IsActive(r), Fail(r), UNCHANGED <<sent, epoch>>
  PROVE  ChatInv'
<1> DEFINE m == IF kind[r] = "audio" /\ got[r] = "start"
                THEN [messages EXCEPT ![r] = "complete"] ELSE messages
<1>1. /\ m \in [Requests -> {"none", "streaming", "complete"}]
      /\ \A q \in Requests \ {r} : m[q] = messages[q]
  BY DEF ChatInv, ChatTypeOK
<1>2. Finish(r, m)
  BY DEF Fail
<1> HIDE DEF m
<1> QED
  BY <1>1, <1>2, FinishKeeps DEF Fail, ChatInv, ChatTypeOK, VoiceInv, RecordingCanBeStopped, voice

LEMMA CompleteKeeps ==
  ASSUME ChatInv, NEW r \in Requests, IsActive(r), Complete(r),
         UNCHANGED <<conversationId, sent, aborted, epoch>>,
         got' \in [Requests -> Stream!Events \cup {"start"}]
  PROVE  ChatInv'
<1>1. Finish(r, messages)
  BY DEF Complete
<1>2. VoiceInv'
  <2>1. CASE UNCHANGED voice
    BY <2>1, VoicePart DEF VoiceInv, RecordingCanBeStopped, voice
  <2> QED
    BY <2>1, VoicePart, Discarded DEF Complete
<1> QED
  BY <1>1, <1>2, FinishKeeps DEF ChatInv, ChatTypeOK

(* A step of a request under way. *)
LEMMA RequestKeeps ==
  ASSUME ChatInv, NEW r \in Requests, Progress(r) \/ StreamCut(r)
  PROVE  ChatInv'
<1>1. CASE GetToken(r)
  <2>1. CASE ~aborted[r] /\ phase' = [phase EXCEPT ![r] = "fetch"] /\ UNCHANGED <<chat, voice, aborted, got>>
    BY <1>1, <2>1 DEF GetToken, ChatInv, ChatTypeOK, StreamingAnswersAreRead, BusyForARequest, IsActive,
       RecordingCanBeStopped, Requests, None, chat, voice, sent
  <2>2. CASE Finish(r, messages) /\ UNCHANGED <<conversationId, voice, aborted, got>>
    BY <1>1, <2>2, FinishKeeps, VoicePart
       DEF GetToken, ChatInv, ChatTypeOK, IsActive, VoiceInv, RecordingCanBeStopped, voice
  <2>3. CASE Fail(r)
    BY <1>1, <2>3, FailKeeps DEF GetToken, IsActive
  <2> QED
    BY <1>1, <2>1, <2>2, <2>3 DEF GetToken
<1>2. CASE Respond(r)
  <2>1. CASE phase' = [phase EXCEPT ![r] = "reading"] /\ UNCHANGED <<chat, voice, aborted, got>>
    BY <1>2, <2>1 DEF Respond, ChatInv, ChatTypeOK, StreamingAnswersAreRead, BusyForARequest, IsActive,
       RecordingCanBeStopped, Requests, None, chat, voice, sent
  <2>2. CASE Fail(r)
    BY <1>2, <2>2, FailKeeps DEF Respond, IsActive
  <2> QED
    BY <1>2, <2>1, <2>2 DEF Respond
<1>3. ASSUME NEW e \in Stream!Events, Frame(r, e)
      PROVE  IsActive(r) /\ got' \in [Requests -> Stream!Events \cup {"start"}]
  BY <1>3 DEF Frame, IsActive, ChatInv, ChatTypeOK
<1>4. CASE ReadTranscript(r)
  <2>1. IsActive(r) /\ got' \in [Requests -> Stream!Events \cup {"start"}]
    BY <1>3, <1>4 DEF ReadTranscript, Stream!Events
  <2> QED
    BY <1>4, <2>1 DEF ReadTranscript, ChatInv, ChatTypeOK, StreamingAnswersAreRead, BusyForARequest, IsActive,
       RecordingCanBeStopped, Requests, None, voice, sent
<1>5. CASE ReadMetadata(r)
  <2>1. got' \in [Requests -> Stream!Events \cup {"start"}]
    BY <1>3, <1>5 DEF ReadMetadata, Stream!Events
  <2> QED
    BY <1>5, <2>1 DEF ReadMetadata, Conversation, ChatInv, ChatTypeOK, StreamingAnswersAreRead,
       RecordingCanBeStopped, BusyForARequest, IsActive, Requests, None, voice, sent
<1>6. CASE ReadContent(r)
  <2>1. got' \in [Requests -> Stream!Events \cup {"start"}]
    BY <1>3, <1>6 DEF ReadContent, Stream!Events
  <2> QED
    BY <1>6, <2>1 DEF ReadContent, ChatInv, ChatTypeOK, StreamingAnswersAreRead, BusyForARequest, IsActive,
       RecordingCanBeStopped, Requests, None, chat, voice, sent
<1>7. CASE ReadEnd(r)
  <2>1. IsActive(r) /\ got' \in [Requests -> Stream!Events \cup {"start"}]
    BY <1>3, <1>7 DEF ReadEnd, Stream!Events
  <2> QED
    BY <1>7, <2>1, CompleteKeeps DEF ReadEnd
<1>8. CASE StreamCut(r)
  <2>1. IsActive(r)
    BY <1>8 DEF StreamCut, IsActive
  <2>2. CASE Complete(r) /\ UNCHANGED <<conversationId, aborted, got>>
    BY <1>8, <2>1, <2>2, CompleteKeeps DEF StreamCut, ChatInv, ChatTypeOK
  <2>3. CASE Fail(r)
    BY <1>8, <2>1, <2>3, FailKeeps DEF StreamCut
  <2> QED
    BY <1>8, <2>2, <2>3 DEF StreamCut
<1> QED
  BY <1>1, <1>2, <1>4, <1>5, <1>6, <1>7, <1>8 DEF Progress

(* "New conversation". *)
LEMMA ResetKeeps ==
  ASSUME ChatInv, resetConversation
  PROVE  ChatInv'
<1>0. VoiceInv'
  BY VoicePart, Discarded DEF resetConversation, Cleared
<1> USE DEF ChatInv, ChatTypeOK, resetConversation, Cleared
<1>1. epoch' \in 0..MaxResets
  BY ChatAssumption
<1>2. /\ phase' \in [Requests -> {"unused", "token", "fetch", "reading", "ended"}]
      /\ messages' \in [Requests -> {"none", "streaming", "complete"}]
  OBVIOUS
<1>3. aborted' \in [Requests -> BOOLEAN]
  <2>1. \A r \in Requests : (aborted[r] \/ (r = controller /\ phase[r] = "token")) \in BOOLEAN
    OBVIOUS
  <2> QED
    BY <2>1
<1>4. ChatTypeOK' /\ RecordingCanBeStopped'
  BY <1>0, <1>1, <1>2, <1>3 DEF sent, VoiceInv
<1>5. \A r \in Requests : phase'[r] = "unused" => ~aborted'[r]
  OBVIOUS
<1>6. StreamingAnswersAreRead' /\ BusyForARequest'
  BY DEF StreamingAnswersAreRead, BusyForARequest
<1> QED
  BY <1>1, <1>4, <1>5, <1>6

(* The invariant holds at the start. *)
LEMMA ChatStarts == ChatInit => ChatInv
<1> SUFFICES ASSUME ChatInit  PROVE ChatInv
  OBVIOUS
<1>1. ChatTypeOK
  <2>1. 0 \in 0..MaxResets
    BY ChatAssumption
  <2>2. aborted \in [Requests -> BOOLEAN] /\ got \in [Requests -> Stream!Events \cup {"start"}]
    BY DEF ChatInit
  <2> QED
    BY <2>1, <2>2 DEF ChatInit, ChatTypeOK
<1> QED
  BY <1>1, ChatAssumption DEF ChatInit, ChatInv, RecordingCanBeStopped, StreamingAnswersAreRead, BusyForARequest

(* The invariant holds of every reachable state. *)
THEOREM ChatInvariant == ChatSpec => []ChatInv
<1>1. ChatInv /\ [ChatNext]_chatVars => ChatInv'
  <2> SUFFICES ASSUME ChatInv, [ChatNext]_chatVars  PROVE ChatInv'
    OBVIOUS
  <2>1. CASE RecordingStep
    BY <2>1, VoicePart, RecordingSteps
       DEF VoiceInv, ChatInv, ChatTypeOK, StreamingAnswersAreRead, BusyForARequest, IsActive, chat, sent
  <2>2. CASE UNCHANGED chatVars
    BY <2>2 DEF chatVars, chat, voice, sent, ChatInv, ChatTypeOK, StreamingAnswersAreRead, BusyForARequest,
                IsActive, RecordingCanBeStopped
  <2> QED
    BY <2>1, <2>2, BeginKeeps, RequestKeeps, ResetKeeps DEF ChatNext, RecordingStep
<1> QED
  BY <1>1, ChatStarts, PTL DEF ChatSpec

(* However many recordings are asked for at once, a page that shows one can *)
(* stop it, or its stop event is on the way (RecordingCanBeStopped;         *)
(* startRecording, discardRecording and the effect on the audio URL).       *)
THEOREM RecordingsCanBeStopped == ChatSpec => []RecordingCanBeStopped
<1>1. ChatInv => RecordingCanBeStopped
  BY DEF ChatInv
<1> QED
  BY <1>1, ChatInvariant, PTL

(* However questions overlap, fail or are reset, an answer that streams on *)
(* the page is still being read (StreamingAnswersAreRead; sendQuestion and *)
(* sendRecordedAudio of page.js end their message on every way out).       *)
THEOREM NoAnswerStreamsForEver == ChatSpec => []StreamingAnswersAreRead
<1>1. ChatInv => StreamingAnswersAreRead
  BY DEF ChatInv
<1> QED
  BY <1>1, ChatInvariant, PTL

(* However questions overlap, the page is busy only for one of them that   *)
(* is at work, and can abort only such a one (BusyForARequest; the ends of *)
(* sendQuestion and sendRecordedAudio, and resetConversation).             *)
THEOREM NeverBusyForNothing == ChatSpec => []BusyForARequest
<1>1. ChatInv => BusyForARequest
  BY DEF ChatInv
<1> QED
  BY <1>1, ChatInvariant, PTL

-------------------------------------------------------------------------------
(* The conversation, where questions cannot overlap: they are typed and    *)
(* wait for no token.  Otherwise two requests share one abort reference,   *)
(* and NewConversationIsNew is false.                                      *)

OneAtATime == "audio" \notin Kinds /\ ~Jwt

(* A request under way is the one the page can abort, it was asked since   *)
(* the last reset, and its conversation is the page's if that has one.     *)
ActiveInv(r) ==
  IsActive(r) =>
    /\ phase[r] # "token" /\ controller = r /\ isSending
    /\ born[r] = epoch
    /\ conversationId # None => conversationId = Conversation(r)

(* What a request continues was made for one of the same time.             *)
AskedInv(r) ==
  phase[r] # "unused" /\ asked[r] # None => phase[asked[r]] # "unused" /\ born[asked[r]] = born[r]

ConversationInv ==
  /\ ChatInv
  /\ conversationId # None => phase[conversationId] # "unused" /\ born[conversationId] = epoch
  /\ \A r \in Requests : ActiveInv(r) /\ AskedInv(r)

(* What a step of a request can change, if it reads no metadata. *)
LEMMA RequestSteps ==
  ASSUME ConversationInv, OneAtATime, NEW r \in Requests,
         Progress(r) \/ StreamCut(r), ~ReadMetadata(r)
  PROVE  /\ UNCHANGED <<conversationId, asked, born, epoch>>
         /\ phase[r] \in {"fetch", "reading"}
         /\ \/ /\ phase' = phase \/ phase' = [phase EXCEPT ![r] = "reading"]
               /\ UNCHANGED <<controller, isSending>>
            \/ phase' = [phase EXCEPT ![r] = "ended"]
BY DEF ConversationInv, ActiveInv, IsActive, OneAtATime, ChatInv, ChatTypeOK, Progress, StreamCut, GetToken,
       Respond, ReadTranscript, ReadContent, ReadEnd, Frame, Fail, Complete, Finish, chat, sent

(* Each step keeps one conversation at a time, and none of an earlier time. *)
LEMMA ConversationStep ==
  ASSUME ConversationInv, OneAtATime, [ChatNext]_chatVars, ChatInv'
  PROVE  /\ ConversationInv'
         /\ conversationId' # conversationId => conversationId = None \/ conversationId' = None
<1> USE DEF ConversationInv, ActiveInv, AskedInv, IsActive, Conversation
<1>1. ASSUME NEW r \in Requests, SendQuestion(r)
      PROVE  /\ ConversationInv'
             /\ conversationId' # conversationId => conversationId = None \/ conversationId' = None
  <2>1. phase' = [phase EXCEPT ![r] = "fetch"] /\ ~isSending /\ UNCHANGED <<conversationId, epoch>>
    BY <1>1 DEF SendQuestion, Begin, OneAtATime
  <2>2. \A q \in Requests : ~IsActive(q)
    BY <2>1
  <2>3. asked' = [asked EXCEPT ![r] = conversationId] /\ born' = [born EXCEPT ![r] = epoch]
        /\ isSending' /\ controller' = r /\ phase[r] = "unused"
    BY <1>1 DEF SendQuestion, Begin
  <2> QED
    BY <2>1, <2>2, <2>3 DEF ChatInv, ChatTypeOK
<1>2. ASSUME NEW r \in Requests, SendRecordedAudio(r)
      PROVE  FALSE
  BY <1>2 DEF SendRecordedAudio, Begin, OneAtATime
<1>3. ASSUME NEW r \in Requests, ReadMetadata(r)
      PROVE  /\ ConversationInv'
             /\ conversationId' # conversationId => conversationId = None \/ conversationId' = None
  <2>1. /\ phase[r] = "reading" /\ conversationId' = Conversation(r)
        /\ UNCHANGED <<phase, isSending, controller, asked, born, epoch>>
    BY <1>3 DEF ReadMetadata, Frame, sent
  <2> QED
    BY <2>1 DEF ChatInv, ChatTypeOK, None, Requests
<1>4. ASSUME NEW r \in Requests, Progress(r) \/ StreamCut(r), ~ReadMetadata(r)
      PROVE  ConversationInv' /\ conversationId' = conversationId
  <2>1. \A q \in Requests \ {r} : ~IsActive(q)
    BY <1>4, RequestSteps
  <2>2. UNCHANGED <<conversationId, asked, born, epoch>> /\ phase[r] \in {"fetch", "reading"}
    BY <1>4, RequestSteps
  <2>3. CASE /\ phase' = phase \/ phase' = [phase EXCEPT ![r] = "reading"]
             /\ UNCHANGED <<controller, isSending>>
    <3>1. \A q \in Requests :
            /\ IsActive(q)' <=> IsActive(q)
            /\ phase'[q] = "unused" <=> phase[q] = "unused"
            /\ phase'[q] = "token" => phase[q] = "token"
      BY <2>2, <2>3 DEF ChatInv, ChatTypeOK
    <3> QED
      BY <2>2, <2>3, <3>1 DEF ChatInv, ChatTypeOK
  <2>4. CASE phase' = [phase EXCEPT ![r] = "ended"]
    BY <2>1, <2>2, <2>4 DEF ChatInv, ChatTypeOK
  <2> QED
    BY <1>4, <2>3, <2>4, RequestSteps
<1>5. CASE RecordingStep
  BY <1>5, VoicePart, RecordingSteps DEF chat, sent, ChatInv
<1>6. CASE resetConversation
  <2>1. \A r \in Requests : phase'[r] = phase[r] \/ (phase[r] # "unused" /\ phase'[r] = "ended")
    BY <1>6 DEF resetConversation, ChatInv, BusyForARequest, ChatTypeOK, None, Requests
  <2>2. \A r \in Requests : ~IsActive(r)'
    BY <1>6 DEF resetConversation, ChatInv, ChatTypeOK
  <2> QED
    BY <1>6, <2>1, <2>2 DEF resetConversation, Cleared, sent, ChatInv, ChatTypeOK
<1>7. CASE UNCHANGED chatVars
  BY <1>7 DEF chatVars, chat, sent
<1> QED
  BY <1>1, <1>2, <1>3, <1>4, <1>5, <1>6, <1>7 DEF ChatNext, RecordingStep

(* The invariant holds of every reachable state. *)
LEMMA ConversationInvariant ==
  ASSUME OneAtATime
  PROVE  ChatSpec => []ConversationInv
<1>1. ChatInit => ConversationInv
  BY ChatStarts DEF ChatInit, ConversationInv, ActiveInv, AskedInv, IsActive
<1>2. ConversationInv /\ ChatInv' /\ [ChatNext]_chatVars => ConversationInv'
  BY ConversationStep
<1> QED
  BY <1>1, <1>2, ChatInvariant, PTL DEF ChatSpec

(* Typed questions without tokens: after "New conversation" no question    *)
(* continues the conversation of an earlier one (NewConversationIsNew;     *)
(* resetConversation of page.js aborts the one request there can be).      *)
THEOREM NewConversationsAreNew ==
  ASSUME OneAtATime
  PROVE  ChatSpec => []NewConversationIsNew
<1>1. ConversationInv => NewConversationIsNew
  BY DEF ConversationInv, AskedInv, NewConversationIsNew
<1> QED
  BY <1>1, ConversationInvariant, PTL

(* Typed questions without tokens: the questions between two resets share  *)
(* one conversation (OneConversationAtATime; readEventStream of page.js).  *)
THEOREM OneConversation ==
  ASSUME OneAtATime
  PROVE  ChatSpec => OneConversationAtATime
<1>1. ConversationInv /\ ChatInv' /\ [ChatNext]_chatVars
        => [conversationId' # conversationId => conversationId = None \/ conversationId' = None]_chatVars
  BY ConversationStep
<1> QED
  BY <1>1, ConversationInvariant, ChatInvariant, PTL DEF ChatSpec, OneConversationAtATime
===============================================================================
