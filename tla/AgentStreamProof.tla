---------------------------- MODULE AgentStreamProof ----------------------------
(***************************************************************************)
(* For answers of any length: the events keep the order of the contract,   *)
(* are understood without their names, and end as the failures and the     *)
(* finalization mode ask.                                                  *)
(***************************************************************************)
EXTENDS AgentStream, TLAPS

Frames == {"transcript", "metadata", "token", "references", "usage", "done", "error"}
Last == IF out = <<>> THEN "start" ELSE out[Len(out)]

Opening == {"transcript", "client", "conversation", "metadata"}
Answering == {"open", "reading"}
Closing == {"finalize", "references", "usage", "done"}

(* The place of the generator tells the event it sent last. *)
LastFits ==
  /\ pc = "transcript" => Last = "start"
  /\ pc \in Opening => Last \in {"start", "transcript"}
  /\ pc = "open" => Last = "metadata"
  /\ pc \in {"reading", "finalize", "references"} => Last \in {"metadata", "token"}
  /\ pc = "usage" => Last = "references"
  /\ pc = "done" => Last \in {"references", "usage"}

(* The conversation is named once before the answer. *)
NamesFit ==
  /\ pc \in Opening => ~Sent("metadata")
  /\ pc \in Answering \cup Closing => Sent("metadata")
  /\ NamelessFramesAreUnderstood

(* Only a parser failure after a token lets the generator go on. *)
FailuresFit ==
  /\ pc \notin {"ended", "abandoned"} => ~Sent("error")
  /\ pc \in Opening \cup Answering => raised = "none"
  /\ pc \in Closing => raised = "none" \/ (raised = "parser" /\ tokens > 0)
  /\ FailuresAreReportedOnce

RetrievedAsConfigured ==
  /\ mode = "never" => ~retrieved
  /\ mode = "always" => retrieved = responseId
  /\ mode = "auto" /\ responseId /\ ~retrieved => ~HasMissingFinalMetadata

(* What the final events rest on, place by place. *)
DataFit ==
  /\ pc \notin {"ended", "abandoned"} => ~Sent("done")
  /\ pc \in Opening \cup Answering \cup {"finalize", "references"}
       => ~Sent("references") /\ ~Sent("usage")
  /\ pc \in Opening \cup Answering \cup {"finalize"} => ~retrieved
  /\ pc \in {"references", "usage", "done"} => RetrievedAsConfigured
  /\ pc = "usage" => usage # "none" /\ ~Sent("usage")
  /\ pc = "done" => (Sent("usage") <=> usage # "none")
  /\ FinalDataAsConfigured

(* No token comes before its stream. *)
TokensFit == pc \in Opening \cup {"open"} => tokens = 0

IInv == TypeOK /\ TokensFit /\ LastFits /\ NamesFit /\ FailuresFit /\ DataFit

-------------------------------------------------------------------------------
(* What sending an event changes. *)

LEMMA Appended ==
  ASSUME NEW e \in Frames, out \in Seq(Frames), Send(e)
  PROVE  /\ out' \in Seq(Frames)
         /\ out' # <<>> /\ Len(out') = Len(out) + 1 /\ Len(out) \in Nat
         /\ out'[Len(out) + 1] = e
         /\ \A i \in 1..Len(out) : out'[i] = out[i]
         /\ Last' = e
BY DEF Send, Last, Frames

LEMMA SentAfter ==
  ASSUME NEW e \in Frames, out \in Seq(Frames), Send(e), NEW f
  PROVE  Sent(f)' <=> (Sent(f) \/ f = e)
<1>1. /\ out' \in Seq(Frames)
      /\ Len(out') = Len(out) + 1 /\ Len(out) \in Nat
      /\ out'[Len(out) + 1] = e
      /\ \A i \in 1..Len(out) : out'[i] = out[i]
  BY Appended
<1>2. DOMAIN out = 1..Len(out) /\ DOMAIN out' = 1..(Len(out) + 1)
  BY <1>1
<1>3. ASSUME Sent(f)' PROVE Sent(f) \/ f = e
  <2>1. PICK i \in DOMAIN out' : out'[i] = f
    BY <1>3 DEF Sent
  <2>2. CASE i = Len(out) + 1
    BY <2>1, <2>2, <1>1
  <2>3. CASE i \in 1..Len(out)
    BY <2>1, <2>3, <1>1, <1>2 DEF Sent
  <2> QED BY <2>2, <2>3, <1>1, <1>2
<1>4. ASSUME Sent(f) PROVE Sent(f)'
  BY <1>4, <1>1, <1>2 DEF Sent
<1>5. ASSUME f = e PROVE Sent(f)'
  <2>1. Len(out) + 1 \in DOMAIN out'
    BY <1>1, <1>2
  <2> QED BY <2>1, <1>5, <1>1 DEF Sent
<1> QED BY <1>3, <1>4, <1>5

(* An event is understood if its kind shows, or if it names the            *)
(* conversation first as "metadata" and then as "done".                    *)
LEMMA StillUnderstood ==
  ASSUME NEW e \in Frames, out \in Seq(Frames), Send(e),
         NamelessFramesAreUnderstood,
         e = "metadata" => ~Sent("metadata"),
         e = "done" => Sent("metadata")
  PROVE  NamelessFramesAreUnderstood'
<1>1. /\ out' \in Seq(Frames)
      /\ Len(out') = Len(out) + 1 /\ Len(out) \in Nat
      /\ out'[Len(out) + 1] = e
      /\ \A i \in 1..Len(out) : out'[i] = out[i]
  BY Appended
<1>2. DOMAIN out = 1..Len(out) /\ DOMAIN out' = 1..(Len(out) + 1)
  BY <1>1
<1>3. SUFFICES ASSUME NEW i \in DOMAIN out'
      PROVE Inferred(out'[i], \E j \in 1..(i - 1) : out'[j] = "metadata") = out'[i]
  BY DEF NamelessFramesAreUnderstood
<1>4. CASE i \in 1..Len(out)
  <2>1. Inferred(out[i], \E j \in 1..(i - 1) : out[j] = "metadata") = out[i]
    BY <1>4, <1>2 DEF NamelessFramesAreUnderstood
  <2>2. \A j \in 1..(i - 1) : out'[j] = out[j]
    BY <1>1, <1>4
  <2>3. (\E j \in 1..(i - 1) : out'[j] = "metadata") <=> (\E j \in 1..(i - 1) : out[j] = "metadata")
    BY <2>2
  <2> QED BY <2>1, <2>3, <1>1, <1>4 DEF Inferred
<1>5. CASE i = Len(out) + 1
  <2>1. (\E j \in 1..(i - 1) : out'[j] = "metadata") <=> Sent("metadata")
    BY <1>1, <1>2, <1>5 DEF Sent
  <2> QED BY <2>1, <1>1, <1>5 DEF Inferred
<1>6. i \in 1..Len(out) \/ i = Len(out) + 1
  BY <1>1, <1>2
<1> QED BY <1>4, <1>5, <1>6, Zenon

-------------------------------------------------------------------------------
LEMMA InitFits == Init => IInv
<1> SUFFICES ASSUME Init PROVE IInv
  OBVIOUS
<1>1. out = <<>> /\ pc \in {"transcript", "client"} /\ raised = "none" /\ ~retrieved
      /\ (pc = "transcript" \/ pc = "client") /\ references = {} /\ usage = "none" /\ ~responseId
  BY DEF Init
<1>2. \A f : ~Sent(f)
  BY <1>1 DEF Sent
<1>3. TypeOK
  <2>1. out \in Seq({"transcript", "metadata", "token", "references", "usage", "done", "error"})
    BY <1>1
  <2>2. pc \in Places /\ mode \in Modes /\ voice \in BOOLEAN
    BY <1>1 DEF Init, Places
  <2>3. responseId \in BOOLEAN /\ references \in SUBSET Sources /\ usage \in {"none"} \cup Sources
    BY <1>1 DEF Init
  <2>4. tokens \in 0..MaxTokens /\ others \in 0..MaxOthers
    BY BoundsAssumption DEF Init
  <2>5. upstream = "working" /\ raised = "none" /\ retrieved = FALSE
    BY DEF Init
  <2> QED BY <2>1, <2>2, <2>3, <2>4, <2>5 DEF TypeOK
<1>4. Last = "start"
  BY <1>1 DEF Last
<1>5. LastFits
  BY <1>1, <1>4 DEF LastFits, Opening
<1>6. NamesFit
  BY <1>1, <1>2 DEF NamesFit, NamelessFramesAreUnderstood, Answering, Closing
<1>7. FailuresFit
  BY <1>1, <1>2 DEF FailuresFit, FailuresAreReportedOnce, Opening, Answering, Closing
<1>8. DataFit
  BY <1>1, <1>2 DEF DataFit, FinalDataAsConfigured, Opening, Answering, Closing
<1>9. TokensFit
  BY DEF Init, TokensFit
<1> QED BY <1>3, <1>5, <1>6, <1>7, <1>8, <1>9 DEF IInv

LEMMA TypeStep ==
  ASSUME TypeOK, Next
  PROVE  TypeOK'
<1> USE BoundsAssumption DEF TypeOK, Places, Sources, Modes, setting, state, Goto
<1>1. ASSUME NEW e \in Frames, Send(e) PROVE out' \in Seq(Frames)
  BY <1>1, Appended DEF Frames
<1>2. CASE SendTranscript
  BY <1>1, <1>2 DEF SendTranscript, Frames
<1>3. CASE CreateClient
  BY <1>1, <1>3 DEF CreateClient, Fails, Handle, Frames
<1>4. CASE ResolveConversation
  BY <1>1, <1>4 DEF ResolveConversation, Fails, Handle, Frames
<1>5. CASE SendMetadata
  BY <1>1, <1>5 DEF SendMetadata, Frames
<1>6. CASE OpenStream
  BY <1>1, <1>6 DEF OpenStream, Fails, Handle, Frames
<1>7. CASE ReadToken
  BY <1>1, <1>7 DEF ReadToken, Frames
<1>8. CASE ReadOther
  <2>1. responseId' \in BOOLEAN
    BY <1>8 DEF ReadOther
  <2>2. references' \in SUBSET Sources
    BY <1>8 DEF ReadOther
  <2>3. usage' \in {"none"} \cup Sources /\ others' \in 0..MaxOthers
    BY <1>8 DEF ReadOther
  <2> QED BY <1>8, <2>1, <2>2, <2>3 DEF ReadOther
<1>9. CASE StreamEnds
  BY <1>9 DEF StreamEnds
<1>10. CASE StreamBreaks
  BY <1>1, <1>10 DEF StreamBreaks, Fails, Handle, Frames
<1>11. CASE SkipRetrieve
  BY <1>11 DEF SkipRetrieve
<1>12. CASE Retrieve
  BY <1>12 DEF Retrieve
<1>13. CASE SendReferences
  BY <1>1, <1>13 DEF SendReferences, Frames
<1>14. CASE SendUsage
  BY <1>1, <1>14 DEF SendUsage, Frames
<1>15. CASE SendDone
  BY <1>1, <1>15 DEF SendDone, Frames
<1>16. CASE Disconnect
  BY <1>16 DEF Disconnect
<1>17. CASE Ended
  BY <1>17 DEF Ended, vars
<1> QED BY <1>2, <1>3, <1>4, <1>5, <1>6, <1>7, <1>8, <1>9, <1>10, <1>11, <1>12, <1>13,
           <1>14, <1>15, <1>16, <1>17 DEF Next

(* Each part of the invariant is kept by every step. *)

LEMMA TokensStep ==
  ASSUME TokensFit, Next
  PROVE  TokensFit'
BY DEF TokensFit, Opening, Goto, setting, state, vars, Next, SendTranscript, CreateClient,
   ResolveConversation, SendMetadata, OpenStream, ReadToken, ReadOther, StreamEnds,
   StreamBreaks, SkipRetrieve, Retrieve, SendReferences, SendUsage, SendDone, Disconnect,
   Ended, Fails, Handle

LEMMA LastStep ==
  ASSUME TypeOK, TokensFit, LastFits, Next
  PROVE  LastFits'
<1> USE DEF TokensFit, LastFits, Opening, Goto, setting, state, Places
<1>1. out \in Seq(Frames)
  BY DEF TypeOK, Frames
<1>2. ASSUME NEW e \in Frames, Send(e) PROVE Last' = e
  BY <1>1, <1>2, Appended
<1>3. ASSUME out' = out PROVE Last' = Last
  BY <1>3 DEF Last
<1>4. {"transcript", "metadata", "token", "references", "usage", "done", "error"} = Frames
  BY DEF Frames
<1>10. CASE SendTranscript
  BY <1>10, <1>2, <1>4 DEF SendTranscript
<1>11. CASE CreateClient
  BY <1>11, <1>2, <1>3, <1>4 DEF CreateClient, Fails, Handle
<1>12. CASE ResolveConversation
  BY <1>12, <1>2, <1>3, <1>4 DEF ResolveConversation, Fails, Handle
<1>13. CASE SendMetadata
  BY <1>13, <1>2, <1>4 DEF SendMetadata
<1>14. CASE OpenStream
  BY <1>14, <1>2, <1>3, <1>4 DEF OpenStream, Fails, Handle
<1>15. CASE ReadToken
  BY <1>15, <1>2, <1>4 DEF ReadToken
<1>16. CASE ReadOther
  BY <1>16, <1>3 DEF ReadOther
<1>17. CASE StreamEnds
  BY <1>17, <1>3 DEF StreamEnds
<1>18. CASE StreamBreaks
  BY <1>18, <1>2, <1>3, <1>4 DEF StreamBreaks, Fails, Handle
<1>19. CASE SkipRetrieve
  BY <1>19, <1>3 DEF SkipRetrieve, ShouldRetrieve, TypeOK, Modes
<1>20. CASE Retrieve
  BY <1>20, <1>3 DEF Retrieve, ShouldRetrieve, TypeOK
<1>21. CASE SendReferences
  BY <1>21, <1>2, <1>4 DEF SendReferences
<1>22. CASE SendUsage
  BY <1>22, <1>2, <1>4 DEF SendUsage
<1>23. CASE SendDone
  BY <1>23, <1>2, <1>4 DEF SendDone
<1>24. CASE Disconnect
  BY <1>24, <1>3 DEF Disconnect
<1>25. CASE Ended
  BY <1>25, <1>3 DEF Ended, vars
<1> QED BY <1>10, <1>11, <1>12, <1>13, <1>14, <1>15, <1>16, <1>17,
           <1>18, <1>19, <1>20, <1>21, <1>22, <1>23, <1>24, <1>25 DEF Next

LEMMA NamesStep ==
  ASSUME TypeOK, TokensFit, NamesFit, Next
  PROVE  NamesFit'
<1> USE DEF TokensFit, Opening, Answering, Closing, Goto, setting, state
<1>1. out \in Seq(Frames)
  BY DEF TypeOK, Frames
<1>2. ASSUME NEW e \in Frames, Send(e), NEW f PROVE Sent(f)' <=> (Sent(f) \/ f = e)
  BY <1>1, <1>2, SentAfter
<1>3. ASSUME out' = out
      PROVE  /\ Sent("metadata")' <=> Sent("metadata")
             /\ NamelessFramesAreUnderstood' <=> NamelessFramesAreUnderstood
  BY <1>3 DEF NamesFit, Sent, NamelessFramesAreUnderstood
<1>4. ASSUME NEW e \in Frames, Send(e),
             e = "metadata" => ~Sent("metadata"), e = "done" => Sent("metadata")
      PROVE  NamelessFramesAreUnderstood'
  BY <1>1, <1>4, StillUnderstood DEF NamesFit
<1>5. {"transcript", "metadata", "token", "references", "usage", "done", "error"} = Frames
  BY DEF Frames
<1>6. ASSUME NEW kind, Handle(kind), pc \in Opening \cup Answering
      PROVE  NamesFit'
  <2>1. CASE out' = out
    BY <1>6, <2>1, <1>3 DEF NamesFit, Handle
  <2>2. CASE Send("error") /\ pc' = "ended"
    BY <2>2, <1>4, <1>5 DEF NamesFit
  <2> QED BY <1>6, <2>1, <2>2 DEF Handle
<1>10. CASE SendTranscript
  BY <1>10, <1>2, <1>4, <1>5 DEF NamesFit, SendTranscript
<1>11. CASE CreateClient
  BY <1>11, <1>3, <1>6 DEF NamesFit, CreateClient, Fails
<1>12. CASE ResolveConversation
  BY <1>12, <1>3, <1>6 DEF NamesFit, ResolveConversation, Fails
<1>13. CASE SendMetadata
  BY <1>13, <1>2, <1>4, <1>5 DEF NamesFit, SendMetadata
<1>14. CASE OpenStream
  BY <1>14, <1>3, <1>6 DEF NamesFit, OpenStream, Fails
<1>15. CASE ReadToken
  BY <1>15, <1>2, <1>4, <1>5 DEF NamesFit, ReadToken
<1>16. CASE ReadOther
  BY <1>16, <1>3 DEF NamesFit, ReadOther
<1>17. CASE StreamEnds
  BY <1>17, <1>3 DEF NamesFit, StreamEnds
<1>18. CASE StreamBreaks
  BY <1>18, <1>3, <1>6 DEF NamesFit, StreamBreaks, Fails
<1>19. CASE SkipRetrieve
  BY <1>19, <1>3 DEF NamesFit, SkipRetrieve
<1>20. CASE Retrieve
  BY <1>20, <1>3 DEF NamesFit, Retrieve
<1>21. CASE SendReferences
  BY <1>21, <1>2, <1>4, <1>5 DEF NamesFit, SendReferences
<1>22. CASE SendUsage
  BY <1>22, <1>2, <1>4, <1>5 DEF NamesFit, SendUsage
<1>23. CASE SendDone
  BY <1>23, <1>2, <1>4, <1>5 DEF NamesFit, SendDone
<1>24. CASE Disconnect
  BY <1>24, <1>3 DEF NamesFit, Disconnect
<1>25. CASE Ended
  BY <1>25, <1>3 DEF NamesFit, Ended, vars
<1> QED BY <1>10, <1>11, <1>12, <1>13, <1>14, <1>15, <1>16, <1>17,
           <1>18, <1>19, <1>20, <1>21, <1>22, <1>23, <1>24, <1>25 DEF Next

LEMMA FailuresStep ==
  ASSUME TypeOK, FailuresFit, Next
  PROVE  FailuresFit'
<1> USE DEF FailuresFit, FailuresAreReportedOnce, Opening, Answering, Closing, Goto, setting, state
<1>1. out \in Seq(Frames)
  BY DEF TypeOK, Frames
<1>2. ASSUME NEW e \in Frames, Send(e) PROVE Sent("error")' <=> (Sent("error") \/ e = "error")
  BY <1>1, <1>2, SentAfter
<1>3. ASSUME out' = out PROVE Sent("error")' <=> Sent("error")
  BY <1>3 DEF Sent
<1>4. {"transcript", "metadata", "token", "references", "usage", "done", "error"} = Frames /\ tokens \in Nat
  BY BoundsAssumption DEF Frames, TypeOK
<1>10. CASE SendTranscript
  BY <1>10, <1>2, <1>4 DEF SendTranscript
<1>11. CASE CreateClient
  BY <1>11, <1>2, <1>3, <1>4 DEF CreateClient, Fails, Handle
<1>12. CASE ResolveConversation
  BY <1>12, <1>2, <1>3, <1>4 DEF ResolveConversation, Fails, Handle
<1>13. CASE SendMetadata
  BY <1>13, <1>2, <1>4 DEF SendMetadata
<1>14. CASE OpenStream
  BY <1>14, <1>2, <1>3, <1>4 DEF OpenStream, Fails, Handle
<1>15. CASE ReadToken
  BY <1>15, <1>2, <1>4 DEF ReadToken
<1>16. CASE ReadOther
  BY <1>16, <1>3, <1>4 DEF ReadOther
<1>17. CASE StreamEnds
  BY <1>17, <1>3, <1>4 DEF StreamEnds
<1>18. CASE StreamBreaks
  BY <1>18, <1>2, <1>3, <1>4 DEF StreamBreaks, Fails, Handle
<1>19. CASE SkipRetrieve
  BY <1>19, <1>3, <1>4 DEF SkipRetrieve
<1>20. CASE Retrieve
  BY <1>20, <1>3, <1>4 DEF Retrieve
<1>21. CASE SendReferences
  BY <1>21, <1>2, <1>4 DEF SendReferences
<1>22. CASE SendUsage
  BY <1>22, <1>2, <1>4 DEF SendUsage
<1>23. CASE SendDone
  BY <1>23, <1>2, <1>4 DEF SendDone
<1>24. CASE Disconnect
  BY <1>24, <1>3, <1>4 DEF Disconnect
<1>25. CASE Ended
  BY <1>25, <1>3, <1>4 DEF Ended, vars
<1> QED BY <1>10, <1>11, <1>12, <1>13, <1>14, <1>15, <1>16, <1>17,
           <1>18, <1>19, <1>20, <1>21, <1>22, <1>23, <1>24, <1>25 DEF Next

LEMMA DataStep ==
  ASSUME TypeOK, DataFit, Next
  PROVE  DataFit'
<1> USE DEF DataFit, FinalDataAsConfigured, RetrievedAsConfigured, HasMissingFinalMetadata, Opening, Answering, Closing, Goto, setting, state
<1>1. out \in Seq(Frames)
  BY DEF TypeOK, Frames
<1>2. ASSUME NEW e \in Frames, Send(e), NEW f PROVE Sent(f)' <=> (Sent(f) \/ f = e)
  BY <1>1, <1>2, SentAfter
<1>3. ASSUME out' = out, NEW f PROVE Sent(f)' <=> Sent(f)
  BY <1>3 DEF Sent
<1>4. {"transcript", "metadata", "token", "references", "usage", "done", "error"} = Frames
  BY DEF Frames
<1>10. CASE SendTranscript
  BY <1>10, <1>2, <1>4 DEF SendTranscript
<1>11. CASE CreateClient
  BY <1>11, <1>2, <1>3, <1>4 DEF CreateClient, Fails, Handle
<1>12. CASE ResolveConversation
  BY <1>12, <1>2, <1>3, <1>4 DEF ResolveConversation, Fails, Handle
<1>13. CASE SendMetadata
  BY <1>13, <1>2, <1>4 DEF SendMetadata
<1>14. CASE OpenStream
  BY <1>14, <1>2, <1>3, <1>4 DEF OpenStream, Fails, Handle
<1>15. CASE ReadToken
  BY <1>15, <1>2, <1>4 DEF ReadToken
<1>16. CASE ReadOther
  BY <1>16, <1>3 DEF ReadOther
<1>17. CASE StreamEnds
  BY <1>17, <1>3 DEF StreamEnds
<1>18. CASE StreamBreaks
  BY <1>18, <1>2, <1>3, <1>4 DEF StreamBreaks, Fails, Handle
<1>19. CASE SkipRetrieve
  BY <1>19, <1>3 DEF SkipRetrieve, ShouldRetrieve, TypeOK, Modes
<1>20. CASE Retrieve
  BY <1>20, <1>3 DEF Retrieve, ShouldRetrieve, TypeOK
<1>21. CASE SendReferences
  BY <1>21, <1>2, <1>4 DEF SendReferences
<1>22. CASE SendUsage
  BY <1>22, <1>2, <1>4 DEF SendUsage
<1>23. CASE SendDone
  BY <1>23, <1>2, <1>4 DEF SendDone
<1>24. CASE Disconnect
  BY <1>24, <1>3 DEF Disconnect
<1>25. CASE Ended
  BY <1>25, <1>3 DEF Ended, vars
<1> QED BY <1>10, <1>11, <1>12, <1>13, <1>14, <1>15, <1>16, <1>17,
           <1>18, <1>19, <1>20, <1>21, <1>22, <1>23, <1>24, <1>25 DEF Next

-------------------------------------------------------------------------------
THEOREM Invariant == Spec => []IInv
<1>1. IInv /\ [Next]_vars => IInv'
  <2> SUFFICES ASSUME IInv, [Next]_vars PROVE IInv'
    OBVIOUS
  <2>1. CASE Next
    BY <2>1, TypeStep, TokensStep, LastStep, NamesStep, FailuresStep, DataStep DEF IInv
  <2>2. CASE UNCHANGED vars
    BY <2>2 DEF IInv, TypeOK, TokensFit, LastFits, Last, NamesFit, Sent, Inferred,
       NamelessFramesAreUnderstood, FailuresFit, FailuresAreReportedOnce, DataFit,
       FinalDataAsConfigured, RetrievedAsConfigured, HasMissingFinalMetadata,
       vars, setting, state
  <2> QED BY <2>1, <2>2
<1> QED BY InitFits, <1>1, PTL DEF Spec

(* The types of the state (agent/agent.py:121-200). *)
THEOREM Types == Spec => []TypeOK
<1>1. IInv => TypeOK
  BY DEF IInv
<1> QED BY <1>1, Invariant, PTL

(* A reader that gets the events without their names understands each one  *)
(* (ui/app/sse.mjs:28-52).                                                 *)
THEOREM NamelessFrames == Spec => []NamelessFramesAreUnderstood
<1>1. IInv => NamelessFramesAreUnderstood
  BY DEF IInv, NamesFit
<1> QED BY <1>1, Invariant, PTL

(* An answer that ran to its end carries an error exactly if a failure had *)
(* to be reported (agent/agent.py:181-200).                                *)
THEOREM FailuresReported == Spec => []FailuresAreReportedOnce
<1>1. IInv => FailuresAreReportedOnce
  BY DEF IInv, FailuresFit
<1> QED BY <1>1, Invariant, PTL

(* The final data are retrieved as the finalization mode asks              *)
(* (agent/agent.py:284-351).                                               *)
THEOREM FinalData == Spec => []FinalDataAsConfigured
<1>1. IInv => FinalDataAsConfigured
  BY DEF IInv, DataFit
<1> QED BY <1>1, Invariant, PTL

(* The generator implements the stream contract: every event it sends may  *)
(* follow the one before (agent/agent.py:121-200).                         *)
THEOREM Refinement == Spec => InContractOrder
<1>1. Init => Contract!Init
  BY DEF Init, Contract!Init
<1>2. IInv /\ [Next]_vars => [Contract!Next]_(Last)
  <2> SUFFICES ASSUME IInv, [Next]_vars, Last' # Last
               PROVE  Last' \in Contract!Follows(Last)
    BY DEF Contract!Next, Last
  <2>1. out \in Seq(Frames)
    BY DEF IInv, TypeOK, Frames
  <2>2. ASSUME NEW e \in Frames, Send(e) PROVE Last' = e
    BY <2>1, <2>2, Appended
  <2>3. out' # out
    BY DEF Last
  <2>4. Next
    BY <2>3 DEF vars
  <2>5. {"transcript", "metadata", "token", "references", "usage", "done", "error"} = Frames
    BY DEF Frames
  <2>6. ASSUME NEW kind, Handle(kind) PROVE Last' = "error"
    BY <2>2, <2>3, <2>5, <2>6 DEF Handle
  <2>7. CASE Fails /\ pc \in {"client", "conversation", "open", "reading"}
    BY <2>6, <2>7 DEF Fails, IInv, LastFits, Opening, Contract!Follows
  <2>8. CASE SendTranscript
    BY <2>2, <2>5, <2>8 DEF SendTranscript, IInv, LastFits, Contract!Follows
  <2>9. CASE SendMetadata
    BY <2>2, <2>5, <2>9 DEF SendMetadata, IInv, LastFits, Opening, Contract!Follows
  <2>10. CASE ReadToken
    BY <2>2, <2>5, <2>10 DEF ReadToken, IInv, LastFits, Contract!Follows
  <2>11. CASE SendReferences
    BY <2>2, <2>5, <2>11 DEF SendReferences, IInv, LastFits, Contract!Follows
  <2>12. CASE SendUsage
    BY <2>2, <2>5, <2>12 DEF SendUsage, IInv, LastFits, Contract!Follows
  <2>13. CASE SendDone
    BY <2>2, <2>5, <2>13 DEF SendDone, IInv, LastFits, Contract!Follows
  <2> QED
    BY <2>3, <2>4, <2>7, <2>8, <2>9, <2>10, <2>11, <2>12, <2>13
    DEF Next, CreateClient, ResolveConversation, OpenStream, ReadOther, StreamEnds,
        StreamBreaks, SkipRetrieve, Retrieve, Disconnect, Ended, vars
<1> QED BY <1>1, <1>2, Invariant, PTL DEF Spec, InContractOrder, Contract!Spec, Last
===============================================================================
