------------------------------ MODULE AgentStream ------------------------------
(***************************************************************************)
(* One streamed answer of the agent (agent/agent.py), a generator of       *)
(* server-sent events over a Responses API stream.  A voice question is    *)
(* answered by the same generator after its transcript (agent/audio.py).   *)
(* The Responses API is external: it may fail in any call, its stream may  *)
(* break or end at any event, and the SDK hands an event that reports a    *)
(* failed response to its reader like any other.                           *)
(***************************************************************************)
EXTENDS Naturals, Sequences

CONSTANTS
  MaxTokens,   \* bound: tokens of an answer
  MaxOthers    \* bound: events without text

ASSUME BoundsAssumption == MaxTokens \in Nat /\ MaxOthers \in Nat

VARIABLES
  pc,          \* where the generator is
  mode,        \* STREAM_FINALIZATION_MODE
  voice,       \* the stream begins with a transcript
  responseId,  \* StreamState.response_id is known
  references,  \* where StreamState.references come from
  usage,       \* where StreamState.usage comes from, or "none"
  out,         \* the events sent
  tokens,      \* token_events_emitted
  others,      \* events without text read
  upstream,    \* what the Responses API said of the response
  raised,      \* what the stream raised: "none", "parser" or "other"
  retrieved    \* the response was retrieved after its stream

state == <<responseId, references, usage>>
setting == <<mode, voice>>
vars == <<pc, setting, state, out, tokens, others, upstream, raised, retrieved>>

Modes == {"never", "auto", "always"}
Sources == {"stream", "retrieve"}
Places == {"transcript", "client", "conversation", "metadata", "open", "reading", "finalize",
           "references", "usage", "done", "ended", "abandoned"}

Init ==
  /\ mode \in Modes /\ voice \in BOOLEAN
  /\ pc = IF voice THEN "transcript" ELSE "client"
  /\ responseId = FALSE /\ references = {} /\ usage = "none"
  /\ out = <<>> /\ tokens = 0 /\ others = 0
  /\ upstream = "working" /\ raised = "none" /\ retrieved = FALSE

Send(e) == out' = Append(out, e)
Goto(place) == pc' = place

-------------------------------------------------------------------------------
(* The handlers of stream_agent_request: a parser failure after the first  *)
(* token ends the answer as if it was complete, and everything else is an  *)
(* error event.                                                            *)

(* Defect: the final events are sent in any case. *)
HandleThenFinish(kind) ==
  /\ raised' = kind
  /\ Goto("finalize")
  /\ \/ kind = "parser" /\ tokens > 0 /\ UNCHANGED out
     \/ (kind = "other" \/ tokens = 0) /\ Send("error")

Handle(kind) ==
  /\ raised' = kind
  /\ \/ /\ kind = "parser" /\ tokens > 0
        /\ Goto("finalize") /\ UNCHANGED out
     \/ /\ kind = "other" \/ tokens = 0
        /\ Send("error") /\ Goto("ended")

Fails == \E kind \in {"parser", "other"} : Handle(kind)

(* stream_transcript_then_agent_response *)
SendTranscript ==
  /\ pc = "transcript" /\ Send("transcript") /\ Goto("client")
  /\ UNCHANGED <<setting, state, tokens, others, upstream, raised, retrieved>>

CreateClient ==
  /\ pc = "client"
  /\ \/ Goto("conversation") /\ UNCHANGED <<out, raised>>
     \/ Fails
  /\ UNCHANGED <<setting, state, tokens, others, upstream, retrieved>>

ResolveConversation ==
  /\ pc = "conversation"
  /\ \/ Goto("metadata") /\ UNCHANGED <<out, raised>>
     \/ Fails
  /\ UNCHANGED <<setting, state, tokens, others, upstream, retrieved>>

SendMetadata ==
  /\ pc = "metadata" /\ Send("metadata") /\ Goto("open")
  /\ UNCHANGED <<setting, state, tokens, others, upstream, raised, retrieved>>

OpenStream ==
  /\ pc = "open"
  /\ \/ Goto("reading") /\ UNCHANGED <<out, raised>>
     \/ Fails
  /\ UNCHANGED <<setting, state, tokens, others, upstream, retrieved>>

-------------------------------------------------------------------------------
(* The loop over the events of the response. *)

ReadToken ==
  /\ pc = "reading" /\ upstream = "working" /\ tokens < MaxTokens
  /\ tokens' = tokens + 1 /\ Send("token")
  /\ UNCHANGED <<pc, setting, state, others, upstream, raised, retrieved>>

(* Every event without text may name the response and carry references and *)
(* usage; the last one also says how the response ended.                   *)
ReadOther ==
  /\ pc = "reading" /\ upstream = "working" /\ others < MaxOthers
  /\ others' = others + 1
  /\ responseId' \in {responseId, TRUE}
  /\ references' \in {references, references \cup {"stream"}}
  /\ usage' \in {usage, "stream"}
  /\ upstream' \in {"working", "completed", "failed"}
  /\ UNCHANGED <<pc, setting, out, tokens, raised, retrieved>>

(* The stream ends, be it complete or cut. *)
StreamEnds ==
  /\ pc = "reading" /\ Goto("finalize")
  /\ UNCHANGED <<setting, state, out, tokens, others, upstream, raised, retrieved>>

StreamBreaks ==
  /\ pc = "reading" /\ Fails
  /\ UNCHANGED <<setting, state, tokens, others, upstream, retrieved>>

-------------------------------------------------------------------------------
(* _complete_stream_state_if_needed and the final events. *)

HasMissingFinalMetadata == references = {} \/ usage = "none"

ShouldRetrieve ==
  /\ responseId
  /\ mode = "always" \/ (mode = "auto" /\ HasMissingFinalMetadata)

SkipRetrieve ==
  /\ pc = "finalize" /\ ~ShouldRetrieve /\ Goto("references")
  /\ UNCHANGED <<setting, state, out, tokens, others, upstream, raised, retrieved>>

(* A failed retrieval is logged and changes nothing. *)
Retrieve ==
  /\ pc = "finalize" /\ ShouldRetrieve /\ Goto("references")
  /\ retrieved' = TRUE
  /\ references' \in {references, references \cup {"retrieve"}}
  /\ usage' \in {usage, "retrieve"}
  /\ UNCHANGED <<setting, responseId, out, tokens, others, upstream, raised>>

SendReferences ==
  /\ pc = "references" /\ Send("references")
  /\ Goto(IF usage = "none" THEN "done" ELSE "usage")
  /\ UNCHANGED <<setting, state, tokens, others, upstream, raised, retrieved>>

SendUsage ==
  /\ pc = "usage" /\ Send("usage") /\ Goto("done")
  /\ UNCHANGED <<setting, state, tokens, others, upstream, raised, retrieved>>

SendDone ==
  /\ pc = "done" /\ Send("done") /\ Goto("ended")
  /\ UNCHANGED <<setting, state, tokens, others, upstream, raised, retrieved>>

(* The client closes the connection: the generator is never resumed. *)
Disconnect ==
  /\ pc \notin {"ended", "abandoned"} /\ Goto("abandoned")
  /\ UNCHANGED <<setting, state, out, tokens, others, upstream, raised, retrieved>>

Ended == pc \in {"ended", "abandoned"} /\ UNCHANGED vars

Next ==
  \/ SendTranscript \/ CreateClient \/ ResolveConversation \/ SendMetadata \/ OpenStream
  \/ ReadToken \/ ReadOther \/ StreamEnds \/ StreamBreaks
  \/ SkipRetrieve \/ Retrieve \/ SendReferences \/ SendUsage \/ SendDone
  \/ Disconnect \/ Ended

Spec == Init /\ [][Next]_vars

-------------------------------------------------------------------------------
(* Properties. *)

Sent(e) == \E i \in DOMAIN out : out[i] = e

TypeOK ==
  /\ pc \in Places /\ mode \in Modes /\ voice \in BOOLEAN
  /\ responseId \in BOOLEAN /\ references \in SUBSET Sources /\ usage \in {"none"} \cup Sources
  /\ out \in Seq({"transcript", "metadata", "token", "references", "usage", "done", "error"})
  /\ tokens \in 0..MaxTokens /\ others \in 0..MaxOthers
  /\ upstream \in {"working", "completed", "failed"}
  /\ raised \in {"none", "parser", "other"} /\ retrieved \in BOOLEAN

(* A gateway may strip the names of the events. Readers then take a frame  *)
(* that holds a conversation for "metadata" the first time and for "done"  *)
(* after that (ui/app/sse.mjs:28-52, clients/agent_cli.py:367-403).        *)
Inferred(e, metadataSeen) ==
  IF e \in {"metadata", "done"}
  THEN IF metadataSeen THEN "done" ELSE "metadata"
  ELSE e

(* What a reader infers is what the agent sent, however the stream failed. *)
NamelessFramesAreUnderstood ==
  \A i \in DOMAIN out :
    Inferred(out[i], \E j \in 1..(i - 1) : out[j] = "metadata") = out[i]

(* A parser failure never spoils an answer the reader has seen part of, and*)
(* any other failure is reported (specs/0003:192-196, agent.py:181-200).   *)
FailuresAreReportedOnce ==
  pc = "ended" =>
    (Sent("error") <=> raised = "other" \/ (raised = "parser" /\ tokens = 0))

(* The final data are retrieved as the mode says, also after a parser      *)
(* failure: never, when something is missing, or whenever the response is  *)
(* known (specs/0009:72-88, agent.py:284-367).                             *)
FinalDataAsConfigured ==
  Sent("references") =>
    /\ mode = "never" => ~retrieved
    /\ mode = "always" => retrieved = responseId
    /\ mode = "auto" /\ responseId /\ ~retrieved => ~HasMissingFinalMetadata
    /\ Sent("done") => (Sent("usage") <=> usage # "none")

(* The events come in the order that their readers rely on. *)
Contract == INSTANCE StreamContract
              WITH last <- IF out = <<>> THEN "start" ELSE out[Len(out)]
InContractOrder == Contract!Spec
===============================================================================
