--------------------------------- MODULE ChatUI ---------------------------------
(***************************************************************************)
(* The chat page (ui/app/page.js): its conversation, its recording, and    *)
(* the asynchronous functions that send a question and read its answer.    *)
(* Steps of the page are atomic between two awaits.  The agent is the      *)
(* stream contract; the network may fail at any frame.                     *)
(***************************************************************************)
EXTENDS Naturals

CONSTANTS
  MaxRequests,   \* bound: questions that are sent
  MaxResets,     \* bound: clicks on "New conversation"
  MaxRecordings, \* bound: clicks that start a recording
  Kinds,         \* how questions are asked: "text", "audio"
  Jwt            \* jwtEnabled: a request waits for its token

ASSUME ChatAssumption ==
  /\ MaxRequests \in Nat /\ MaxResets \in Nat /\ MaxRecordings \in Nat
  /\ Kinds \subseteq {"text", "audio"} /\ Jwt \in BOOLEAN

Requests == 1..MaxRequests
Recordings == 1..MaxRecordings
None == 0

VARIABLES
  conversationId,  \* None, or the request that the conversation was made for
  messages,        \* the answer of a request on the page: "none", "streaming", "complete"
  isSending,
  controller,      \* abortControllerRef: the request it aborts, or None
  recording,       \* audioRecording.status
  recorders,       \* a recording: "unused", "asking" for the microphone, "running",
                   \* "stopping" (its stop event is due), "ended"
  recorder,        \* mediaRecorderRef: the recording that can be stopped, or None
  stream,          \* mediaStreamRef: the recording whose tracks can be stopped, or None
  cleanup,         \* the cleanup of the effect on the audio URL is due
  phase,           \* where a request is: "unused", "token", "fetch", "reading", "ended"
  kind,            \* how it was asked
  asked,           \* the conversation it continues
  aborted,         \* it was aborted while it waited for its token
  got,             \* the last frame read
  epoch,           \* clicks on "New conversation" so far
  born             \* the epoch a request was sent in

chat == <<conversationId, messages, isSending, controller>>
voice == <<recording, recorders, recorder, stream, cleanup>>
sent == <<kind, asked, born>>
chatVars == <<chat, voice, sent, phase, aborted, got, epoch>>

ChatInit ==
  /\ conversationId = None /\ isSending = FALSE /\ controller = None
  /\ messages = [r \in Requests |-> "none"]
  /\ recording = "idle" /\ recorders = [n \in Recordings |-> "unused"]
  /\ recorder = None /\ stream = None /\ cleanup = FALSE
  /\ phase = [r \in Requests |-> "unused"] /\ kind = [r \in Requests |-> "text"]
  /\ asked = [r \in Requests |-> None] /\ aborted = [r \in Requests |-> FALSE]
  /\ got = [r \in Requests |-> "start"]
  /\ epoch = 0 /\ born = [r \in Requests |-> 0]

-------------------------------------------------------------------------------
(* Recordings.  Nothing keeps a second one from being asked for while the  *)
(* microphone of the first is not there yet.                               *)

(* stopAudioTracks: a recorder that runs on the tracks ends, and its stop  *)
(* event is due.                                                           *)
StopTracks(rs) ==
  /\ recorders' = [n \in Recordings |-> IF n = stream /\ rs[n] = "running" THEN "stopping"
                                                                         ELSE rs[n]]
  /\ stream' = None

(* Defect: the references are dropped and the status is left.              *)
discardReferences == StopTracks(recorders) /\ recorder' = None /\ UNCHANGED recording

discardRecording == StopTracks(recorders) /\ recorder' = None /\ recording' = "idle"

(* Only a recorded audio has a URL.  When the URL changed in the handler   *)
(* of a click, the cleanup of its effect follows at once, with no track    *)
(* left to stop; otherwise it runs after the next render.                  *)
UrlMayChange == cleanup' = (cleanup \/ "recorded" \in {recording, recording'})

Cleanup ==
  /\ cleanup /\ cleanup' = FALSE
  /\ StopTracks(recorders)
  /\ UNCHANGED <<recording, recorder, chat, sent, phase, aborted, got, epoch>>

StartRecording(n) ==
  /\ "audio" \in Kinds /\ ~isSending /\ recording # "recording"
  /\ recorders[n] = "unused" /\ \A k \in Recordings : k < n => recorders[k] # "unused"
  /\ StopTracks([recorders EXCEPT ![n] = "asking"]) /\ recorder' = None /\ recording' = "idle"
  /\ UNCHANGED <<cleanup, chat, sent, phase, aborted, got, epoch>>

(* The user allows the microphone: the references of an earlier recording  *)
(* are overwritten.                                                        *)
RecordingStarts(n) ==
  /\ recorders[n] = "asking"
  /\ recorders' = [recorders EXCEPT ![n] = "running"]
  /\ stream' = n /\ recorder' = n
  /\ recording' = "recording" /\ UrlMayChange
  /\ UNCHANGED <<chat, sent, phase, aborted, got, epoch>>

(* The microphone is refused or the recorder cannot be made, when the      *)
(* references are still those of an earlier recording; or it does not      *)
(* start, when they are its own.                                           *)
RecordingFails(n) ==
  /\ recorders[n] = "asking"
  /\ \/ StopTracks([recorders EXCEPT ![n] = "ended"]) /\ UNCHANGED recorder
     \/ recorders' = [recorders EXCEPT ![n] = "ended"] /\ stream' = None /\ recorder' = n
  /\ recording' = "failed" /\ UrlMayChange
  /\ UNCHANGED <<chat, sent, phase, aborted, got, epoch>>

StopRecording ==
  /\ recording = "recording" /\ recorder # None
  /\ recorders[recorder] = "running"
  /\ recorders' = [recorders EXCEPT ![recorder] = "stopping"]
  /\ UNCHANGED <<chat, recording, recorder, stream, cleanup, sent, phase, aborted, got, epoch>>

(* The browser takes the microphone away. *)
MicrophoneLost(n) ==
  /\ recorders[n] = "running"
  /\ recorders' = [recorders EXCEPT ![n] = "stopping"]
  /\ UNCHANGED <<chat, recording, recorder, stream, cleanup, sent, phase, aborted, got, epoch>>

(* The stop event of a recorder stops the tracks the page holds by now.    *)
RecordingStopped(n) ==
  /\ recorders[n] = "stopping"
  /\ StopTracks([recorders EXCEPT ![n] = "ended"])
  /\ recording' \in {"recorded", "failed"} /\ UrlMayChange
  /\ UNCHANGED <<recorder, chat, sent, phase, aborted, got, epoch>>

Discard ==
  /\ recording = "recorded" /\ discardRecording
  /\ UNCHANGED <<cleanup, chat, sent, phase, aborted, got, epoch>>

-------------------------------------------------------------------------------
(* Sending a question. *)

Begin(r, how) ==
  /\ phase[r] = "unused" /\ \A q \in Requests : q < r => phase[q] # "unused"
  /\ how \in Kinds
  /\ phase' = [phase EXCEPT ![r] = IF Jwt THEN "token" ELSE "fetch"]
  /\ kind' = [kind EXCEPT ![r] = how]
  /\ asked' = [asked EXCEPT ![r] = conversationId]
  /\ born' = [born EXCEPT ![r] = epoch]
  /\ isSending' = TRUE /\ controller' = r
  /\ UNCHANGED <<conversationId, voice, aborted, got, epoch>>

(* Defect: a question is sent while an answer streams. *)
SendAnyQuestion(r) == Begin(r, "text") /\ messages' = [messages EXCEPT ![r] = "streaming"]

SendQuestion(r) ==
  /\ ~isSending
  /\ Begin(r, "text") /\ messages' = [messages EXCEPT ![r] = "streaming"]

SendRecordedAudio(r) ==
  /\ recording = "recorded"
  /\ Begin(r, "audio") /\ UNCHANGED messages

-------------------------------------------------------------------------------
(* The end of a request, its "finally" part: m is what its catch left.     *)

(* Defect: the message is left to the end of the stream. *)
FinishWithoutMessage(r, m) ==
  /\ phase' = [phase EXCEPT ![r] = "ended"]
  /\ messages' = m
  /\ isSending' = FALSE /\ controller' = None

(* Defect: the page stays busy. *)
FinishStillSending(r, m) ==
  /\ phase' = [phase EXCEPT ![r] = "ended"]
  /\ messages' = [m EXCEPT ![r] = IF @ = "none" THEN @ ELSE "complete"]
  /\ controller' = None /\ UNCHANGED isSending

Finish(r, m) ==
  /\ phase' = [phase EXCEPT ![r] = "ended"]
  /\ messages' = [m EXCEPT ![r] = IF @ = "none" THEN @ ELSE "complete"]
  /\ isSending' = FALSE /\ controller' = None

(* A voice question that fails before its transcript gets a message.       *)
Fail(r) ==
  /\ Finish(r, IF kind[r] = "audio" /\ got[r] = "start"
               THEN [messages EXCEPT ![r] = "complete"] ELSE messages)
  /\ UNCHANGED <<conversationId, voice, aborted, got>>

(* The answer was read to its end; a voice question drops its recording.   *)
Complete(r) ==
  /\ Finish(r, messages)
  /\ IF kind[r] = "audio" THEN discardRecording /\ UrlMayChange ELSE UNCHANGED voice

(* getBearerToken, which an abort does not reach, and the start of the     *)
(* fetch, which it does.                                                   *)
GetToken(r) ==
  /\ phase[r] = "token"
  /\ \/ /\ ~aborted[r] /\ phase' = [phase EXCEPT ![r] = "fetch"]
        /\ UNCHANGED <<chat, voice, aborted, got>>
     \/ aborted[r] /\ Finish(r, messages) /\ UNCHANGED <<conversationId, voice, aborted, got>>
     \/ Fail(r)
  /\ UNCHANGED <<sent, epoch>>

Respond(r) ==
  /\ phase[r] = "fetch"
  /\ \/ phase' = [phase EXCEPT ![r] = "reading"] /\ UNCHANGED <<chat, voice, aborted, got>>
     \/ Fail(r)
  /\ UNCHANGED <<sent, epoch>>

-------------------------------------------------------------------------------
(* readEventStream. *)

(* What may follow an event does not depend on the variable of the contract. *)
Stream == INSTANCE StreamContract WITH last <- got

Frame(r, e) ==
  /\ phase[r] = "reading" /\ e \in Stream!Follows(got[r])
  /\ got[r] = "start" => (e = "transcript") = (kind[r] = "audio")
  /\ got' = [got EXCEPT ![r] = e]

Conversation(r) == IF asked[r] = None THEN r ELSE asked[r]

ReadTranscript(r) ==
  /\ Frame(r, "transcript")
  /\ messages' = [messages EXCEPT ![r] = "streaming"]
  /\ UNCHANGED <<conversationId, isSending, controller, voice, sent, phase, aborted, epoch>>

ReadMetadata(r) ==
  /\ Frame(r, "metadata")
  /\ conversationId' = Conversation(r)
  /\ UNCHANGED <<messages, isSending, controller, voice, sent, phase, aborted, epoch>>

ReadContent(r) ==
  /\ \E e \in {"token", "references", "usage"} : Frame(r, e)
  /\ UNCHANGED <<chat, voice, sent, phase, aborted, epoch>>

(* Defect: the page reads on until the connection is closed. *)
ReadOn(r) ==
  /\ \E e \in {"done", "error"} : Frame(r, e)
  /\ UNCHANGED <<chat, voice, sent, phase, aborted, epoch>>

ReadEnd(r) ==
  /\ \E e \in {"done", "error"} : Frame(r, e)
  /\ Complete(r)
  /\ UNCHANGED <<conversationId, sent, aborted, epoch>>

(* The connection is closed without "done", or breaks. *)
StreamCut(r) ==
  /\ phase[r] = "reading"
  /\ \/ Complete(r) /\ UNCHANGED <<conversationId, aborted, got>>
     \/ Fail(r)
  /\ UNCHANGED <<sent, epoch>>

-------------------------------------------------------------------------------
(* "New conversation".  An abort ends a fetch and the reading of an answer *)
(* before the next event of the page; what its end changes is reset anyway.*)

Cleared ==
  /\ conversationId' = None /\ messages' = [r \in Requests |-> "none"]
  /\ isSending' = FALSE /\ controller' = None
  /\ discardRecording
  /\ epoch' = epoch + 1
  /\ UNCHANGED <<cleanup, sent, got>>

(* Defect: the request is not aborted. *)
ResetOnly == epoch < MaxResets /\ Cleared /\ UNCHANGED <<phase, aborted>>

resetConversation ==
  /\ epoch < MaxResets
  /\ Cleared
  /\ phase' = [r \in Requests |-> IF r = controller /\ phase[r] # "token" THEN "ended"
                                  ELSE phase[r]]
  /\ aborted' = [r \in Requests |-> aborted[r] \/ (r = controller /\ phase[r] = "token")]

-------------------------------------------------------------------------------
Progress(r) == GetToken(r) \/ Respond(r) \/ ReadTranscript(r) \/ ReadMetadata(r)
               \/ ReadContent(r) \/ ReadEnd(r)

ChatNext ==
  \/ \E r \in Requests : SendQuestion(r) \/ SendRecordedAudio(r) \/ Progress(r) \/ StreamCut(r)
  \/ \E n \in Recordings : \/ StartRecording(n) \/ RecordingStarts(n) \/ RecordingFails(n)
                          \/ MicrophoneLost(n) \/ RecordingStopped(n)
  \/ StopRecording \/ Discard \/ Cleanup
  \/ resetConversation

ChatSpec == ChatInit /\ [][ChatNext]_chatVars

(* Every token request, every fetch and every answer goes on; no           *)
(* connection has to be closed.                                            *)
FairChatSpec == ChatSpec /\ \A r \in Requests : WF_chatVars(Progress(r))

-------------------------------------------------------------------------------
(* Properties. *)

IsActive(r) == phase[r] \in {"token", "fetch", "reading"}

ChatTypeOK ==
  /\ conversationId \in {None} \cup Requests /\ controller \in {None} \cup Requests
  /\ messages \in [Requests -> {"none", "streaming", "complete"}] /\ isSending \in BOOLEAN
  /\ recording \in {"idle", "recording", "recorded", "failed"}
  /\ recorders \in [Recordings -> {"unused", "asking", "running", "stopping", "ended"}]
  /\ recorder \in {None} \cup Recordings /\ stream \in {None} \cup Recordings
  /\ cleanup \in BOOLEAN
  /\ phase \in [Requests -> {"unused", "token", "fetch", "reading", "ended"}]
  /\ kind \in [Requests -> {"text", "audio"}] /\ asked \in [Requests -> {None} \cup Requests]
  /\ aborted \in [Requests -> BOOLEAN] /\ epoch \in 0..MaxResets /\ born \in [Requests -> 0..MaxResets]
  /\ got \in [Requests -> Stream!Events \cup {"start"}]

(* "Clear the active conversation_id.  Mark the next request as a new      *)
(* conversation" (specs/0006:169-170): no request continues a conversation *)
(* of a question that was asked before the last reset.                     *)
NewConversationIsNew ==
  \A r \in Requests : phase[r] # "unused" /\ asked[r] # None => born[asked[r]] = born[r]

(* Questions between two resets share one conversation (specs/0006:147-163)*)
OneConversationAtATime ==
  [][conversationId' # conversationId => conversationId = None \/ conversationId' = None]_chatVars

(* An answer that streams on the page is one that is still being read.     *)
StreamingAnswersAreRead == \A r \in Requests : messages[r] = "streaming" => IsActive(r)

(* The page is not busy for nothing, and a request it can abort is at work.*)
BusyForARequest ==
  /\ isSending => \E r \in Requests : IsActive(r)
  /\ controller # None => IsActive(controller) /\ ~aborted[controller]

(* A page that shows a recording can stop it, or its stop event is on the  *)
(* way: two recordings asked for at once share the references that         *)
(* stopRecording and stopAudioTracks use, and resets, late permissions and *)
(* the cleanup of the effect drop or overwrite them at any moment.         *)
RecordingCanBeStopped ==
  recording = "recording" => recorder # None /\ recorders[recorder] \in {"running", "stopping"}

(* "When done or error is received, the UI must stop reading the stream so *)
(* hosted gateways that keep connections open do not leave the interface in*)
(* a permanent streaming state" (specs/0006:223-225).                      *)
StreamingModeEnds == isSending ~> ~isSending
===============================================================================
