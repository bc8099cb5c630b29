---------------------------- MODULE InterviewClient ---------------------------
(***************************************************************************)
(* The interview page (useInterview) and the calls of InterviewService     *)
(* that it makes: GetSessionState while it loads, a SubmitTurn stream for  *)
(* the opening question and for every answer, EndSession, CancelSession.   *)
(*                                                                         *)
(* A stream is a queue of events (wire); the turn behind it is in          *)
(* TurnExecution and here goes through its stages only.  A stream may      *)
(* break, the page may be loaded again at any time, the instance may die.  *)
(* A reply is one token.  Not here: sound, and the turn that outlives the  *)
(* cleanup of its status (TurnExecution).                                  *)
(***************************************************************************)
EXTENDS Naturals, Sequences, SequencesExt

CONSTANTS MaxSubmits,   \* bounds of the model: SubmitTurn calls,
          MaxLoads,     \* how often the page is loaded,
          Spoken        \* and the calls that may be voice

ASSUME ClientAssumption == {MaxSubmits, MaxLoads} \subseteq Nat

Submits == 1..MaxSubmits

VARIABLES
    sessionStatus,  \* status column
    transcript,     \* messages, in the order of seq: [role, text]
    input,          \* of each call: "none", "opening", "text" or "voice"
    turnStage,      \* of each call, at the server
    wire,           \* events under way to the page
    ender,          \* EndSession or CancelSession at the server, and how far it is
    asking,         \* this page waits for its answer
    page,           \* state of the hook
    messages,       \* what the page shows
    streamingText,  \* streamingTextRef
    load,           \* GetSessionState: "none", "asked", "read", "done" or "failed"
    read,           \* the status it has read
    streams,        \* the calls whose events the page handles
    confirmed,      \* EndSession has answered
    loads,          \* for the bound; the others are history, for InSync:
    mishap,         \* the first of Mishaps that this page has suffered, or "none"
    dropped         \* where it shows a text that the server has dropped, or 0

serverVars == <<sessionStatus, transcript, turnStage>>
pageVars   == <<page, messages, streamingText>>
loadVars   == <<load, read, loads>>
endVars    == <<ender, asking, confirmed>>
historyVars == <<mishap, dropped>>
clientVars == <<serverVars, input, wire, pageVars, loadVars, endVars, streams, historyVars>>

\* A call or a stream of the page has failed; the user has answered before
\* the opening question was there; a call of the page before, which nobody
\* listens to, has begun a turn behind its back.
Mishaps == {"failure", "haste", "orphan"}
Suffers(what) == mishap' = IF mishap = "none" THEN what ELSE mishap

Said(k)    == [role |-> "candidate", text |-> <<k>>]
Replied(k) == [role |-> "interviewer", text |-> <<k>>]

ClientInit ==
    \* The session is new, or its page is opened again after a reply failed.
    /\ sessionStatus = "active" /\ transcript \in {<<>>, <<Replied(0), Said(0)>>}
    /\ input = [k \in Submits |-> "none"] /\ turnStage = [k \in Submits |-> "none"]
    /\ wire = [k \in Submits |-> <<>>]
    /\ page = "connecting" /\ messages = <<>> /\ streamingText = <<>>
    /\ load = "asked" /\ read = "none" /\ loads = 1
    /\ ender = "none" /\ asking = FALSE /\ confirmed = FALSE /\ streams = {}
    /\ mishap = "none" /\ dropped = 0
-----------------------------------------------------------------------------
(***************************************************************************)
(* Loading the page                                                        *)
(***************************************************************************)
\* What the page before has asked for goes on at the server, unheard.
Reload ==
    /\ loads < MaxLoads /\ loads' = loads + 1 /\ load' = "asked"
    /\ page' = "connecting" /\ messages' = <<>> /\ streamingText' = <<>>
    /\ streams' = {} /\ confirmed' = FALSE /\ asking' = FALSE
    /\ wire' = [k \in Submits |-> <<>>] /\ read' = "none"
    /\ mishap' = "none" /\ dropped' = 0
    /\ UNCHANGED <<serverVars, input, ender>>

\* Mutant: the protocol's list of statuses as SessionService has it.
StatusWithoutGenerating(status) == IF status = "generating" THEN "unspecified" ELSE status
StatusStringToProto(status) == status

\* GetSessionState: the status first, ...
GetSessionForTurn ==
    /\ load = "asked" /\ load' = "read" /\ read' = StatusStringToProto(sessionStatus)
    /\ UNCHANGED <<serverVars, input, wire, pageVars, loads, endVars, streams, historyVars>>

\* ... then the messages, which count only if nothing was being generated.
PollAgain ==
    /\ load = "read" /\ read = "generating" /\ load' = "asked" /\ read' = "none"
    /\ UNCHANGED <<serverVars, input, wire, pageVars, loads, endVars, streams, historyVars>>

PageFor(status) == CASE status = "completed" -> "ended"
                     [] status = "cancelled" -> "cancelled"
                     [] OTHER -> "waiting"

\* The calls are made in their order.
Call(k, kind) ==
    /\ turnStage[k] = "none" /\ \A earlier \in 1..(k - 1) : turnStage[earlier] # "none"
    /\ turnStage' = [turnStage EXCEPT ![k] = "sent"]
    /\ input' = [input EXCEPT ![k] = kind] /\ streams' = streams \cup {k}

GetMessagesBySession ==
    /\ load = "read" /\ read # "generating" /\ load' = "done" /\ read' = "none"
    /\ messages' = (IF transcript = <<>> THEN messages ELSE transcript)
    /\ page' = PageFor(read)
    \* A session without messages gets its opening question.
    /\ IF transcript = <<>> /\ PageFor(read) = "waiting"
         THEN \E k \in Submits : Call(k, "opening")
         ELSE UNCHANGED <<turnStage, input, streams>>
    /\ UNCHANGED <<sessionStatus, transcript, wire, streamingText, loads, endVars, historyVars>>

LoadFails ==
    /\ load \in {"asked", "read"} /\ load' = "failed" /\ read' = "none"
    /\ Suffers("failure")
    /\ UNCHANGED <<serverVars, input, wire, pageVars, loads, endVars, streams, dropped>>
-----------------------------------------------------------------------------
(***************************************************************************)
(* What the user does; the page takes no input in another state            *)
(***************************************************************************)
Settled(k) == turnStage[k] = "over" /\ wire[k] = <<>>

\* The page takes input until the first token of the opening question arrives.
Hurried ==
    /\ IF \A k \in streams : Settled(k) THEN UNCHANGED mishap ELSE Suffers("haste")
    /\ UNCHANGED dropped

SendText(k) ==
    /\ load = "done" /\ page = "waiting" /\ Call(k, "text")
    /\ messages' = Append(messages, Said(k)) /\ page' = "processing" /\ Hurried
    /\ UNCHANGED <<sessionStatus, transcript, wire, streamingText, loadVars, endVars>>

SendAudio(k) ==
    /\ k \in Spoken /\ load = "done" /\ page = "waiting" /\ Call(k, "voice")
    /\ page' = "transcribing" /\ Hurried
    /\ UNCHANGED <<sessionStatus, transcript, wire, messages, streamingText, loadVars,
                   endVars>>

\* "ended" at once, "cancelled" when the call has answered.
DoEndSession ==
    /\ load = "done" /\ page \notin {"ended", "cancelled"} /\ ender = "none"
    /\ ender' = "end" /\ asking' = TRUE /\ page' = "ended"
    /\ UNCHANGED <<serverVars, input, wire, messages, streamingText, loadVars, confirmed,
                   streams, historyVars>>
DoCancelSession ==
    /\ load = "done" /\ page \notin {"ended", "cancelled"} /\ ender = "none"
    /\ ender' = "cancel" /\ asking' = TRUE
    /\ UNCHANGED <<serverVars, input, wire, pageVars, loadVars, confirmed, streams, historyVars>>

\* Both wait until nothing is being generated.
WaitForGeneration ==
    /\ ender \in {"end", "cancel"} /\ sessionStatus # "generating"
    /\ ender' = (IF ender = "end" THEN "ending" ELSE "cancelling")
    /\ UNCHANGED <<serverVars, input, wire, pageVars, loadVars, asking, confirmed, streams,
                   historyVars>>

\* By then a turn may have begun.
SessionOver ==
    /\ ender \in {"ending", "cancelling"} /\ ender' = "none" /\ asking' = FALSE
    /\ sessionStatus' = (IF ender = "ending" THEN "completed" ELSE "cancelled")
    /\ \/ /\ confirmed' = (asking /\ ender = "ending")
          /\ page' = (IF asking /\ ender = "cancelling" THEN "cancelled" ELSE page)
       \* The answer is lost.
       \/ UNCHANGED <<confirmed, page>>
    /\ UNCHANGED <<transcript, turnStage, input, wire, messages, streamingText, loadVars,
                   streams, historyVars>>

\* The wait takes a minute, or the call fails: the page only shows the error.
EndFails ==
    /\ ender # "none" /\ ender' = "none" /\ asking' = FALSE
    /\ UNCHANGED <<serverVars, input, wire, pageVars, loadVars, confirmed, streams, historyVars>>
-----------------------------------------------------------------------------
(***************************************************************************)
(* SubmitTurn at the server                                                *)
(***************************************************************************)
Stage(k, from, to) == turnStage[k] \in from /\ turnStage' = [turnStage EXCEPT ![k] = to]
\* What is sent to a stream that is gone is dropped.
Emits(k, event) ==
    wire' = IF k \in streams THEN [wire EXCEPT ![k] = Append(@, event)] ELSE wire
Working == {"acquired", "heard", "replying", "replied"}
ReleaseStatus ==
    sessionStatus' = IF sessionStatus = "generating" THEN "active" ELSE sessionStatus

TurnVars == <<input, pageVars, loadVars, endVars, streams>>

\* The page has read that nothing is being generated.
Decided == load = "done" \/ (load = "read" /\ read # "generating")

Acquire(k) ==
    /\ Stage(k, {"sent"}, "acquired") /\ sessionStatus = "active"
    /\ sessionStatus' = "generating"
    /\ IF Decided /\ k \notin streams THEN Suffers("orphan") ELSE UNCHANGED mishap
    /\ UNCHANGED <<TurnVars, transcript, wire, dropped>>

\* Also what becomes of a call whose page has gone before.
Refuse(k) ==
    /\ Stage(k, {"sent"}, "over") /\ (sessionStatus # "active" \/ k \notin streams)
    /\ Emits(k, "refused")
    /\ UNCHANGED <<TurnVars, sessionStatus, transcript, historyVars>>

Unanswered == transcript # <<>> /\ transcript[Len(transcript)].role = "candidate"

\* The opening question, or the reply that is missing: then the input is not
\* looked at, and no event says so to the page that shows it already.
SkipInput(k) ==
    /\ Stage(k, {"acquired"}, "replying")
    /\ \/ input[k] = "opening" /\ transcript = <<>>
       \/ Unanswered
    /\ dropped' = (IF k \in streams /\ input[k] = "text" THEN Len(messages) ELSE dropped)
    /\ UNCHANGED <<TurnVars, sessionStatus, transcript, wire, mishap>>

Transcribe(k) ==
    /\ Stage(k, {"acquired"}, "heard") /\ input[k] = "voice" /\ ~Unanswered
    /\ Emits(k, "transcription")
    /\ UNCHANGED <<TurnVars, sessionStatus, transcript, historyVars>>

PersistCandidate(k) ==
    /\ ~Unanswered /\ input[k] # "opening"
    /\ Stage(k, IF input[k] = "voice" THEN {"heard"} ELSE {"acquired"}, "replying")
    /\ transcript' = Append(transcript, Said(k))
    /\ UNCHANGED <<TurnVars, sessionStatus, wire, historyVars>>

Token(k) ==
    /\ Stage(k, {"replying"}, "replied") /\ Emits(k, "token")
    /\ UNCHANGED <<TurnVars, sessionStatus, transcript, historyVars>>

\* An error event; the status goes back to active.
TurnFails(k) ==
    /\ Stage(k, Working, "over") /\ Emits(k, "error") /\ ReleaseStatus
    /\ UNCHANGED <<TurnVars, transcript, historyVars>>

\* An error event too, and the turn goes on.
SynthesisFails(k) ==
    /\ turnStage[k] = "replied" /\ wire[k] # <<>> /\ wire[k][Len(wire[k])] = "token"
    /\ Emits(k, "error")
    /\ UNCHANGED <<TurnVars, serverVars, historyVars>>

PersistReply(k) ==
    /\ Stage(k, {"replied"}, "stored") /\ transcript' = Append(transcript, Replied(k))
    /\ UNCHANGED <<TurnVars, sessionStatus, wire, historyVars>>

Release(k) ==
    /\ Stage(k, {"stored"}, "released") /\ ReleaseStatus
    /\ UNCHANGED <<TurnVars, transcript, wire, historyVars>>

Done(k) ==
    /\ Stage(k, {"released"}, "over") /\ Emits(k, "done")
    /\ UNCHANGED <<TurnVars, sessionStatus, transcript, historyVars>>

\* The instance dies; CleanupStaleGenerating finds the status later.
InstanceDies(k) ==
    /\ Stage(k, Working \cup {"stored", "released"}, "dead")
    /\ UNCHANGED <<TurnVars, sessionStatus, transcript, wire, historyVars>>
CleanupStaleGenerating ==
    /\ sessionStatus = "generating"
    /\ \A k \in Submits : turnStage[k] \notin Working \cup {"stored"}
    /\ sessionStatus' = "active"
    /\ UNCHANGED <<TurnVars, transcript, turnStage, wire, historyVars>>
-----------------------------------------------------------------------------
(***************************************************************************)
(* handleTurnEvent, and the catch of a stream                              *)
(***************************************************************************)
Handle(k, event) ==
    /\ k \in streams /\ wire[k] # <<>> /\ Head(wire[k]) = event
    /\ wire' = [wire EXCEPT ![k] = Tail(@)]
    /\ UNCHANGED <<serverVars, input, loadVars, endVars>>

TranscriptionResult(k) ==
    /\ Handle(k, "transcription") /\ page' = "processing"
    /\ messages' = Append(messages, Said(k))
    /\ UNCHANGED <<streamingText, streams, historyVars>>

InterviewerToken(k) ==
    /\ Handle(k, "token") /\ page' = "streaming"
    /\ streamingText' = Append(streamingText, k)
    /\ UNCHANGED <<messages, streams, historyVars>>

InterviewerDone(k) ==
    /\ Handle(k, "done") /\ page' = "waiting"
    /\ messages' = Append(messages, [role |-> "interviewer", text |-> streamingText])
    /\ streamingText' = <<>> /\ streams' = streams \ {k}
    /\ UNCHANGED historyVars

\* What has been streamed stays in streamingText.
TurnError(k) ==
    /\ Handle(k, "error") /\ page' = "waiting" /\ Suffers("failure")
    /\ UNCHANGED <<messages, streamingText, streams, dropped>>

\* The catch of the opening turn only logs.
StreamThrows(k) ==
    /\ page' = (IF input[k] = "opening" THEN page ELSE "waiting")
    /\ Suffers("failure") /\ streams' = streams \ {k}
    /\ UNCHANGED <<messages, streamingText, dropped>>

StreamBreaks(k) ==
    \/ Handle(k, "refused") /\ StreamThrows(k)
    \* The connection is lost.
    \/ /\ k \in streams /\ (turnStage[k] # "over" \/ wire[k] # <<>>) /\ StreamThrows(k)
       /\ wire' = [wire EXCEPT ![k] = <<>>]
       /\ UNCHANGED <<serverVars, input, loadVars, endVars>>
-----------------------------------------------------------------------------
LoadStep == Reload \/ GetSessionForTurn \/ PollAgain \/ GetMessagesBySession \/ LoadFails
EndStep ==
    DoEndSession \/ DoCancelSession \/ WaitForGeneration \/ SessionOver \/ EndFails
ServerStep(k) ==
    \/ Acquire(k) \/ Refuse(k) \/ SkipInput(k) \/ Transcribe(k) \/ PersistCandidate(k)
    \/ Token(k) \/ TurnFails(k) \/ SynthesisFails(k) \/ PersistReply(k) \/ Release(k)
    \/ Done(k) \/ InstanceDies(k)
EventStep(k) ==
    \/ TranscriptionResult(k) \/ InterviewerToken(k) \/ InterviewerDone(k) \/ TurnError(k)
    \/ StreamBreaks(k)

ClientNext ==
    \/ LoadStep \/ EndStep \/ CleanupStaleGenerating
    \/ \E k \in Submits : SendText(k) \/ SendAudio(k) \/ ServerStep(k) \/ EventStep(k)

ClientSpec == ClientInit /\ [][ClientNext]_clientVars
-----------------------------------------------------------------------------
(***************************************************************************)
(* A page that waits for the user shows the transcript as it is stored,    *)
(* however it was loaded: while a turn of the page before was generating,  *)
(* before or after its reply was stored, after a crash.  It may show one   *)
(* text of the candidate more, the one it sent while an answer was still   *)
(* without a reply: the server gives that reply and drops the text, and no *)
(* event tells the page.  Excepted is a page that has suffered one of the  *)
(* Mishaps.                                                                *)
(***************************************************************************)
InSync ==
    load = "done" /\ page = "waiting" /\ mishap = "none" /\ (\A k \in streams : Settled(k))
        => /\ RemoveAt(messages, dropped) = transcript
           /\ dropped # 0 => messages[dropped].role = "candidate"

(***************************************************************************)
(* "Response confirms completion. Client navigates to results."            *)
(***************************************************************************)
EndedIsShown == confirmed => page = "ended"
=============================================================================
