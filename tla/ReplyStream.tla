----------------------------- MODULE ReplyStream ----------------------------
(***************************************************************************)
(* How the interviewer's reply reaches the candidate: the tail of a turn,  *)
(* streamInterviewerResponse, with its fan-out of observers and the        *)
(* synthesis goroutine of the TTSAccumulator.                              *)
(*                                                                         *)
(* "main" is the goroutine of the RPC handler: it reads the LLM's tokens,  *)
(* cuts sentences out of them, waits for the synthesis, stores the reply   *)
(* and says that it is done.  "tts" is TTSAccumulator.ttsLoop.  Both write *)
(* to the client's stream; a write has a beginning and an end, so that     *)
(* two of them can overlap.  Sentences are numbered in the order of the    *)
(* text; which part of a token they come from is SentenceBuffer's matter.  *)
(***************************************************************************)
EXTENDS Naturals, Sequences

CONSTANTS MaxSentences,     \* bound of the model: sentences of one reply
          ChanCap           \* capacity of sentCh, 32

ASSUME ReplyStreamAssumption == MaxSentences \in Nat /\ ChanCap \in Nat \ {0}

VARIABLES
    tts,                \* the candidate wants to hear the reply
    stage,                 \* where main is
    pending, tail,         \* buf: complete sentences in it, and whether text follows them
    cut,                \* sentences cut out of buf so far
    queue, closed,      \* sentCh
    cancelled,          \* the accumulator's context
    lp, current,        \* ttsLoop: where it is, and the sentence it holds
    calls,              \* the write to the stream that each goroutine is in
    fate,               \* what became of each sentence
    told,               \* what the client has been told, tokens and clips aside
    written, stored     \* of Rows: in the transaction, and committed

bufVars   == <<pending, tail, cut>>
chanVars  == <<queue, closed, cancelled>>
loopVars  == <<lp, current>>
rowVars   == <<written, stored>>
streamVars == <<tts, stage, bufVars, chanVars, loopVars, calls, fate, told, rowVars>>

Goroutines == {"main", "tts"}
Verdicts == {"tts_done", "done", "llm_stream_error", "persist_failed"}
Writes == Verdicts \cup {"none", "token", "audio", "tts_error"}

\* Of messages, llm_calls and llm_call_content.
Rows == {"reply", "call", "content"}

StreamInit ==
    /\ tts \in BOOLEAN
    /\ stage = "start"
    /\ pending = 0 /\ tail = FALSE /\ cut = 0
    /\ queue = <<>> /\ closed = FALSE /\ cancelled = FALSE
    /\ lp = (IF tts THEN "idle" ELSE "absent") /\ current = 0
    /\ calls = [g \in Goroutines |-> "none"]
    /\ fate = [i \in 1..MaxSentences |-> "none"]
    /\ told = {} /\ written = {} /\ stored = {}
-----------------------------------------------------------------------------
Reach(to) == stage' = to

\* connectTurnSink.send: nothing keeps the two goroutines apart in here.
Write(g, event) == calls[g] = "none" /\ calls' = [calls EXCEPT ![g] = event]
Silent == calls.main = "none" /\ UNCHANGED calls

\* The sentence a write of g is about.
Subject(g) == IF g = "main" THEN cut ELSE current

EndWrite(g) ==
    /\ calls[g] # "none"
    /\ calls' = [calls EXCEPT ![g] = "none"]
    /\ told' = told \cup ({calls[g]} \cap Verdicts)
    /\ fate' = CASE calls[g] = "audio"     -> [fate EXCEPT ![Subject(g)] = "audio"]
                 [] calls[g] = "tts_error" -> [fate EXCEPT ![Subject(g)] = "error"]
                 [] OTHER                  -> fate
    /\ UNCHANGED <<tts, stage, bufVars, chanVars, loopVars, rowVars>>
-----------------------------------------------------------------------------
(***************************************************************************)
(* main: the stream of tokens                                              *)
(***************************************************************************)
StartStream ==
    /\ stage = "start" /\ Reach("streaming") /\ Silent
    /\ UNCHANGED <<tts, bufVars, chanVars, loopVars, fate, told, rowVars>>

\* fanOut.OnError, from StreamLLM or from stream.Next.
StreamFails ==
    /\ stage \in {"start", "streaming"} /\ Reach("cancelling") /\ Write("main", "llm_stream_error")
    /\ UNCHANGED <<tts, bufVars, chanVars, loopVars, fate, told, rowVars>>

\* sinkTokenWriter.OnToken
WriteToken == Write("main", "token")

\* TokenFanOut.OnToken: the client first, then the accumulator, where the
\* token completes k sentences and may leave text without an end.
FanOut(k, rest) ==
    /\ WriteToken
    /\ IF tts THEN pending' = k /\ tail' = rest ELSE UNCHANGED <<pending, tail>>

\* TokenStream.Next
NextToken(k, rest) ==
    /\ stage = "streaming" /\ Reach("cutting")
    /\ (k = 0 /\ tail) => rest
    /\ cut + k + (IF rest THEN 1 ELSE 0) <= MaxSentences
    /\ FanOut(k, rest)
    /\ UNCHANGED <<tts, cut, chanVars, loopVars, fate, told, rowVars>>

EndOfStream ==
    /\ stage = "streaming" /\ Reach("flushing") /\ Silent
    /\ UNCHANGED <<tts, bufVars, chanVars, loopVars, fate, told, rowVars>>

\* Mutant: a full buffer drops the sentence without a word.
OfferSilently ==
    /\ cut' = cut + 1 /\ Silent
    /\ IF Len(queue) < ChanCap
         THEN /\ queue' = Append(queue, cut + 1)
              /\ fate' = [fate EXCEPT ![cut + 1] = "queued"]
         ELSE UNCHANGED <<queue, fate>>

\* Mutant: the send waits for no room and loses no sentence.
OfferBeyond ==
    /\ cut' = cut + 1 /\ Silent
    /\ queue' = Append(queue, cut + 1)
    /\ fate' = [fate EXCEPT ![cut + 1] = "queued"]

\* The non-blocking send to sentCh.  ctx.Done is never ready here: only
\* OnError and Close, on this same goroutine, cancel.
Offer ==
    /\ cut' = cut + 1
    /\ IF Len(queue) < ChanCap
         THEN /\ queue' = Append(queue, cut + 1)
              /\ fate' = [fate EXCEPT ![cut + 1] = "queued"] /\ Silent
         ELSE /\ Write("main", "tts_error")
              /\ fate' = [fate EXCEPT ![cut + 1] = "dropped"] /\ UNCHANGED queue

CutSentence ==
    /\ stage = "cutting" /\ pending > 0
    /\ pending' = pending - 1 /\ Offer
    /\ UNCHANGED <<tts, stage, tail, closed, cancelled, loopVars, told, rowVars>>

TokenHandled ==
    /\ stage = "cutting" /\ pending = 0 /\ Reach("streaming") /\ Silent
    /\ UNCHANGED <<tts, bufVars, chanVars, loopVars, fate, told, rowVars>>
-----------------------------------------------------------------------------
(***************************************************************************)
(* main: OnDone, OnError and Close                                         *)
(***************************************************************************)
FlushTail ==
    /\ stage = "flushing" /\ tail
    /\ tail' = FALSE /\ Offer
    /\ UNCHANGED <<tts, stage, pending, closed, cancelled, loopVars, told, rowVars>>

\* Mutant: OnDone returns without closing the channel.
ForgetChannel ==
    /\ stage = "flushing" /\ ~tail /\ Reach("closing") /\ Silent
    /\ UNCHANGED <<tts, bufVars, chanVars, loopVars, fate, told, rowVars>>

CloseChannel ==
    /\ stage = "flushing" /\ ~tail /\ Reach("closing") /\ Silent
    /\ closed' = tts
    /\ UNCHANGED <<tts, bufVars, queue, cancelled, loopVars, fate, told, rowVars>>

OnError ==
    /\ stage = "cancelling" /\ Reach("aborting") /\ Silent
    /\ cancelled' = tts
    /\ UNCHANGED <<tts, bufVars, queue, closed, loopVars, fate, told, rowVars>>

\* Mutant: Close cancels and does not wait.
CloseAtOnce ==
    /\ stage \in {"closing", "aborting"} /\ Silent
    /\ cancelled' = tts
    /\ Reach(IF stage = "closing" THEN "persisting" ELSE "finishing")
    /\ UNCHANGED <<tts, bufVars, queue, closed, loopVars, fate, told, rowVars>>

\* Wait for the loop to return, then cancel.
Close ==
    /\ stage \in {"closing", "aborting"} /\ Silent
    /\ lp \in {"absent", "exited"} /\ calls.tts = "none"
    /\ cancelled' = tts
    /\ Reach(IF stage = "closing" THEN "persisting" ELSE "finishing")
    /\ UNCHANGED <<tts, bufVars, queue, closed, loopVars, fate, told, rowVars>>
-----------------------------------------------------------------------------
(***************************************************************************)
(* main: PersistInterviewerTurn, ReleaseGeneratingStatus, InterviewerDone  *)
(***************************************************************************)
InsertReply ==
    /\ stage = "persisting" /\ Reach("logging") /\ Silent
    /\ written' = {"reply"}
    /\ UNCHANGED <<tts, bufVars, chanVars, loopVars, fate, told, stored>>

Insert(row, next) == written' = written \cup {row} /\ Reach(next)
SqlError == Reach("aborted") /\ UNCHANGED written

\* InsertLLMCall and InsertLLMCallContent, in CloseWithTx; json.Marshal of the
\* content in between, whose error is no business of Postgres.
InsertLLMCall == stage = "logging" /\ (Insert("call", "logging_content") \/ SqlError)
InsertLLMCallContent ==
    /\ stage = "logging_content"
    /\ \/ Insert("content", "committing") \/ SqlError
       \/ Reach("committing") /\ UNCHANGED written

\* PersistInterviewerTurn only logs the error, whichever it is; but Postgres
\* has aborted the transaction if it was one of SQL.
LogCall ==
    /\ InsertLLMCall \/ InsertLLMCallContent
    /\ Silent
    /\ UNCHANGED <<tts, bufVars, chanVars, loopVars, fate, told, stored>>

\* Mutant: the reply is stored on its own, before the call is logged.
CommitReplyOnly ==
    /\ stage \in {"committing", "aborted"} /\ Reach("releasing") /\ Silent
    /\ stored' = IF stage = "committing" THEN written ELSE {"reply"}
    /\ UNCHANGED <<tts, bufVars, chanVars, loopVars, fate, told, written>>

CommitReply ==
    /\ stage = "committing" /\ Reach("releasing") /\ Silent
    /\ stored' = written
    /\ UNCHANGED <<tts, bufVars, chanVars, loopVars, fate, told, written>>

\* The insert or the commit fails; of an aborted transaction it always does.
PersistFails ==
    /\ stage \in {"persisting", "committing", "aborted"}
    /\ Reach("finishing") /\ Write("main", "persist_failed")
    /\ UNCHANGED <<tts, bufVars, chanVars, loopVars, fate, told, rowVars>>

\* Whether or not the release succeeds (TurnExecution).
ReleaseAndTell ==
    /\ stage = "releasing" /\ Reach("finishing") /\ Write("main", "done")
    /\ UNCHANGED <<tts, bufVars, chanVars, loopVars, fate, told, rowVars>>

Return ==
    /\ stage = "finishing" /\ Reach("finished") /\ Silent
    /\ UNCHANGED <<tts, bufVars, chanVars, loopVars, fate, told, rowVars>>
-----------------------------------------------------------------------------
(***************************************************************************)
(* tts: ttsLoop                                                            *)
(***************************************************************************)
\* A sentence received after OnError is skipped.
Receive ==
    /\ lp = "idle" /\ calls.tts = "none" /\ queue # <<>>
    /\ current' = Head(queue) /\ queue' = Tail(queue)
    /\ lp' = IF cancelled THEN "idle" ELSE "synthesizing"
    /\ fate' = [fate EXCEPT ![Head(queue)] = IF cancelled THEN "lost" ELSE "held"]
    /\ UNCHANGED <<tts, stage, bufVars, closed, cancelled, calls, told, rowVars>>

\* OpenAISynthesizer: a clip, or none: an error, the timeout of the sentence,
\* or the cancelled context.
Clips == {"clip", "none"}

\* Mutant: an empty clip is passed over in silence.
SynthesizeSilently ==
    /\ lp = "synthesizing" /\ lp' = "idle"
    /\ \E clip \in Clips : IF clip = "clip" THEN Write("tts", "audio")
                                            ELSE calls.tts = "none" /\ UNCHANGED calls
    /\ UNCHANGED <<tts, stage, bufVars, chanVars, current, fate, told, rowVars>>

Synthesize ==
    /\ lp = "synthesizing" /\ lp' = "idle"
    /\ \E clip \in Clips : Write("tts", IF clip = "clip" THEN "audio" ELSE "tts_error")
    /\ UNCHANGED <<tts, stage, bufVars, chanVars, current, fate, told, rowVars>>

\* The closed channel is empty; on an interrupt there is no tts_done.
DrainedChannel ==
    /\ lp = "idle" /\ calls.tts = "none" /\ queue = <<>> /\ closed
    /\ lp' = "exited"
    /\ IF cancelled THEN UNCHANGED calls ELSE Write("tts", "tts_done")
    /\ UNCHANGED <<tts, stage, bufVars, chanVars, current, fate, told, rowVars>>

\* select picks ctx.Done; sentences may still be in the channel.
Interrupted ==
    /\ lp = "idle" /\ calls.tts = "none" /\ cancelled
    /\ lp' = "exited"
    /\ UNCHANGED <<tts, stage, bufVars, chanVars, current, calls, fate, told, rowVars>>
-----------------------------------------------------------------------------
StreamOver == EndOfStream \/ StreamFails

MainStep ==
    \/ StartStream \/ StreamOver \/ CutSentence \/ TokenHandled
    \/ \E k \in 0..2, rest \in BOOLEAN : NextToken(k, rest)
    \/ FlushTail \/ CloseChannel \/ OnError \/ Close
    \/ InsertReply \/ LogCall \/ CommitReply \/ PersistFails \/ ReleaseAndTell \/ Return
    \/ EndWrite("main")

LoopStep == Receive \/ Synthesize \/ DrainedChannel \/ Interrupted \/ EndWrite("tts")

StreamNext == MainStep \/ LoopStep

StreamSpec == StreamInit /\ [][StreamNext]_streamVars

\* The goroutines run; a write ends, at the latest when the client is gone;
\* a synthesis ends with the sentence's timeout; the reply has at most
\* max_tokens tokens, so the stream of tokens ends.
StreamFairSpec ==
    /\ StreamSpec
    /\ WF_streamVars(MainStep) /\ WF_streamVars(LoopStep) /\ SF_streamVars(StreamOver)
-----------------------------------------------------------------------------
StreamTypeOK ==
    /\ tts \in BOOLEAN
    /\ stage \in {"start", "streaming", "cutting", "flushing", "cancelling", "closing", "aborting",
               "persisting", "logging", "logging_content", "committing", "aborted", "releasing",
               "finishing", "finished"}
    /\ pending \in 0..MaxSentences /\ tail \in BOOLEAN /\ cut \in 0..MaxSentences
    /\ queue \in Seq(1..MaxSentences) /\ Len(queue) <= ChanCap
    /\ closed \in BOOLEAN /\ cancelled \in BOOLEAN
    /\ lp \in {"absent", "idle", "synthesizing", "exited"} /\ current \in 0..MaxSentences
    /\ calls \in [Goroutines -> Writes]
    /\ fate \in [1..MaxSentences -> {"none", "queued", "dropped", "held", "lost", "audio",
                                        "error"}]
    /\ told \subseteq Verdicts /\ written \subseteq Rows /\ stored \subseteq Rows

(***************************************************************************)
(* By the time the reply is stored or reported as not stored, every        *)
(* sentence of it has been heard or reported as silent, and the end of the *)
(* audio has been announced ("all TTS chunks must be sent before           *)
(* InterviewerDone"; "the sentence is dropped and HandleTTSError is called *)
(* to notify the user").                                                   *)
(***************************************************************************)
HeardOrReported ==
    tts /\ (stage \in {"persisting", "logging", "logging_content", "committing", "aborted", "releasing"}
              \/ {"done", "persist_failed"} \cap told # {})
        => /\ "tts_done" \in told
           /\ \A i \in 1..cut : fate[i] \in {"audio", "error"}

(***************************************************************************)
(* When the handler has returned nobody writes to its stream any more, and *)
(* the client has been told exactly one verdict on the turn ("Close        *)
(* synchronously so TTS resources are cleaned up before we return").       *)
(***************************************************************************)
QuietAfterReturn ==
    stage = "finished" =>
        /\ lp \in {"absent", "exited"} /\ \A g \in Goroutines : calls[g] = "none"
        /\ \E v \in Verdicts \ {"tts_done"} : told \ {"tts_done"} = {v}

(***************************************************************************)
(* The client is told that the turn is done only of a reply that is        *)
(* stored, and no stored reply is missing from the log of LLM calls        *)
(* ("Persist interviewer message and LLM call atomically").  So an insert  *)
(* into the log that fails takes the reply with it, see LoggingIsNonFatal; *)
(* only the content of a logged call may be missing.                       *)
(***************************************************************************)
DoneMeansStored ==
    /\ "done" \in told => "reply" \in stored
    /\ "reply" \in stored => "call" \in stored

(***************************************************************************)
(* "Non-fatal: the LLM call logging failed but we still persist the        *)
(* message": when an insert into the log has failed, the reply is stored.  *)
(***************************************************************************)
LoggingIsNonFatal ==
    [][stage = "aborted" /\ stage' # "aborted" => "reply" \in stored']_streamVars

(***************************************************************************)
(* The turn comes to an end: Close does not wait for ever, on either path. *)
(***************************************************************************)
TurnReturns == <>(stage = "finished")

(***************************************************************************)
(* "Implementations must be safe for concurrent calls - HandleTTSError may *)
(* be called from the conductor goroutine ... while HandleAudio is called  *)
(* from the TTS goroutine": two writes to the stream never overlap.        *)
(***************************************************************************)
WritesExclude == calls.main = "none" \/ calls.tts = "none"
=============================================================================
