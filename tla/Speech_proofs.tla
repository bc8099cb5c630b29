--------------------------- MODULE Speech_proofs ----------------------------
(***************************************************************************)
(* Proofs about the tail of a turn, for any number of sentences, any       *)
(* capacity of the channel between the handler and the synthesis, and any  *)
(* tokens.                                                                 *)
(***************************************************************************)
EXTENDS ReplyStream, SentenceBuffer, Integers, FiniteSetTheorems, SequenceTheorems,
        WellFoundedInduction, TLAPS
-----------------------------------------------------------------------------
(***************************************************************************)
(* The reply: no sentence is lost between the buffer and the client, and   *)
(* the client is told the truth. Each sentence is accounted for where it   *)
(* is - in the channel, with the synthesis, told, or dropped with the      *)
(* error that is being written.                                            *)
(***************************************************************************)
\* The stages of the handler after the stream.
Persisting == {"persisting", "logging", "logging_content", "committing", "aborted", "releasing"}
AfterClose == Persisting \cup {"finishing", "finished"}

\* What the client has been told, or is being told, of the turn as a whole.
Verdict == (told \cup ({calls.main} \cap Verdicts)) \ {"tts_done"}

\* The stream can still bring MaxSentences sentences, and no more.
RoomForSentences ==
    /\ cut + pending + (IF tail THEN 1 ELSE 0) <= MaxSentences
    /\ stage # "cutting" => pending = 0

\* Which writes a goroutine is in, where.
WritesInPlace ==
    /\ calls.main \in {"none", "token", "tts_error", "llm_stream_error", "done", "persist_failed"}
    /\ calls.main = "tts_error" => stage \in {"cutting", "flushing"}
    /\ calls.tts \in {"none", "audio", "tts_error", "tts_done"}
    /\ lp \in {"absent", "synthesizing"} => calls.tts = "none"
    /\ stage = "finished" => calls.main = "none"

\* Only this goroutine cancels and closes, and it waits for the loop.
LoopInPlace ==
    /\ lp = "absent" <=> ~tts
    /\ cancelled => tts /\ stage \in AfterClose \cup {"aborting"}
    /\ closed => stage \in AfterClose \cup {"closing"}
    /\ stage \in AfterClose => lp \in {"absent", "exited"} /\ calls.tts = "none"
    /\ lp = "exited" /\ ~cancelled =>
          closed /\ queue = <<>> /\ ("tts_done" \in told \/ calls.tts = "tts_done")

\* No verdict before the end, one at the end.
OneVerdict ==
    /\ stage \notin {"cancelling", "aborting", "finishing", "finished"} => Verdict = {}
    /\ stage \in {"cancelling", "aborting"} => Verdict = {"llm_stream_error"}
    /\ stage \in {"finishing", "finished"} => \E v \in Verdicts \ {"tts_done"} : Verdict = {v}

\* What is committed was written, and the call is written before the commit.
StoredWithTheCall ==
    /\ stage = "committing" => {"reply", "call"} \subseteq written
    /\ stage = "logging_content" => {"reply", "call"} \subseteq written
    /\ stage = "logging" => "reply" \in written
    /\ stage = "releasing" \/ "done" \in Verdict => "reply" \in stored
    /\ "reply" \in stored => "call" \in stored

\* Where each sentence that was cut out of the buffer is to be found.
Accounted(i) ==
    \/ fate[i] \in {"audio", "error"}
    \/ fate[i] = "queued" /\ \E k \in DOMAIN queue : queue[k] = i
    \/ fate[i] = "held" /\ current = i /\ (lp = "synthesizing" \/ calls.tts \in {"audio", "tts_error"})
    \/ fate[i] = "dropped" /\ i = cut /\ calls.main = "tts_error"
    \/ fate[i] = "lost" /\ cancelled

NoSentenceForgotten == \A i \in 1..cut : Accounted(i)

\* The handler goes on to store the reply after the last sentence.
AllHeard == "tts_done" \in told /\ \A i \in 1..cut : fate[i] \in {"audio", "error"}
HeardBeforeStored ==
    tts /\ (stage \in Persisting \/ {"done", "persist_failed"} \cap Verdict # {}) => AllHeard

\* The inductive invariant.
StreamInv ==
    /\ StreamTypeOK /\ RoomForSentences /\ WritesInPlace /\ LoopInPlace /\ OneVerdict
    /\ StoredWithTheCall /\ NoSentenceForgotten /\ HeardBeforeStored
-----------------------------------------------------------------------------
\* What cutting a sentence does to the channel and to the sentence.
LEMMA OfferEffect ==
    ASSUME StreamTypeOK, cut < MaxSentences, Offer
    PROVE  /\ cut' = cut + 1 /\ cut' \in 1..MaxSentences /\ calls.main = "none"
           /\ queue' \in Seq(1..MaxSentences) /\ Len(queue') <= ChanCap
           /\ \A i \in 1..cut : fate'[i] = fate[i]
           /\ \A k \in DOMAIN queue : k \in DOMAIN queue' /\ queue'[k] = queue[k]
           /\ \/ /\ queue' = Append(queue, cut') /\ calls' = calls
                 /\ fate' = [fate EXCEPT ![cut'] = "queued"]
                 /\ Len(queue) + 1 \in DOMAIN queue' /\ queue'[Len(queue) + 1] = cut'
              \/ /\ queue' = queue /\ calls' = [calls EXCEPT !.main = "tts_error"]
                 /\ fate' = [fate EXCEPT ![cut'] = "dropped"]
  <1> USE ReplyStreamAssumption DEF StreamTypeOK, Offer, Write, Silent, Goroutines
  <1>1. CASE Len(queue) < ChanCap
    <2>1. /\ queue' = Append(queue, cut + 1) /\ calls' = calls /\ calls.main = "none"
          /\ fate' = [fate EXCEPT ![cut + 1] = "queued"] /\ cut' = cut + 1
      BY <1>1
    <2>2. /\ queue' \in Seq(1..MaxSentences) /\ Len(queue') = Len(queue) + 1
          /\ queue'[Len(queue) + 1] = cut + 1
          /\ \A k \in 1..Len(queue) : queue'[k] = queue[k]
      BY <2>1, AppendProperties
    <2>3. DOMAIN queue = 1..Len(queue) /\ DOMAIN queue' = 1..Len(queue') /\ Len(queue) \in Nat
      BY <2>2, LenProperties
    <2>4. Len(queue') <= ChanCap /\ Len(queue) + 1 \in DOMAIN queue' /\ cut' \in 1..MaxSentences
      BY <1>1, <2>1, <2>2, <2>3
    <2>5. \A k \in DOMAIN queue : k \in DOMAIN queue' /\ queue'[k] = queue[k]
      BY <2>2, <2>3
    <2>6. \A i \in 1..cut : fate'[i] = fate[i]
      BY <2>1
    <2>7. QED
      BY <2>1, <2>2, <2>4, <2>5, <2>6
  <1>2. CASE ~(Len(queue) < ChanCap)
    BY <1>2
  <1>3. QED
    BY <1>1, <1>2

\* The steps that only move main on, and those that write one event.
MovesOn ==
    StartStream \/ EndOfStream \/ TokenHandled \/ CloseChannel \/ OnError \/ Close \/ InsertReply
      \/ LogCall \/ CommitReply \/ Return
\* The steps by what they do to the sentences.
WritesOne == StreamFails \/ PersistFails \/ ReleaseAndTell \/ Synthesize \/ DrainedChannel
CutsOne == CutSentence \/ FlushTail
SomeToken == \E k \in 0..2, rest \in BOOLEAN : NextToken(k, rest)

\* Every step is of one of these kinds.
LEMMA StreamSteps ==
    StreamNext => \/ MovesOn \/ WritesOne \/ CutsOne \/ SomeToken \/ Receive \/ Interrupted
                  \/ \E g \in Goroutines : EndWrite(g)
  BY DEF StreamNext, MainStep, LoopStep, StreamOver, MovesOn, WritesOne, CutsOne, SomeToken, Goroutines

\* Every variable keeps its type; the stream never brings more sentences than
\* there is room for.
LEMMA TypesKept ==
    StreamTypeOK /\ RoomForSentences /\ [StreamNext]_streamVars => (StreamTypeOK /\ RoomForSentences)'
  <1> SUFFICES ASSUME StreamTypeOK, RoomForSentences, [StreamNext]_streamVars
               PROVE  (StreamTypeOK /\ RoomForSentences)'
    OBVIOUS
  <1> USE ReplyStreamAssumption
          DEF StreamTypeOK, RoomForSentences, Goroutines, Writes, Verdicts, bufVars, chanVars,
              loopVars, rowVars
  <1>1. CASE MovesOn
    <2>1. UNCHANGED <<tts, pending, tail, cut, queue, lp, current, calls, fate, told>>
      BY <1>1 DEF MovesOn, StartStream, EndOfStream, TokenHandled, CloseChannel, OnError, Close,
            InsertReply, LogCall, CommitReply, Return, Silent
    <2>2. /\ closed' \in BOOLEAN /\ cancelled' \in BOOLEAN
          /\ written' \subseteq Rows /\ stored' \subseteq Rows
      BY <1>1 DEF MovesOn, StartStream, EndOfStream, TokenHandled, CloseChannel, OnError, Close,
            InsertReply, LogCall, InsertLLMCall, InsertLLMCallContent, Insert, SqlError, CommitReply,
            Return, Rows
    <2>3. /\ pending = 0
          /\ stage' \in {"streaming", "flushing", "closing", "aborting", "persisting", "logging",
                        "logging_content", "committing", "aborted", "releasing", "finishing",
                        "finished"}
      BY <1>1 DEF MovesOn, StartStream, EndOfStream, TokenHandled, CloseChannel, OnError, Close,
            InsertReply, LogCall, InsertLLMCall, InsertLLMCallContent, Insert, SqlError, CommitReply,
            Return, Reach
    <2>4. QED
      BY <2>1, <2>2, <2>3
  <1>2. CASE WritesOne
    <2>1. UNCHANGED <<tts, pending, tail, cut, queue, closed, cancelled, current, fate, told, written,
                      stored>>
      BY <1>2 DEF WritesOne, StreamFails, PersistFails, ReleaseAndTell, Synthesize, DrainedChannel
    <2>2. calls' \in [Goroutines -> Writes]
      BY <1>2 DEF WritesOne, StreamFails, PersistFails, ReleaseAndTell, Synthesize, DrainedChannel,
            Write
    <2>3. lp' \in {lp, "idle", "exited"} /\ stage' \in {stage, "cancelling", "finishing"}
      BY <1>2 DEF WritesOne, StreamFails, PersistFails, ReleaseAndTell, Synthesize, DrainedChannel,
            Reach
    <2>4. stage' # "cutting" => pending = 0
      BY <1>2 DEF WritesOne, StreamFails, PersistFails, ReleaseAndTell, Synthesize, DrainedChannel,
            Reach
    <2>5. QED
      BY <2>1, <2>2, <2>3, <2>4
  <1>3. CASE CutsOne
    <2>1. cut < MaxSentences /\ Offer
      BY <1>3 DEF CutsOne, CutSentence, FlushTail
    <2>2. /\ cut' = cut + 1 /\ cut' \in 1..MaxSentences /\ queue' \in Seq(1..MaxSentences)
          /\ Len(queue') <= ChanCap
          /\ calls' \in {calls, [calls EXCEPT !.main = "tts_error"]}
          /\ fate' \in {[fate EXCEPT ![cut'] = "queued"], [fate EXCEPT ![cut'] = "dropped"]}
      BY <2>1, OfferEffect
    <2>3. UNCHANGED <<tts, stage, closed, cancelled, lp, current, told, written, stored>>
      BY <1>3 DEF CutsOne, CutSentence, FlushTail
    <2>4. RoomForSentences' /\ pending' \in 0..MaxSentences /\ tail' \in BOOLEAN
      <3>1. CASE CutSentence
        BY <2>2, <3>1 DEF CutSentence
      <3>2. CASE FlushTail
        <4>1. pending = 0 /\ pending' = 0 /\ stage' = stage /\ tail' = FALSE
          BY <3>2 DEF FlushTail
        <4>2. cut' + 0 + 0 <= MaxSentences /\ 0 \in 0..MaxSentences
          BY <2>2
        <4>3. (IF tail' THEN 1 ELSE 0) = 0
          BY <4>1
        <4>4. cut' + pending' + (IF tail' THEN 1 ELSE 0) <= MaxSentences
          BY <4>1, <4>2, <4>3
        <4>5. QED
          BY <4>1, <4>2, <4>4
      <3>3. QED
        BY <1>3, <3>1, <3>2 DEF CutsOne
    <2>5. calls' \in [Goroutines -> Writes]
      BY <2>2
    <2>6. fate' \in [1..MaxSentences -> {"none", "queued", "dropped", "held", "lost", "audio", "error"}]
      BY <2>2
    <2>7. QED
      BY <2>2, <2>3, <2>4, <2>5, <2>6
  <1>4. CASE SomeToken
    BY <1>4 DEF SomeToken, NextToken, FanOut, WriteToken, Write, Reach
  <1>5. CASE Receive
    BY <1>5 DEF Receive
  <1>6. CASE Interrupted \/ UNCHANGED streamVars
    <2>1. /\ UNCHANGED <<tts, stage, bufVars, chanVars, current, calls, fate, told, rowVars>>
          /\ lp' \in {lp, "exited"}
      BY <1>6 DEF Interrupted, streamVars
    <2>2. QED
      BY <2>1
  <1>7. ASSUME NEW g \in Goroutines, EndWrite(g) PROVE (StreamTypeOK /\ RoomForSentences)'
    <2>1. fate' \in {fate, [fate EXCEPT ![Subject(g)] = "audio"], [fate EXCEPT ![Subject(g)] = "error"]}
      BY <1>7 DEF EndWrite
    <2>2. fate' \in [1..MaxSentences -> {"none", "queued", "dropped", "held", "lost", "audio", "error"}]
      BY <2>1
    <2>3. QED
      BY <1>7, <2>2 DEF EndWrite
  <1>8. QED
    BY <1>1, <1>2, <1>3, <1>4, <1>5, <1>6, <1>7, StreamSteps

\* The two goroutines stay in step.
LEMMA PlacesKept ==
    StreamInv /\ [StreamNext]_streamVars => (WritesInPlace /\ LoopInPlace)'
  <1> SUFFICES ASSUME StreamInv, [StreamNext]_streamVars PROVE (WritesInPlace /\ LoopInPlace)'
    OBVIOUS
  <1> USE DEF StreamInv, StreamTypeOK, WritesInPlace, LoopInPlace, AfterClose, Persisting,
              Goroutines, bufVars, chanVars, loopVars, rowVars
  <1>1. CASE MovesOn
    BY <1>1 DEF MovesOn, StartStream, EndOfStream, TokenHandled, CloseChannel, OnError, Close,
          InsertReply, LogCall, InsertLLMCall, InsertLLMCallContent, Insert, SqlError, CommitReply,
            Return, Reach, Silent
  <1>2. CASE WritesOne
    BY <1>2 DEF WritesOne, StreamFails, PersistFails, ReleaseAndTell, Synthesize, DrainedChannel,
          Reach, Write
  <1>3. CASE CutsOne
    BY <1>3 DEF CutsOne, CutSentence, FlushTail, Offer, Write, Silent
  <1>4. CASE SomeToken
    BY <1>4 DEF SomeToken, NextToken, FanOut, WriteToken, Write, Reach
  <1>5. CASE Receive \/ Interrupted \/ UNCHANGED streamVars
    BY <1>5 DEF Receive, Interrupted, streamVars
  <1>6. ASSUME NEW g \in Goroutines, EndWrite(g) PROVE (WritesInPlace /\ LoopInPlace)'
    BY <1>6 DEF EndWrite, Verdicts
  <1>7. QED
    BY <1>1, <1>2, <1>3, <1>4, <1>5, <1>6, StreamSteps

\* No step adds a second verdict.
LEMMA VerdictKept == StreamInv /\ [StreamNext]_streamVars => OneVerdict'
  <1> SUFFICES ASSUME StreamInv, [StreamNext]_streamVars PROVE OneVerdict'
    OBVIOUS
  <1> USE DEF StreamInv, StreamTypeOK, WritesInPlace, OneVerdict, Goroutines
  <1>1. CASE MovesOn
    <2>1. Verdict' = Verdict
      BY <1>1 DEF MovesOn, StartStream, EndOfStream, TokenHandled, CloseChannel, OnError, Close,
            InsertReply, LogCall, CommitReply, Return, Silent, Verdict
    <2>2. CASE OnError \/ Return
      BY <2>1, <2>2 DEF OnError, Return, Reach, rowVars
    <2>3. CASE Close
      <3>1. "llm_stream_error" \in Verdicts \ {"tts_done"}
        BY DEF Verdicts
      <3>2. QED
        BY <2>1, <2>3, <3>1 DEF Close, Reach, rowVars
    <2>4. CASE CommitReply
      BY <2>1, <2>4 DEF CommitReply, Reach
    <2>5. CASE StartStream \/ EndOfStream \/ TokenHandled \/ CloseChannel \/ InsertReply \/ LogCall
      BY <2>1, <2>5 DEF StartStream, EndOfStream, TokenHandled, CloseChannel, InsertReply, LogCall,
            InsertLLMCall, InsertLLMCallContent, Insert, SqlError, Reach, rowVars
    <2>6. QED
      BY <1>1, <2>2, <2>3, <2>4, <2>5 DEF MovesOn
  <1>2. CASE StreamFails \/ PersistFails \/ ReleaseAndTell
    <2>1. PICK v \in Verdicts \ {"tts_done"} :
             /\ calls.main = "none" /\ calls' = [calls EXCEPT !.main = v] /\ told' = told
             /\ v = "llm_stream_error" => StreamFails
             /\ v = "persist_failed" => PersistFails
             /\ v = "done" => ReleaseAndTell
      BY <1>2 DEF StreamFails, PersistFails, ReleaseAndTell, Write, Verdicts
    <2>2. Verdict = {}
      BY <1>2 DEF StreamFails, PersistFails, ReleaseAndTell
    <2>3. Verdict' = {v}
      BY <2>1, <2>2 DEF Verdict, Verdicts
    <2>4. CASE StreamFails
      <3>1. v = "llm_stream_error"
        BY <2>1, <2>4 DEF StreamFails, PersistFails, ReleaseAndTell, Verdicts, Reach
      <3>2. QED
        BY <2>3, <2>4, <3>1 DEF StreamFails, Reach, rowVars
    <2>5. CASE PersistFails
      <3>1. v = "persist_failed"
        BY <2>1, <2>5 DEF StreamFails, PersistFails, ReleaseAndTell, Verdicts, Reach
      <3>2. QED
        BY <2>3, <2>5, <3>1 DEF PersistFails, Reach, rowVars, Verdicts
    <2>6. CASE ReleaseAndTell
      BY <2>1, <2>3, <2>6 DEF ReleaseAndTell, Reach, rowVars
    <2>7. QED
      BY <1>2, <2>4, <2>5, <2>6
  <1>3. ASSUME UNCHANGED <<stage, told>>, calls'.main = calls.main
        PROVE  OneVerdict'
    BY <1>3 DEF Verdict
  <1>4. CASE Synthesize \/ DrainedChannel \/ Receive \/ Interrupted \/ UNCHANGED streamVars
    BY <1>3, <1>4 DEF Synthesize, DrainedChannel, Receive, Interrupted, Write, streamVars, rowVars
  <1>5. CASE CutsOne \/ SomeToken
    <2>1. Verdict' = Verdict
      BY <1>5 DEF CutsOne, CutSentence, FlushTail, Offer, SomeToken, NextToken, FanOut, WriteToken,
            Write, Silent, rowVars, Verdict, Verdicts
    <2>2. /\ stage \notin {"cancelling", "aborting", "finishing", "finished", "releasing"}
          /\ stage' \notin {"cancelling", "aborting", "finishing", "finished", "releasing"}
      BY <1>5 DEF CutsOne, CutSentence, FlushTail, SomeToken, NextToken, Reach
    <2>3. QED
      BY <2>1, <2>2
  <1>6. ASSUME NEW g \in Goroutines, EndWrite(g) PROVE OneVerdict'
    <2>1. UNCHANGED stage
      BY <1>6 DEF EndWrite
    <2>2. Verdict' = Verdict
      BY <1>6 DEF EndWrite, Verdict, Verdicts
    <2>3. QED
      BY <2>1, <2>2
  <1>7. QED
    BY <1>1, <1>2, <1>4, <1>5, <1>6, StreamSteps DEF WritesOne

\* What is stored was written before; "done" is only said of it.
LEMMA StoredKept == StreamInv /\ [StreamNext]_streamVars => StoredWithTheCall'
  <1> SUFFICES ASSUME StreamInv, [StreamNext]_streamVars PROVE StoredWithTheCall'
    OBVIOUS
  <1> USE DEF StreamInv, StreamTypeOK, StoredWithTheCall, Goroutines
  <1>1. CASE MovesOn
    <2>1. Verdict' = Verdict
      BY <1>1 DEF MovesOn, StartStream, EndOfStream, TokenHandled, CloseChannel, OnError, Close,
            InsertReply, LogCall, CommitReply, Return, Silent, Verdict
    <2>2. CASE InsertReply \/ LogCall
      BY <2>1, <2>2 DEF InsertReply, LogCall, InsertLLMCall, InsertLLMCallContent, Insert, SqlError,
            Reach
    <2>3. CASE CommitReply
      BY <2>1, <2>3 DEF CommitReply, Reach
    <2>4. CASE StartStream \/ EndOfStream \/ TokenHandled \/ CloseChannel \/ OnError \/ Close \/ Return
      BY <2>1, <2>4 DEF StartStream, EndOfStream, TokenHandled, CloseChannel, OnError, Close, Return,
            Reach, rowVars
    <2>5. QED
      BY <1>1, <2>2, <2>3, <2>4 DEF MovesOn
  <1>2. CASE StreamFails \/ PersistFails
    <2>1. "done" \in Verdict' => "done" \in Verdict
      BY <1>2 DEF StreamFails, PersistFails, Write, Verdict
    <2>2. QED
      BY <1>2, <2>1 DEF StreamFails, PersistFails, Reach, rowVars
  <1>3. CASE ReleaseAndTell
    BY <1>3 DEF ReleaseAndTell, Reach, rowVars
  <1>4. CASE Synthesize \/ DrainedChannel \/ Receive \/ Interrupted \/ UNCHANGED streamVars
    <2>1. Verdict' = Verdict
      BY <1>4 DEF Synthesize, DrainedChannel, Receive, Interrupted, Write, streamVars, Verdict
    <2>2. QED
      BY <1>4, <2>1 DEF Synthesize, DrainedChannel, Receive, Interrupted, streamVars, rowVars
  <1>5. CASE CutsOne \/ SomeToken
    <2>1. Verdict' = Verdict
      BY <1>5 DEF CutsOne, CutSentence, FlushTail, Offer, SomeToken, NextToken, FanOut, WriteToken,
            Write, Silent, Verdict, Verdicts
    <2>2. QED
      BY <1>5, <2>1 DEF CutsOne, CutSentence, FlushTail, SomeToken, NextToken, Reach, rowVars
  <1>6. ASSUME NEW g \in Goroutines, EndWrite(g) PROVE StoredWithTheCall'
    <2>1. Verdict' = Verdict
      BY <1>6 DEF EndWrite, WritesInPlace, Verdict, Verdicts
    <2>2. QED
      BY <1>6, <2>1 DEF EndWrite, rowVars
  <1>7. QED
    BY <1>1, <1>2, <1>3, <1>4, <1>5, <1>6, StreamSteps DEF WritesOne

\* No step loses sight of a sentence.
LEMMA SentencesKept == StreamInv /\ [StreamNext]_streamVars => NoSentenceForgotten'
  <1> SUFFICES ASSUME StreamInv, [StreamNext]_streamVars PROVE NoSentenceForgotten'
    OBVIOUS
  <1> USE DEF StreamInv, StreamTypeOK, WritesInPlace, Goroutines
  <1>1. ASSUME UNCHANGED <<cut, queue, lp, current, fate>>, cancelled => cancelled',
               calls'.tts = calls.tts, calls.main = "tts_error" => calls'.main = "tts_error"
        PROVE  NoSentenceForgotten'
    BY <1>1 DEF NoSentenceForgotten, Accounted
  <1>2. CASE MovesOn
    <2>1. UNCHANGED <<cut, queue, lp, current, fate, calls>>
      BY <1>2 DEF MovesOn, StartStream, EndOfStream, TokenHandled, CloseChannel, OnError, Close,
            InsertReply, LogCall, CommitReply, Return, Silent, bufVars, chanVars, loopVars
    <2>2. cancelled => cancelled'
      BY <1>2 DEF MovesOn, StartStream, EndOfStream, TokenHandled, CloseChannel, OnError, Close,
            InsertReply, LogCall, CommitReply, Return, Reach, chanVars, LoopInPlace, AfterClose,
            Persisting
    <2>3. QED
      BY <1>1, <2>1, <2>2
  <1>3. CASE StreamFails \/ PersistFails \/ ReleaseAndTell \/ SomeToken \/ UNCHANGED streamVars
    BY <1>1, <1>3 DEF StreamFails, PersistFails, ReleaseAndTell, SomeToken, NextToken, FanOut,
          WriteToken, Write, streamVars, bufVars, chanVars, loopVars
  <1>4. CASE Synthesize \/ DrainedChannel \/ Interrupted
    BY <1>4 DEF Synthesize, DrainedChannel, Interrupted, Write, bufVars, chanVars,
          NoSentenceForgotten, Accounted, LoopInPlace
  <1>5. CASE CutsOne
    <2>1. cut < MaxSentences /\ Offer /\ UNCHANGED <<lp, current, cancelled>>
      BY <1>5, ReplyStreamAssumption DEF CutsOne, CutSentence, FlushTail, RoomForSentences, loopVars
    <2>2. ASSUME NEW i \in 1..cut PROVE Accounted(i)'
      <3>1. Accounted(i) /\ fate[i] # "dropped" /\ fate'[i] = fate[i] /\ calls'.tts = calls.tts
        BY <2>1, OfferEffect DEF NoSentenceForgotten, Accounted
      <3>2. \A k \in DOMAIN queue : k \in DOMAIN queue' /\ queue'[k] = queue[k]
        BY <2>1, OfferEffect
      <3>3. QED
        BY <2>1, <3>1, <3>2 DEF Accounted
    <2>3. ASSUME NEW i \in 1..MaxSentences, i = cut' PROVE Accounted(i)'
      <3>1. CASE fate' = [fate EXCEPT ![i] = "queued"] /\ \E k \in DOMAIN queue' : queue'[k] = i
        BY <3>1 DEF Accounted
      <3>2. CASE fate' = [fate EXCEPT ![i] = "dropped"] /\ calls' = [calls EXCEPT !.main = "tts_error"]
        BY <2>3, <3>2 DEF Accounted
      <3>3. QED
        BY <2>1, <2>3, <3>1, <3>2, OfferEffect
    <2>4. \A i \in 1..cut' : i \in 1..cut \/ (i = cut' /\ i \in 1..MaxSentences)
      BY <2>1, OfferEffect
    <2>5. QED
      BY <2>2, <2>3, <2>4 DEF NoSentenceForgotten
  <1>6. CASE Receive
    <2>1. ASSUME NEW i \in 1..cut PROVE Accounted(i)'
      <3>1. i \in 1..MaxSentences
        BY ReplyStreamAssumption
      <3>2. CASE i = Head(queue)
        BY <1>6, <3>1, <3>2 DEF Receive, Accounted
      <3>3. CASE i # Head(queue)
        <4>1. fate'[i] = fate[i]
          BY <1>6, <3>3 DEF Receive
        <4>2. ASSUME NEW k \in DOMAIN queue, queue[k] = i
              PROVE  \E l \in DOMAIN queue' : queue'[l] = i
          <5>1. queue' = Tail(queue) /\ queue # <<>>
            BY <1>6 DEF Receive
          <5>2. k # 1 /\ k \in 1..Len(queue)
            BY <3>3, <4>2
          <5>3. k - 1 \in DOMAIN queue' /\ queue'[k - 1] = queue[k]
            BY <5>1, <5>2
          <5>4. QED
            BY <4>2, <5>3
        <4>3. fate[i] # "held"
          BY <1>6 DEF Receive, NoSentenceForgotten, Accounted
        <4>4. QED
          BY <1>6, <4>1, <4>2, <4>3 DEF Receive, NoSentenceForgotten, Accounted, bufVars
      <3>4. QED
        BY <3>2, <3>3
    <2>2. QED
      BY <1>6, <2>1 DEF Receive, NoSentenceForgotten, bufVars
  <1>7. ASSUME NEW g \in Goroutines, EndWrite(g) PROVE NoSentenceForgotten'
    BY <1>7, ReplyStreamAssumption DEF EndWrite, Subject, NoSentenceForgotten, Accounted, bufVars,
          chanVars, loopVars, LoopInPlace, Verdicts
  <1>8. QED
    BY <1>2, <1>3, <1>4, <1>5, <1>6, <1>7, StreamSteps DEF WritesOne

\* Nothing is stored before all is heard.
LEMMA HeardKept == StreamInv /\ [StreamNext]_streamVars => HeardBeforeStored'
  <1> SUFFICES ASSUME StreamInv, [StreamNext]_streamVars PROVE HeardBeforeStored'
    OBVIOUS
  <1> DEFINE Settled == tts /\ (stage \in Persisting \/ {"done", "persist_failed"} \cap Verdict # {})
  <1> USE DEF StreamInv, StreamTypeOK, Goroutines
  <1>1. Settled => stage \in AfterClose
    BY DEF OneVerdict, AfterClose, Persisting
  <1>2. ASSUME Settled PROVE AllHeard'
    <2>1. AllHeard /\ stage \in AfterClose /\ lp \in {"absent", "exited"} /\ calls.tts = "none"
      BY <1>1, <1>2 DEF HeardBeforeStored, LoopInPlace
    <2>2. calls.main # "tts_error" /\ calls.main # "audio"
      BY <2>1 DEF WritesInPlace, AfterClose, Persisting
    <2>3. UNCHANGED <<cut, fate>> /\ told \subseteq told'
      <3>1. CASE MovesOn
        BY <3>1 DEF MovesOn, StartStream, EndOfStream, TokenHandled, CloseChannel, OnError, Close,
              InsertReply, LogCall, CommitReply, Return, bufVars
      <3>2. CASE WritesOne \/ Interrupted \/ UNCHANGED streamVars
        BY <3>2 DEF WritesOne, StreamFails, PersistFails, ReleaseAndTell, Synthesize, DrainedChannel,
              Interrupted, streamVars, bufVars
      <3>3. CASE CutsOne \/ SomeToken \/ Receive
        BY <2>1, <3>3 DEF CutsOne, CutSentence, FlushTail, SomeToken, NextToken, Receive, AfterClose,
              Persisting
      <3>4. ASSUME NEW g \in Goroutines, EndWrite(g)
            PROVE  UNCHANGED <<cut, fate>> /\ told \subseteq told'
        BY <2>1, <2>2, <3>4 DEF EndWrite, bufVars
      <3>5. QED
        BY <3>1, <3>2, <3>3, <3>4, StreamSteps
    <2>4. QED
      BY <2>1, <2>3 DEF AllHeard
  <1>3. ASSUME Close, tts, stage = "closing" PROVE AllHeard'
    <2>1. /\ lp = "exited" /\ ~cancelled /\ calls.tts = "none" /\ calls.main = "none"
          /\ UNCHANGED <<cut, fate, told>>
      BY <1>3 DEF Close, LoopInPlace, Silent, AfterClose, Persisting, bufVars
    <2>2. "tts_done" \in told /\ queue = <<>>
      BY <2>1 DEF LoopInPlace
    <2>3. \A i \in 1..cut : fate[i] \in {"audio", "error"}
      BY <2>1, <2>2 DEF NoSentenceForgotten, Accounted
    <2>4. QED
      BY <2>1, <2>2, <2>3 DEF AllHeard
  <1>4. ASSUME Settled', ~Settled PROVE Close /\ tts /\ stage = "closing"
    <2>1. CASE MovesOn
      <3>1. Verdict' = Verdict /\ tts' = tts
        BY <2>1 DEF MovesOn, StartStream, EndOfStream, TokenHandled, CloseChannel, OnError, Close,
              InsertReply, LogCall, CommitReply, Return, Silent, Verdict
      <3>2. stage' \in Persisting /\ stage \notin Persisting
        BY <1>4, <3>1
      <3>3. QED
        BY <1>4, <2>1, <3>1, <3>2 DEF MovesOn, StartStream, EndOfStream, TokenHandled, CloseChannel,
              OnError, Close, InsertReply, LogCall, InsertLLMCall, InsertLLMCallContent, Insert, SqlError,
              CommitReply, Return, Reach, Persisting
    <2>2. CASE StreamFails
      <3>1. Verdict = {} /\ Verdict' = {"llm_stream_error"}
        BY <2>2 DEF StreamFails, Write, OneVerdict, Verdict, Verdicts
      <3>2. QED
        BY <1>4, <2>2, <3>1 DEF StreamFails, Reach, Persisting
    <2>3. CASE PersistFails \/ ReleaseAndTell
      BY <1>4, <2>3 DEF PersistFails, ReleaseAndTell, Persisting
    <2>4. CASE Synthesize \/ DrainedChannel \/ Receive \/ Interrupted \/ UNCHANGED streamVars
      BY <1>4, <2>4 DEF Synthesize, DrainedChannel, Receive, Interrupted, Write, streamVars, Verdict
    <2>5. CASE CutsOne \/ SomeToken
      <3>1. Verdict' = Verdict /\ tts' = tts
        BY <2>5 DEF CutsOne, CutSentence, FlushTail, Offer, SomeToken, NextToken, FanOut, WriteToken,
              Write, Silent, Verdict, Verdicts
      <3>2. QED
        BY <1>4, <2>5, <3>1 DEF CutsOne, CutSentence, FlushTail, SomeToken, NextToken, Reach, Persisting
    <2>6. ASSUME NEW g \in Goroutines, EndWrite(g) PROVE FALSE
      <3>1. Verdict' = Verdict
        BY <2>6 DEF EndWrite, WritesInPlace, Verdict, Verdicts
      <3>2. QED
        BY <1>4, <2>6, <3>1 DEF EndWrite
    <2>7. QED
      BY <2>1, <2>2, <2>3, <2>4, <2>5, <2>6, StreamSteps DEF WritesOne
  <1>5. QED
    BY <1>2, <1>3, <1>4 DEF HeardBeforeStored
-----------------------------------------------------------------------------
\* Hence it always holds.
LEMMA StreamInvariant == StreamSpec => []StreamInv
  <1>1. StreamInit => StreamInv
    <2> SUFFICES ASSUME StreamInit PROVE StreamInv
      OBVIOUS
    <2>1. StreamTypeOK /\ RoomForSentences
      <3>1. <<>> \in Seq(1..MaxSentences) /\ Len(<<>>) = 0
        BY EmptySeq
      <3>2. queue \in Seq(1..MaxSentences) /\ Len(queue) <= ChanCap
        BY <3>1, ReplyStreamAssumption DEF StreamInit
      <3>3. cut + pending + (IF tail THEN 1 ELSE 0) <= MaxSentences /\ 0 \in 0..MaxSentences
        BY ReplyStreamAssumption DEF StreamInit
      <3>4. QED
        BY <3>2, <3>3 DEF StreamInit, StreamTypeOK, RoomForSentences, Verdicts, Writes, Goroutines
    <2>2. WritesInPlace /\ LoopInPlace
      BY DEF StreamInit, WritesInPlace, LoopInPlace, AfterClose, Persisting, Goroutines
    <2>3. Verdict = {}
      BY DEF StreamInit, Verdict, Verdicts, Goroutines
    <2>4. OneVerdict /\ HeardBeforeStored
      BY <2>3 DEF StreamInit, OneVerdict, HeardBeforeStored, Persisting
    <2>5. NoSentenceForgotten
      BY DEF StreamInit, NoSentenceForgotten
    <2>6. StoredWithTheCall
      BY <2>3 DEF StreamInit, StoredWithTheCall
    <2>7. QED
      BY <2>1, <2>2, <2>4, <2>5, <2>6 DEF StreamInv
  <1>2. StreamInv /\ [StreamNext]_streamVars => StreamInv'
    BY TypesKept, PlacesKept, VerdictKept, StoredKept, SentencesKept, HeardKept DEF StreamInv
  <1>3. QED
    BY <1>1, <1>2, PTL DEF StreamSpec

(***************************************************************************)
(* Every variable of the reply keeps its type, whatever the stream brings  *)
(* and wherever it breaks.                                                 *)
(***************************************************************************)
THEOREM StreamTypes == StreamSpec => []StreamTypeOK
  <1>1. StreamInv => StreamTypeOK
    BY DEF StreamInv
  <1>2. QED
    BY <1>1, StreamInvariant, PTL

(***************************************************************************)
(* The client hears "done" only of a reply that is stored, and a reply is  *)
(* stored with the LLM call that made it, or not at all: not even when     *)
(* only the insert of the call failed.                                     *)
(***************************************************************************)
THEOREM DoneRepliesStored == StreamSpec => []DoneMeansStored
  <1>1. StreamInv => DoneMeansStored
    BY DEF StreamInv, StoredWithTheCall, Verdict, Verdicts, DoneMeansStored
  <1>2. QED
    BY <1>1, StreamInvariant, PTL

(***************************************************************************)
(* When the handler has returned, the synthesis has too, no write to the   *)
(* stream is in progress, and the client has had one verdict.              *)
(***************************************************************************)
THEOREM ReturnsQuietly == StreamSpec => []QuietAfterReturn
  <1>1. StreamInv => QuietAfterReturn
    <2> SUFFICES ASSUME StreamInv, stage = "finished"
                 PROVE  /\ lp \in {"absent", "exited"} /\ \A g \in Goroutines : calls[g] = "none"
                        /\ \E v \in Verdicts \ {"tts_done"} : told \ {"tts_done"} = {v}
      BY DEF QuietAfterReturn
    <2>1. calls.main = "none" /\ calls.tts = "none" /\ lp \in {"absent", "exited"}
      BY DEF StreamInv, WritesInPlace, LoopInPlace, AfterClose
    <2>2. Verdict = told \ {"tts_done"}
      BY <2>1 DEF Verdict, Verdicts
    <2>3. QED
      BY <2>1, <2>2 DEF StreamInv, OneVerdict, Goroutines
  <1>2. QED
    BY <1>1, StreamInvariant, PTL

(***************************************************************************)
(* By the time the reply is stored, or reported as not stored, every       *)
(* sentence of it has been heard or reported as silent and the end of the  *)
(* audio has been announced, however the channel fills up.                 *)
(***************************************************************************)
THEOREM RepliesAreHeard == StreamSpec => []HeardOrReported
  <1>1. StreamInv => HeardOrReported
    <2>1. {"done", "persist_failed"} \cap told # {} => {"done", "persist_failed"} \cap Verdict # {}
      BY DEF Verdict
    <2>2. QED
      BY <2>1 DEF StreamInv, HeardBeforeStored, AllHeard, Persisting, HeardOrReported
  <1>2. QED
    BY <1>1, StreamInvariant, PTL
-----------------------------------------------------------------------------
(***************************************************************************)
(* The sentence buffer. While it is cut, the buffer is the text after the  *)
(* last cut, and the sentences are those up to there.                      *)
(***************************************************************************)
\* Among natural numbers there is a least.
LEMMA Least ==
    ASSUME NEW T \in SUBSET Nat, T # {}
    PROVE  \E i \in T : \A j \in T : i <= j
  <1> DEFINE R == {ss \in Nat \X Nat : ss[1] < ss[2]}
  <1>1. IsWellFoundedOn(R, Nat)
    BY NatLessThanWellFounded DEF OpToRel
  <1>2. PICK i \in T : \A j \in T : <<j, i>> \notin R
    <2> HIDE DEF R
    <2>1. QED
      BY <1>1, WFMin
  <1>3. ASSUME NEW j \in T PROVE i <= j
    <2>1. i \in Nat /\ j \in Nat
      OBVIOUS
    <2>2. j < i => <<j, i>> \in R
      BY <2>1
    <2>3. ~(j < i)
      BY <1>2, <2>2
    <2>4. QED
      BY <2>1, <2>3
  <1>4. QED
    BY <1>3

\* The boundaries up to b, and whether b is the k-th.
Upto(s, b) == {j \in Ends(s) : j <= b}
EndsKth(s, k, b) == b \in Ends(s) /\ Cardinality(Upto(s, b)) = k

\* What a boundary is.
LEMMA EndsAre ==
    ASSUME NEW s \in Seq(Chars)
    PROVE  /\ Len(s) \in Nat
           /\ \A i \in Int : i \in Ends(s) <=> i >= 2 /\ i <= Len(s) /\ s[i - 1] = "stop"
              /\ s[i] = "space"
           /\ \A i \in Ends(s) : i \in 2..Len(s)
  <1>1. Len(s) \in Nat
    BY LenProperties
  <1>2. \A i \in 2..Len(s) : i \in Ends(s) <=> s[i - 1] = "stop" /\ s[i] = "space"
    BY DEF Ends
  <1>3. \A i \in Ends(s) : i \in 2..Len(s)
    BY DEF Ends
  <1>4. \A i \in Int : i \in Ends(s) <=> i >= 2 /\ i <= Len(s) /\ s[i - 1] = "stop" /\ s[i] = "space"
    BY <1>1, <1>2, <1>3
  <1>5. QED
    BY <1>1, <1>3, <1>4

\* There are finitely many.
LEMMA UptoFinite ==
    ASSUME NEW s \in Seq(Chars), NEW b
    PROVE  /\ IsFiniteSet(Ends(s)) /\ Ends(s) \in SUBSET (2..Len(s)) /\ Ends(s) \in SUBSET Nat
           /\ IsFiniteSet(Upto(s, b)) /\ Cardinality(Upto(s, b)) \in Nat
  <1>1. Len(s) \in Nat /\ Ends(s) \in SUBSET (2..Len(s)) /\ Ends(s) \in SUBSET Nat
    <2>1. Len(s) \in Nat /\ \A i \in Ends(s) : i \in 2..Len(s)
      BY EndsAre
    <2>2. \A i \in 2..Len(s) : i \in Nat
      BY <2>1
    <2>3. QED
      BY <2>1, <2>2
  <1>2. IsFiniteSet(2..Len(s))
    BY <1>1, FS_Interval
  <1>3. IsFiniteSet(Ends(s))
    BY <1>1, <1>2, FS_Subset
  <1>4. Upto(s, b) \in SUBSET Ends(s)
    BY DEF Upto
  <1>5. IsFiniteSet(Upto(s, b)) /\ Cardinality(Upto(s, b)) \in Nat
    BY <1>3, <1>4, FS_Subset, FS_CardinalityType
  <1>6. QED
    BY <1>1, <1>3, <1>5

\* Two are not both the k-th.
LEMMA KthIsOne ==
    ASSUME NEW s \in Seq(Chars), NEW k, NEW b, NEW c, EndsKth(s, k, b), EndsKth(s, k, c), b < c
    PROVE  FALSE
  <1>1. Upto(s, b) \in SUBSET Upto(s, c) /\ c \in Upto(s, c) /\ c \notin Upto(s, b)
    <2>1. b \in Ends(s) /\ c \in Ends(s) /\ \A j \in Ends(s) : j \in Nat
      BY UptoFinite DEF EndsKth
    <2>2. \A j \in Ends(s) : j <= b => j <= c
      BY <2>1
    <2>3. c <= c /\ ~(c <= b)
      BY <2>1
    <2>4. QED
      BY <2>1, <2>2, <2>3 DEF Upto
  <1>2. Upto(s, c) = Upto(s, b)
    BY <1>1, UptoFinite, FS_Subset DEF EndsKth
  <1>3. QED
    BY <1>1, <1>2

\* Before finds it.
LEMMA KthIsBefore ==
    ASSUME NEW s \in Seq(Chars), NEW k \in Nat \ {0}, NEW b, EndsKth(s, k, b)
    PROVE  Before(s, k) = b
  <1>1. Before(s, k) = CHOOSE i \in Ends(s) : Cardinality({j \in Ends(s) : j <= i}) = k
    BY DEF Before
  <1>2. b \in Ends(s) /\ Cardinality({j \in Ends(s) : j <= b}) = k
    BY DEF EndsKth, Upto
  <1>3. EndsKth(s, k, Before(s, k))
    BY <1>1, <1>2 DEF EndsKth, Upto
  <1>4. b \in Nat /\ Before(s, k) \in Nat
    BY <1>2, <1>3, UptoFinite DEF EndsKth
  <1>5. ~(b < Before(s, k)) /\ ~(Before(s, k) < b)
    BY <1>3, KthIsOne
  <1>6. QED
    BY <1>4, <1>5

\* Where the buffer begins in the text, and how many sentences have been cut.
Base == Len(text) - Len(buf)
Cuts == Len(sentences)

\* The types.
BufferTypes ==
    /\ text \in Seq(Chars) /\ buf \in Seq(Chars)
    /\ phase \in {"open", "cutting", "done"} /\ Base \in Nat

\* Between tokens and while it cuts, the buffer is the text after the last cut.
BufferInStep ==
    phase \in {"open", "cutting"} =>
        /\ sentences \in Seq(Seq(Chars))
        /\ buf = SubSeq(text, Base + 1, Len(text))
        /\ Cardinality(Upto(text, Base)) = Cuts
        /\ Before(text, Cuts) = Base
        /\ \A k \in 1..Cuts : EndsKth(text, k, Before(text, k)) /\ Before(text, k) <= Base
        /\ sentences = [k \in 1..Cuts |-> SubSeq(text, Before(text, k - 1) + 1, Before(text, k))]

\* The inductive invariant.
BufferInv ==
    /\ BufferTypes /\ BufferInStep
    /\ phase = "open" => Ends(buf) = {}
    /\ phase = "done" => ChoppingIsInvisible

\* A boundary does not straddle a cut.
LEMMA EndsAfterBase ==
    ASSUME BufferInv, phase \in {"open", "cutting"}
    PROVE  /\ Ends(buf) = {i \in 1..Len(buf) : Base + i \in Ends(text)}
           /\ Base \in Nat /\ Base + Len(buf) = Len(text)
           /\ \A i \in 1..Len(buf) : buf[i] = text[Base + i]
  <1>0. /\ text \in Seq(Chars) /\ buf \in Seq(Chars) /\ Base \in Nat /\ Cuts \in Nat
        /\ buf = SubSeq(text, Base + 1, Len(text)) /\ Before(text, Cuts) = Base
        /\ \A k \in 1..Cuts : EndsKth(text, k, Before(text, k))
    BY LenProperties DEF BufferInv, BufferTypes, BufferInStep, Cuts
  <1>b. buf \in Seq(Chars) /\ text \in Seq(Chars) /\ Base \in Nat
    BY <1>0
  <1>1. Base + Len(buf) = Len(text) /\ Len(buf) \in Nat /\ Len(text) \in Nat
    <2>1. Len(buf) \in Nat /\ Len(text) \in Nat
      BY <1>0, LenProperties
    <2>2. QED
      BY <2>1 DEF Base
  <1>2. ASSUME NEW i \in 1..Len(buf) PROVE buf[i] = text[Base + i]
    <2>1. /\ Base + 1 \in Int /\ \A j \in (Base + 1)..Len(text) : j \in 1..Len(text)
          /\ i \in 1..(Len(text) - (Base + 1)) + 1 /\ ((Base + 1) + i) - 1 = Base + i
      BY <1>0, <1>1
    <2>2. \A j \in (Base + 1)..Len(text) : text[j] \in Chars
      BY <1>0, <2>1, ElementOfSeq
    <2>3. SubSeq(text, Base + 1, Len(text))[i] = text[((Base + 1) + i) - 1]
      BY <1>1, <2>1, <2>2, SubSeqProperties
    <2>4. QED
      BY <1>0, <2>1, <2>3
  <1>3. 1 \in 1..Len(buf) => Base + 1 \notin Ends(text)
    <2>1. CASE Cuts = 0
      <3>1. Base = 0
        BY <1>0, <2>1 DEF Before
      <3>2. 0 + 1 \notin Ends(text)
        BY <1>0, <1>1, EndsAre
      <3>3. QED
        BY <3>1, <3>2
    <2>2. CASE Cuts # 0
      <3>1. Cuts \in 1..Cuts
        BY <1>0, <2>2
      <3>2. Base \in Ends(text)
        BY <1>0, <3>1 DEF EndsKth
      <3>3. text[Base] = "space" /\ (Base + 1) - 1 = Base
        BY <1>0, <1>1, <3>2, EndsAre
      <3>4. QED
        BY <1>0, <3>3, EndsAre
    <2>3. QED
      BY <2>1, <2>2
  <1>4. ASSUME NEW i \in 1..Len(buf) PROVE i \in Ends(buf) <=> Base + i \in Ends(text)
    <2>1. CASE i = 1
      <3>1. 1 \notin Ends(buf)
        BY <1>b, <1>1, EndsAre
      <3>2. QED
        BY <1>3, <2>1, <3>1
    <2>2. CASE i # 1
      <3>1. i \in 2..Len(buf) /\ i - 1 \in 1..Len(buf) /\ Base + i \in 2..Len(text)
            /\ Base + (i - 1) = (Base + i) - 1
        BY <1>0, <1>1, <2>2
      <3>2. buf[i] = text[Base + i] /\ buf[i - 1] = text[(Base + i) - 1]
        BY <1>2, <3>1
      <3>3. QED
        BY <1>b, <1>1, <3>1, <3>2, EndsAre
    <2>3. QED
      BY <2>1, <2>2
  <1>5. \A i \in Ends(buf) : i \in 1..Len(buf)
    BY <1>b, <1>1, EndsAre
  <1>6. QED
    BY <1>0, <1>1, <1>2, <1>4, <1>5

\* When no boundary is left in the buffer the sentences are those of the text.
LEMMA AllIsCut ==
    ASSUME BufferInv, phase \in {"open", "cutting"}, Ends(buf) = {}
    PROVE  sentences = SentencesOf(text) /\ buf = Remainder(text)
  <1>0. /\ text \in Seq(Chars) /\ Base \in Nat /\ Cardinality(Upto(text, Base)) = Cuts
        /\ buf = SubSeq(text, Base + 1, Len(text)) /\ Before(text, Cuts) = Base
        /\ sentences = [k \in 1..Cuts |-> SubSeq(text, Before(text, k - 1) + 1, Before(text, k))]
    BY DEF BufferInv, BufferTypes, BufferInStep
  <1>1. ASSUME NEW i \in Ends(text), i > Base PROVE FALSE
    <2>1. i \in Nat /\ i <= Len(text)
      BY <1>0, EndsAre
    <2>2. Base + Len(buf) = Len(text) /\ Base \in Nat /\ Len(buf) \in Nat
      BY EndsAfterBase, LenProperties DEF BufferInv, BufferTypes
    <2>3. i - Base \in 1..Len(buf) /\ Base + (i - Base) = i
      BY <1>1, <2>1, <2>2
    <2>4. i - Base \in Ends(buf)
      BY <2>3, EndsAfterBase
    <2>5. QED
      BY <2>4
  <1>2. Upto(text, Base) = Ends(text)
    <2>1. \A i \in Ends(text) : i <= Base
      <3>1. \A i \in Ends(text) : i \in Nat
        BY <1>0, UptoFinite
      <3>2. QED
        BY <1>0, <1>1, <3>1
    <2>2. QED
      BY <2>1 DEF Upto
  <1>3. Cardinality(Ends(text)) = Cuts
    BY <1>0, <1>2
  <1>4. QED
    BY <1>0, <1>3 DEF SentencesOf, Remainder

\* A token is a sequence.
LEMMA TokenSeq ==
    ASSUME NEW token \in Tokens PROVE token \in Seq(Chars) /\ Len(token) \in Nat
  <1>1. PICK n \in 1..3 : token \in [1..n -> Chars]
    BY DEF Tokens
  <1>2. token \in Seq(Chars)
    BY <1>1
  <1>3. QED
    BY <1>2, LenProperties

\* What comes after a text changes nothing of its boundaries.
LEMMA LongerText ==
    ASSUME NEW s \in Seq(Chars), NEW t \in Seq(Chars)
    PROVE  /\ s \o t \in Seq(Chars) /\ Len(s \o t) = Len(s) + Len(t)
           /\ \A b \in Int : b <= Len(s) => Upto(s \o t, b) = Upto(s, b)
           /\ Ends(s) \subseteq Ends(s \o t)
           /\ \A a, b \in 0..Len(s) : SubSeq(s \o t, a + 1, b) = SubSeq(s, a + 1, b)
  <1> DEFINE u == s \o t
  <1>1. u \in Seq(Chars) /\ Len(u) = Len(s) + Len(t) /\ Len(s) \in Nat /\ Len(t) \in Nat
    BY ConcatProperties, LenProperties
  <1>2. \A i \in 1..Len(s) : u[i] = s[i]
    BY <1>1, ConcatProperties
  <1> HIDE DEF u
  <1>3. ASSUME NEW i \in Int, i <= Len(s) PROVE i \in Ends(u) <=> i \in Ends(s)
    <2>1. CASE i >= 2
      <3>1. i \in 1..Len(s) /\ i - 1 \in 1..Len(s) /\ i <= Len(u)
        BY <1>1, <1>3, <2>1
      <3>2. u[i] = s[i] /\ u[i - 1] = s[i - 1]
        BY <1>2, <3>1
      <3>3. QED
        BY <1>1, <1>3, <2>1, <3>1, <3>2, EndsAre
    <2>2. CASE ~(i >= 2)
      BY <1>1, <2>2, EndsAre
    <2>3. QED
      BY <2>1, <2>2
  <1>4. /\ \A i \in Ends(u) : i \in Int
        /\ \A i \in Ends(s) : i \in Int /\ i <= Len(s)
    <2>1. /\ \A i \in Ends(u) : i \in 2..Len(u)
          /\ \A i \in Ends(s) : i \in 2..Len(s)
      BY <1>1, EndsAre
    <2>2. QED
      BY <1>1, <2>1
  <1>5. ASSUME NEW b \in Int, b <= Len(s) PROVE Upto(u, b) = Upto(s, b)
    <2>1. \A i \in Int : i <= b => i <= Len(s)
      BY <1>1, <1>5
    <2>2. \A i : i \in Upto(u, b) <=> i \in Upto(s, b)
      BY <1>3, <1>4, <2>1 DEF Upto
    <2>3. QED
      BY <2>2
  <1>6. Ends(s) \subseteq Ends(u)
    BY <1>3, <1>4
  <1>7. ASSUME NEW a \in 0..Len(s), NEW b \in 0..Len(s) PROVE SubSeq(u, a + 1, b) = SubSeq(s, a + 1, b)
    <2>1. CASE a + 1 <= b
      <3>1. a + 1 \in 1..Len(s) /\ b \in 1..Len(s)
        BY <1>1, <2>1
      <3>2. QED
        BY <3>1, SubSeqOfConcat1 DEF u
    <2>2. CASE ~(a + 1 <= b)
      <3>1. a + 1 \in Int /\ b \in Int /\ b < a + 1
        BY <1>1, <2>2
      <3>2. QED
        BY <3>1, SubSeqEmpty
    <2>3. QED
      BY <2>1, <2>2
  <1>8. QED
    BY <1>1, <1>5, <1>6, <1>7 DEF u

\* The end of a text.
LEMMA Suffix ==
    ASSUME NEW s \in Seq(Chars), NEW b \in Nat, b <= Len(s)
    PROVE  /\ SubSeq(s, b + 1, Len(s)) \in Seq(Chars)
           /\ Len(SubSeq(s, b + 1, Len(s))) = Len(s) - b
           /\ \A i \in 1..(Len(s) - b) : SubSeq(s, b + 1, Len(s))[i] = s[b + i]
  <1>1. Len(s) \in Nat /\ \A j \in 1..Len(s) : s[j] \in Chars
    BY LenProperties, ElementOfSeq
  <1>2. \A j \in (b + 1)..Len(s) : s[j] \in Chars
    BY <1>1
  <1>3. /\ SubSeq(s, b + 1, Len(s)) \in Seq(Chars)
        /\ Len(SubSeq(s, b + 1, Len(s))) = IF b + 1 <= Len(s) THEN Len(s) - (b + 1) + 1 ELSE 0
        /\ \A i \in 1..(Len(s) - (b + 1) + 1) : SubSeq(s, b + 1, Len(s))[i] = s[(b + 1) + i - 1]
    BY <1>1, <1>2, SubSeqProperties
  <1>4. Len(s) - (b + 1) + 1 = Len(s) - b /\ \A i \in 1..(Len(s) - b) : (b + 1) + i - 1 = b + i
    BY <1>1
  <1>5. b + 1 <= Len(s) \/ Len(s) - b = 0
    BY <1>1
  <1>6. QED
    BY <1>1, <1>3, <1>4, <1>5

\* What is known of the buffer while it is cut.
LEMMA CutsSoFar ==
    ASSUME BufferInv, phase \in {"open", "cutting"}
    PROVE  /\ text \in Seq(Chars) /\ buf \in Seq(Chars) /\ sentences \in Seq(Seq(Chars))
           /\ Base \in Nat /\ Cuts \in Nat /\ Base + Len(buf) = Len(text)
           /\ Len(buf) \in Nat /\ Len(text) \in Nat
           /\ \A k \in 0..Cuts : Before(text, k) \in 0..Base
  <1>1. /\ text \in Seq(Chars) /\ buf \in Seq(Chars) /\ sentences \in Seq(Seq(Chars)) /\ Base \in Nat
        /\ \A k \in 1..Cuts : EndsKth(text, k, Before(text, k)) /\ Before(text, k) <= Base
    BY DEF BufferInv, BufferTypes, BufferInStep
  <1>2. Cuts \in Nat /\ Len(buf) \in Nat /\ Len(text) \in Nat
    BY <1>1, LenProperties DEF Cuts
  <1>3. ASSUME NEW k \in 0..Cuts PROVE Before(text, k) \in 0..Base
    <2>1. CASE k = 0
      BY <1>1, <2>1 DEF Before
    <2>2. CASE k # 0
      <3>1. k \in 1..Cuts
        BY <1>2, <2>2
      <3>2. Before(text, k) \in Ends(text) /\ Before(text, k) <= Base
        BY <1>1, <3>1 DEF EndsKth
      <3>3. Before(text, k) \in Nat
        BY <1>1, <3>2, UptoFinite
      <3>4. QED
        BY <1>1, <3>2, <3>3
    <2>3. QED
      BY <2>1, <2>2
  <1>4. QED
    BY <1>1, <1>2, <1>3, EndsAfterBase

\* A token is added to text and buffer alike.
LEMMA TokenKeeps ==
    ASSUME BufferInv, NEW token \in Tokens, OnToken(token)
    PROVE  BufferInv'
  <1>1. /\ phase = "open" /\ text' = text \o token /\ buf' = buf \o token
        /\ phase' = "cutting" /\ sentences' = sentences
    BY DEF OnToken
  <1>2. /\ text \in Seq(Chars) /\ buf \in Seq(Chars) /\ sentences \in Seq(Seq(Chars))
        /\ Base \in Nat /\ Cuts \in Nat /\ Base + Len(buf) = Len(text)
        /\ Len(buf) \in Nat /\ Len(text) \in Nat
        /\ \A k \in 0..Cuts : Before(text, k) \in 0..Base
    BY <1>1, CutsSoFar
  <1>3. token \in Seq(Chars) /\ Len(token) \in Nat
    BY TokenSeq
  <1>4. /\ text' \in Seq(Chars) /\ Len(text') = Len(text) + Len(token)
        /\ buf' \in Seq(Chars) /\ Len(buf') = Len(buf) + Len(token)
        /\ \A i \in 1..(Len(text) + Len(token)) : text'[i] =
           IF i <= Len(text) THEN text[i] ELSE token[i - Len(text)]
        /\ \A i \in 1..(Len(buf) + Len(token)) : buf'[i] =
           IF i <= Len(buf) THEN buf[i] ELSE token[i - Len(buf)]
    BY <1>1, <1>2, <1>3, ConcatProperties
  <1>a. /\ Base \in Nat /\ Len(buf) \in Nat /\ Len(text) \in Nat /\ Base + Len(buf) = Len(text)
        /\ Len(token) \in Nat
    BY <1>2, <1>3
  <1>5. Base' = Base /\ Cuts' = Cuts
    <2>1. Len(text') - Len(buf') = Len(text) - Len(buf)
      BY <1>2, <1>3, <1>4
    <2>2. QED
      BY <1>1, <2>1 DEF Base, Cuts
  <1>6. buf' = SubSeq(text', Base + 1, Len(text'))
    <2> DEFINE u == text'
               v == buf'
               r == SubSeq(u, Base + 1, Len(u))
    <2>1. u \in Seq(Chars) /\ v \in Seq(Chars) /\ Base \in Nat /\ Base <= Len(u)
          /\ Len(v) = Len(u) - Base
      <3>1. /\ u \in Seq(Chars) /\ Len(u) = Len(text) + Len(token)
            /\ v \in Seq(Chars) /\ Len(v) = Len(buf) + Len(token)
        BY <1>4
      <3> HIDE DEF u, v
      <3>2. QED
        BY <1>a, <3>1
    <2>2. r \in Seq(Chars) /\ Len(r) = Len(u) - Base /\ \A i \in 1..(Len(u) - Base) : r[i] = u[Base + i]
      <3> HIDE DEF u
      <3>1. QED
        BY <2>1, Suffix
    <2>3. \A i \in 1..Len(buf) : buf[i] = text[Base + i]
      BY <1>1, EndsAfterBase
    <2>4. ASSUME NEW i \in 1..Len(v) PROVE v[i] = r[i]
      <3>1. r[i] = u[Base + i] /\ i \in Nat /\ i <= Len(buf) + Len(token)
        BY <1>a, <1>4, <2>1, <2>2
      <3>2. CASE i <= Len(buf)
        <4>1. Base + i <= Len(text) /\ Base + i \in 1..(Len(text) + Len(token)) /\ i \in 1..Len(buf)
              /\ i \in 1..(Len(buf) + Len(token))
          BY <1>a, <3>1, <3>2
        <4>2. QED
          BY <1>4, <2>3, <3>1, <3>2, <4>1
      <3>3. CASE ~(i <= Len(buf))
        <4>1. ~(Base + i <= Len(text)) /\ Base + i \in 1..(Len(text) + Len(token))
              /\ i \in 1..(Len(buf) + Len(token)) /\ (Base + i) - Len(text) = i - Len(buf)
          BY <1>a, <3>1, <3>3
        <4>2. QED
          BY <1>4, <3>1, <3>3, <4>1
      <3>4. QED
        BY <3>2, <3>3
    <2>5. QED
      <3> HIDE DEF r, u, v
      <3>1. v = r
        BY <2>1, <2>2, <2>4, SeqEqual
      <3>2. QED
        BY <3>1 DEF r, u, v
  <1>7. /\ \A b \in Int : b <= Len(text) => Upto(text', b) = Upto(text, b)
        /\ Ends(text) \subseteq Ends(text')
        /\ \A a, b \in 0..Len(text) : SubSeq(text', a + 1, b) = SubSeq(text, a + 1, b)
    BY <1>1, <1>2, <1>3, LongerText
  <1>8. ASSUME NEW k \in 1..Cuts
        PROVE  EndsKth(text', k, Before(text, k)) /\ Before(text', k) = Before(text, k)
    <2>1. Before(text, k) \in Ends(text) /\ Cardinality(Upto(text, Before(text, k))) = k
      BY <1>1 DEF BufferInv, BufferInStep, EndsKth
    <2>2. Before(text, k) \in Int /\ Before(text, k) <= Len(text)
      <3>1. Before(text, k) \in 0..Base
        BY <1>2
      <3>2. QED
        BY <1>2, <3>1
    <2>3. EndsKth(text', k, Before(text, k))
      BY <1>7, <2>1, <2>2 DEF EndsKth
    <2>4. k \in Nat \ {0}
      OBVIOUS
    <2>5. QED
      BY <1>4, <2>3, <2>4, KthIsBefore
  <1>9. \A k \in 0..Cuts : Before(text', k) = Before(text, k)
    <2>1. Before(text', 0) = 0 /\ Before(text, 0) = 0
      BY DEF Before
    <2>2. \A k \in 0..Cuts : k = 0 \/ k \in 1..Cuts
      BY <1>2
    <2>3. QED
      BY <1>8, <2>1, <2>2
  <1>10. \A k \in 1..Cuts : SubSeq(text', Before(text', k - 1) + 1, Before(text', k))
                              = SubSeq(text, Before(text, k - 1) + 1, Before(text, k))
    <2>1. ASSUME NEW k \in 1..Cuts
          PROVE  SubSeq(text', Before(text', k - 1) + 1, Before(text', k))
                   = SubSeq(text, Before(text, k - 1) + 1, Before(text, k))
      <3>1. k \in 0..Cuts /\ k - 1 \in 0..Cuts
        BY <1>2
      <3>2. Before(text, k - 1) \in 0..Len(text) /\ Before(text, k) \in 0..Len(text)
        <4>1. Before(text, k - 1) \in 0..Base /\ Before(text, k) \in 0..Base
          BY <1>2, <3>1
        <4>2. QED
          BY <1>2, <4>1
      <3>3. QED
        BY <1>7, <1>9, <3>1, <3>2
    <2>2. QED
      BY <2>1
  <1>11. BufferInStep'
    <2>1. /\ Cardinality(Upto(text, Base)) = Cuts /\ Before(text, Cuts) = Base
          /\ \A k \in 1..Cuts : Before(text, k) <= Base
          /\ sentences = [k \in 1..Cuts |-> SubSeq(text, Before(text, k - 1) + 1, Before(text, k))]
      BY <1>1 DEF BufferInv, BufferInStep
    <2>2. Upto(text', Base) = Upto(text, Base)
      BY <1>2, <1>7
    <2>3. sentences' = [k \in 1..Cuts |-> SubSeq(text', Before(text', k - 1) + 1, Before(text', k))]
      BY <1>1, <1>10, <2>1
    <2>4. Before(text', Cuts) = Base
      BY <1>2, <1>9, <2>1
    <2>5. \A k \in 1..Cuts : EndsKth(text', k, Before(text', k)) /\ Before(text', k) <= Base
      BY <1>8, <2>1
    <2>6. QED
      BY <1>1, <1>2, <1>5, <1>6, <2>1, <2>2, <2>3, <2>4, <2>5 DEF BufferInStep
  <1>12. QED
    BY <1>1, <1>2, <1>4, <1>5, <1>11 DEF BufferInv, BufferTypes

\* The first boundary of the buffer is the next one of the text.
LEMMA CutKeeps ==
    ASSUME BufferInv, CutFirst PROVE BufferInv'
  <1>1. phase = "cutting" /\ Ends(buf) # {} /\ text' = text /\ phase' = phase
    BY DEF CutFirst
  <1>2. /\ text \in Seq(Chars) /\ buf \in Seq(Chars) /\ sentences \in Seq(Seq(Chars))
        /\ Base \in Nat /\ Cuts \in Nat /\ Base + Len(buf) = Len(text)
        /\ Len(buf) \in Nat /\ Len(text) \in Nat
    BY <1>1, CutsSoFar
  <1>3. \A k \in 0..Cuts : Before(text, k) \in 0..Base
    BY <1>1, CutsSoFar
  <1> DEFINE end == CHOOSE i \in Ends(buf) : \A j \in Ends(buf) : i <= j
             piece == SubSeq(buf, 1, end)
             next == Base + end
  <1>4. sentences' = Append(sentences, piece) /\ buf' = SubSeq(buf, end + 1, Len(buf))
    BY DEF CutFirst
  <1>5. end \in Ends(buf) /\ \A j \in Ends(buf) : end <= j
    <2>1. Ends(buf) \in SUBSET Nat
      BY <1>2, UptoFinite
    <2>2. \E i \in Ends(buf) : \A j \in Ends(buf) : i <= j
      BY <1>1, <2>1, Least
    <2>3. QED
      BY <2>2
  <1> HIDE DEF end
  <1>6. end \in Nat /\ end >= 2 /\ end <= Len(buf)
    <2>1. end \in 2..Len(buf)
      BY <1>2, <1>5, EndsAre
    <2>2. QED
      BY <1>2, <2>1
  <1>7. next \in Nat /\ next <= Len(text) /\ next > Base
    BY <1>2, <1>6
  <1>8. /\ Ends(buf) = {i \in 1..Len(buf) : Base + i \in Ends(text)}
        /\ \A i \in 1..Len(buf) : buf[i] = text[Base + i]
    BY <1>1, EndsAfterBase
  <1>9. /\ buf' \in Seq(Chars) /\ Len(buf') = Len(buf) - end
        /\ \A i \in 1..(Len(buf) - end) : buf'[i] = buf[end + i]
    BY <1>2, <1>4, <1>6, Suffix
  <1>a. Base \in Nat /\ Len(buf) \in Nat /\ Len(text) \in Nat /\ Base + Len(buf) = Len(text)
    BY <1>2
  <1>10. Base' = next
    <2>1. Len(text) - (Len(buf) - end) = Base + end
      BY <1>a, <1>6
    <2>2. QED
      BY <1>1, <1>9, <2>1 DEF Base
  <1>11. buf' = SubSeq(text, next + 1, Len(text))
    <2> DEFINE r == SubSeq(text, next + 1, Len(text))
               v == buf'
    <2>1. /\ r \in Seq(Chars) /\ Len(r) = Len(text) - next
          /\ \A i \in 1..(Len(text) - next) : r[i] = text[next + i]
      BY <1>2, <1>7, Suffix
    <2>2. v \in Seq(Chars) /\ Len(v) = Len(r) /\ Len(r) = Len(buf) - end
      BY <1>2, <1>6, <1>9, <2>1
    <2>3. ASSUME NEW i \in 1..(Len(buf) - end) PROVE v[i] = r[i]
      <3>1. end + i \in 1..Len(buf) /\ Base + (end + i) = next + i /\ i \in 1..(Len(text) - next)
        BY <1>2, <1>6
      <3>2. QED
        BY <1>8, <1>9, <2>1, <3>1
    <2> HIDE DEF r, v
    <2>4. v = r
      BY <2>1, <2>2, <2>3, SeqEqual
    <2>5. QED
      BY <2>4 DEF r, v
  <1>12. piece = SubSeq(text, Base + 1, next)
    <2> DEFINE r == SubSeq(text, Base + 1, next)
    <2>0. (\A j \in 1..Len(buf) : buf[j] \in Chars) /\ (\A j \in 1..Len(text) : text[j] \in Chars)
      BY <1>2, ElementOfSeq
    <2>1. /\ piece \in Seq(Chars) /\ Len(piece) = end
          /\ \A i \in 1..end : piece[i] = buf[i]
      <3>1. /\ 1 \in Int /\ end \in Int /\ \A j \in 1..end : buf[j] \in Chars
            /\ 1 <= end /\ end - 1 + 1 = end /\ \A i \in 1..end : 1 + i - 1 = i
        BY <1>2, <1>6, <2>0
      <3>2. /\ piece \in Seq(Chars) /\ Len(piece) = IF 1 <= end THEN end - 1 + 1 ELSE 0
            /\ \A i \in 1..(end - 1 + 1) : piece[i] = buf[1 + i - 1]
        BY <3>1, SubSeqProperties
      <3> HIDE DEF piece
      <3>3. QED
        BY <3>1, <3>2
    <2>2. /\ r \in Seq(Chars) /\ Len(r) = end
          /\ \A i \in 1..end : r[i] = text[Base + i]
      <3>1. /\ Base + 1 \in Int /\ next \in Int /\ \A j \in (Base + 1)..next : text[j] \in Chars
            /\ Base + 1 <= next /\ next - (Base + 1) + 1 = end
            /\ \A i \in 1..end : (Base + 1) + i - 1 = Base + i
        <4>1. \A j \in (Base + 1)..next : j \in 1..Len(text)
          BY <1>2, <1>7
        <4>2. QED
          BY <1>2, <1>6, <2>0, <4>1
      <3>2. /\ r \in Seq(Chars) /\ Len(r) = IF Base + 1 <= next THEN next - (Base + 1) + 1 ELSE 0
            /\ \A i \in 1..(next - (Base + 1) + 1) : r[i] = text[(Base + 1) + i - 1]
        <4> HIDE DEF next
        <4>1. QED
          BY <3>1, SubSeqProperties
      <3> HIDE DEF r, next
      <3>3. QED
        BY <3>1, <3>2
    <2>3. \A i \in 1..end : i \in 1..Len(buf)
      BY <1>2, <1>6
    <2>4. \A i \in 1..end : piece[i] = r[i]
      BY <1>8, <2>1, <2>2, <2>3
    <2>5. /\ piece \in Seq(Chars) /\ r \in Seq(Chars) /\ Len(piece) = Len(r)
          /\ \A i \in 1..Len(piece) : piece[i] = r[i]
      BY <2>1, <2>2, <2>4
    <2> HIDE DEF piece, r
    <2>6. piece = r
      BY <2>5, SeqEqual
    <2>7. QED
      BY <2>6 DEF r
  <1>13. next \in Ends(text) /\ \A j \in Ends(text) : j <= Base \/ next <= j
    <2>1. end \in 1..Len(buf)
      BY <1>2, <1>6
    <2>2. ASSUME NEW j \in Ends(text), j > Base PROVE next <= j
      <3>1. j \in Nat /\ j <= Len(text)
        BY <1>2, UptoFinite, EndsAre
      <3>2. j - Base \in 1..Len(buf) /\ Base + (j - Base) = j
        BY <1>2, <2>2, <3>1
      <3>3. j - Base \in Ends(buf)
        BY <1>8, <3>2
      <3>4. end <= j - Base
        BY <1>5, <3>3
      <3>5. QED
        BY <1>2, <1>6, <3>1, <3>4
    <2>3. \A j \in Ends(text) : j \in Nat
      BY <1>2, UptoFinite
    <2>4. QED
      BY <1>2, <1>5, <1>8, <2>1, <2>2, <2>3
  <1> HIDE DEF piece, next
  <1>14. Cardinality(Upto(text, next)) = Cuts + 1
    <2>1. \A j \in Ends(text) : j \in Nat
      BY <1>2, UptoFinite
    <2>2. \A j \in Ends(text) : j <= next <=> (j <= Base \/ j = next)
      BY <1>2, <1>7, <1>13, <2>1
    <2>3. Upto(text, next) = Upto(text, Base) \cup {next} /\ next \notin Upto(text, Base)
      <3>1. next \in Ends(text) /\ ~(next <= Base)
        BY <1>2, <1>7, <1>13
      <3>2. \A j : j \in Upto(text, next) <=> j \in Upto(text, Base) \/ j = next
        BY <2>2, <3>1 DEF Upto
      <3>3. QED
        BY <3>1, <3>2 DEF Upto
    <2>4. IsFiniteSet(Upto(text, Base)) /\ Cardinality(Upto(text, Base)) = Cuts
      BY <1>1, <1>2, UptoFinite DEF BufferInv, BufferInStep
    <2>5. QED
      BY <2>3, <2>4, FS_AddElement
  <1>15. EndsKth(text, Cuts + 1, next) /\ Before(text, Cuts + 1) = next
    <2>1. EndsKth(text, Cuts + 1, next)
      BY <1>13, <1>14 DEF EndsKth
    <2>2. Cuts + 1 \in Nat \ {0}
      BY <1>2
    <2>3. QED
      BY <1>2, <2>1, <2>2, KthIsBefore
  <1>16. piece \in Seq(Chars) /\ sentences' \in Seq(Seq(Chars)) /\ Len(sentences') = Cuts + 1
    <2>1. piece \in Seq(Chars)
      <3>1. \A j \in 1..end : j \in 1..Len(buf)
        BY <1>2, <1>6
      <3>2. \A j \in 1..end : buf[j] \in Chars
        BY <1>2, <3>1, ElementOfSeq
      <3>3. 1 \in Int /\ end \in Int
        BY <1>6
      <3>4. QED
        BY <3>2, <3>3, SubSeqProperties DEF piece
    <2>2. QED
      BY <1>2, <1>4, <2>1, AppendProperties DEF Cuts
  <1>17. sentences' = [k \in 1..(Cuts + 1) |-> SubSeq(text, Before(text, k - 1) + 1, Before(text, k))]
    <2> DEFINE g == [k \in 1..(Cuts + 1) |-> SubSeq(text, Before(text, k - 1) + 1, Before(text, k))]
    <2>1. sentences = [k \in 1..Cuts |-> SubSeq(text, Before(text, k - 1) + 1, Before(text, k))]
          /\ Before(text, Cuts) = Base
      BY <1>1 DEF BufferInv, BufferInStep
    <2>2. DOMAIN sentences' = 1..(Cuts + 1)
      BY <1>16, LenProperties
    <2>3. \A i \in 1..Cuts : sentences'[i] = sentences[i]
      BY <1>2, <1>4, <1>16, AppendProperties DEF Cuts
    <2>4. sentences'[Cuts + 1] = piece
      BY <1>2, <1>4, <1>16, AppendProperties DEF Cuts
    <2>5. ASSUME NEW k \in 1..(Cuts + 1)
          PROVE  sentences'[k] = SubSeq(text, Before(text, k - 1) + 1, Before(text, k))
      <3>1. CASE k \in 1..Cuts
        BY <2>1, <2>3, <3>1
      <3>2. CASE k \notin 1..Cuts
        <4>1. k = Cuts + 1 /\ (Cuts + 1) - 1 = Cuts
          BY <1>2, <3>2
        <4>2. QED
          BY <1>12, <1>15, <2>1, <2>4, <4>1
      <3>3. QED
        BY <3>1, <3>2
    <2>6. sentences' = [k \in DOMAIN sentences' |-> sentences'[k]]
      BY <1>16, LenProperties
    <2>7. QED
      BY <2>2, <2>5, <2>6
  <1>18. Cuts' = Cuts + 1
    BY <1>16 DEF Cuts
  <1>19. \A k \in 1..(Cuts + 1) : EndsKth(text, k, Before(text, k)) /\ Before(text, k) <= next
    <2>1. \A k \in 1..Cuts : EndsKth(text, k, Before(text, k))
      BY <1>1 DEF BufferInv, BufferInStep
    <2>2. ASSUME NEW k \in 1..(Cuts + 1)
          PROVE  EndsKth(text, k, Before(text, k)) /\ Before(text, k) <= next
      <3>1. CASE k = Cuts + 1
        BY <1>7, <1>15, <3>1
      <3>2. CASE k # Cuts + 1
        <4>1. k \in 1..Cuts /\ k \in 0..Cuts
          BY <1>2, <3>2
        <4>2. Before(text, k) \in 0..Base
          BY <1>3, <4>1
        <4>3. QED
          BY <1>2, <1>7, <2>1, <4>1, <4>2
      <3>3. QED
        BY <3>1, <3>2
    <2>3. QED
      BY <2>2
  <1>20. BufferInStep'
    BY <1>1, <1>10, <1>11, <1>14, <1>15, <1>16, <1>17, <1>18, <1>19 DEF BufferInStep
  <1>21. BufferTypes'
    BY <1>1, <1>2, <1>7, <1>9, <1>10, <1>16 DEF BufferTypes
  <1>22. QED
    BY <1>1, <1>20, <1>21 DEF BufferInv

\* What is left over is the remainder of the text.
LEMMA DoneKeeps ==
    ASSUME BufferInv, OnDone PROVE BufferInv'
  <1>1. /\ phase = "open" /\ phase' = "done" /\ text' = text /\ buf' = buf
        /\ sentences' = IF Trim(buf) = <<>> THEN sentences ELSE Append(sentences, Trim(buf))
    BY DEF OnDone
  <1>2. sentences = SentencesOf(text) /\ buf = Remainder(text) /\ sentences \in Seq(Seq(Chars))
    BY <1>1, AllIsCut DEF BufferInv, BufferInStep
  <1> DEFINE S == Seq(Chars) \cup {Trim(buf)}
  <1>3. sentences \in Seq(S) /\ Trim(buf) \in S
    BY <1>2, SeqMonotonic
  <1>4. Append(sentences, Trim(buf)) = sentences \o <<Trim(buf)>> /\ sentences \o <<>> = sentences
    <2> HIDE DEF S
    <2>1. QED
      BY <1>3, AppendIsConcat, ConcatEmptySeq
  <1>5. ChoppingIsInvisible'
    BY <1>1, <1>2, <1>4 DEF ChoppingIsInvisible
  <1>6. BufferTypes' /\ BufferInStep'
    BY <1>1 DEF BufferInv, BufferTypes, BufferInStep, Base
  <1>7. QED
    BY <1>1, <1>5, <1>6 DEF BufferInv

\* At the start there is no text.
LEMMA BufferInitInv == BufferInit => BufferInv
  <1> SUFFICES ASSUME BufferInit PROVE BufferInv
    OBVIOUS
  <1>1. text = <<>> /\ buf = <<>> /\ sentences = <<>> /\ phase = "open"
    BY DEF BufferInit
  <1>2. <<>> \in Seq(Chars) /\ <<>> \in Seq(Seq(Chars)) /\ Len(<<>>) = 0
    BY EmptySeq
  <1>3. Base = 0 /\ Cuts = 0
    BY <1>1, <1>2 DEF Base, Cuts
  <1>4. Ends(<<>>) = {}
    BY <1>2 DEF Ends
  <1>5. Cardinality(Upto(<<>>, 0)) = 0
    <2>1. Upto(<<>>, 0) = {}
      BY <1>4 DEF Upto
    <2>2. QED
      BY <2>1, FS_EmptySet
  <1>6. SubSeq(<<>>, 0 + 1, 0) = <<>>
    BY SubSeqEmpty
  <1>7. <<>> = [k \in 1..0 |-> SubSeq(<<>>, Before(<<>>, k - 1) + 1, Before(<<>>, k))]
    OBVIOUS
  <1>8. BufferInStep
    BY <1>1, <1>2, <1>3, <1>5, <1>6, <1>7 DEF BufferInStep, Before
  <1>9. QED
    BY <1>1, <1>2, <1>3, <1>4, <1>8 DEF BufferInv, BufferTypes

\* Hence it always holds.
LEMMA BufferInvariant == BufferSpec => []BufferInv
  <1>1. BufferInv /\ [BufferNext]_bufferVars => BufferInv'
    <2> SUFFICES ASSUME BufferInv, [BufferNext]_bufferVars PROVE BufferInv'
      OBVIOUS
    <2>1. CASE NoBoundary
      BY <2>1 DEF NoBoundary, BufferInv, BufferTypes, BufferInStep, Base, Cuts
    <2>2. CASE UNCHANGED bufferVars
      BY <2>2 DEF bufferVars, BufferInv, BufferTypes, BufferInStep, Base, Cuts, ChoppingIsInvisible
    <2>3. QED
      BY <2>1, <2>2, TokenKeeps, CutKeeps, DoneKeeps DEF BufferNext
  <1>2. QED
    BY <1>1, BufferInitInv, PTL DEF BufferSpec

(***************************************************************************)
(* The sentences that are spoken are those of the whole text and its       *)
(* remainder, cut at its boundaries, however the LLM chops the text into   *)
(* tokens - a boundary between two tokens is found as one within.          *)
(***************************************************************************)
THEOREM ChoppingNeverShows == BufferSpec => []ChoppingIsInvisible
  <1>1. BufferInv => ChoppingIsInvisible
    <2> SUFFICES ASSUME BufferInv PROVE ChoppingIsInvisible
      OBVIOUS
    <2>1. CASE phase = "open"
      BY <2>1, AllIsCut DEF BufferInv, ChoppingIsInvisible
    <2>2. CASE phase = "done"
      BY <2>2 DEF BufferInv
    <2>3. CASE phase = "cutting"
      BY <2>3 DEF ChoppingIsInvisible
    <2>4. QED
      BY <2>1, <2>2, <2>3 DEF BufferInv, BufferTypes
  <1>2. QED
    BY <1>1, BufferInvariant, PTL
=============================================================================
