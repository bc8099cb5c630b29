--------------------------- MODULE TurnExecution ---------------------------
(***************************************************************************)
(* One interview session while it is being conducted: the SubmitTurn       *)
(* requests (Backend.ExecuteTurn), the EndSession / CancelSession requests *)
(* that poll until no turn is generating, Backend.FailSession, and the two *)
(* periodic jobs that repair what a dead instance leaves behind.           *)
(*                                                                         *)
(* A request is a goroutine of some server instance: between two of its    *)
(* database statements any other request, on any instance, may run, and    *)
(* its instance may be killed.  All shared state is in Postgres (READ      *)
(* COMMITTED), so one statement, or one transaction that takes the session *)
(* row lock with its first write, is one action.                           *)
(*                                                                         *)
(* Time is two flags: stale says that generating_since is older than five  *)
(* minutes, overdue that the session is past its duration plus the five    *)
(* minutes of grace.  SlowTurns says whether a turn may still be running   *)
(* when its generating_since goes stale.                                   *)
(***************************************************************************)
EXTENDS Naturals, FiniteSets

CONSTANTS Turns,        \* SubmitTurn requests
          Enders,       \* EndSession, CancelSession and FailSession calls
          EndKinds,     \* the calls Enders may make
          SlowTurns     \* may a live turn outlast the five-minute threshold?

ASSUME EndKindsAssumption == EndKinds \subseteq {"end", "cancel", "fail"}
ASSUME SlowTurnsAssumption == SlowTurns \in BOOLEAN

VARIABLES
    \* interview_sessions row
    status,         \* the status column, up to the end of the interview
    stale,          \* generating_since < NOW() - 5 minutes
    overdue,        \* started_at + duration + 5 minutes < NOW()
    turnCount,      \* the turn_count column
    \* messages table
    messages,       \* rows of the session: who wrote which seq in which role
    audioLinked,    \* turns whose candidate message has its audio_url set
    \* river_job table
    evalQueued,     \* an EvaluateSession job has been inserted
    \* one SubmitTurn request
    pc, input, seen, seq, upload,
    \* one EndSession / CancelSession / FailSession call
    endPc, endKind, endCount

rowVars   == <<status, stale, overdue, turnCount>>
logVars   == <<messages, audioLinked>>
turnVars  == <<pc, input, seen, seq, upload>>
enderVars == <<endPc, endKind, endCount>>
vars == <<status, stale, overdue, turnCount, messages, audioLinked, evalQueued,
          pc, input, seen, seq, upload, endPc, endKind, endCount>>

Ended    == {"completed", "cancelled", "failed"}
Statuses == {"active", "generating"} \cup Ended
Inputs   == {"empty", "text", "voice"}
Running  == {"loading", "sequencing", "transcribing", "persisting",
             "streaming", "replying", "releasing", "failing"}
Stopped  == {"idle", "refused", "done", "errored", "dead"}

Message == [seq : Nat \ {0}, role : {"candidate", "interviewer"}, turn : Turns]

\* UNIQUE (session_id, seq): an insert of this seq would be accepted.
Free(s) == \A m \in messages : m.seq # s

\* n is COALESCE(MAX(seq), 0).
IsMaxSeq(n) == /\ \A m \in messages : m.seq <= n
               /\ n = 0 \/ \E m \in messages : m.seq = n

InterviewerMessages == {m \in messages : m.role = "interviewer"}
HasCandidateMessage == \E m \in messages : m.role = "candidate"

Init ==
    /\ status = "active" /\ stale = FALSE /\ overdue = FALSE /\ turnCount = 0
    /\ messages = {} /\ audioLinked = {}
    /\ evalQueued = FALSE
    /\ pc = [t \in Turns |-> "idle"]
    /\ input = [t \in Turns |-> "empty"]
    /\ seen = [t \in Turns |-> "none"]
    /\ seq = [t \in Turns |-> 0]
    /\ upload = [t \in Turns |-> "none"]
    /\ endPc = [e \in Enders |-> "idle"]
    /\ endKind = [e \in Enders |-> "none"]
    /\ endCount = [e \in Enders |-> 0]

Goto(t, to) == pc' = [pc EXCEPT ![t] = to]
-----------------------------------------------------------------------------
(***************************************************************************)
(* ExecuteTurn                                                             *)
(***************************************************************************)
\* Mutant: the UPDATE without "AND status = 'active'", but for ended sessions.
AcquireTurnAnyOpen(t) ==
    /\ pc[t] = "idle"
    /\ status \in {"active", "generating"}
    /\ status' = "generating"
    /\ stale' = FALSE
    /\ \E given \in Inputs : input' = [input EXCEPT ![t] = given]
    /\ Goto(t, "loading")
    /\ UNCHANGED <<overdue, turnCount, logVars, evalQueued, seen, seq, upload, enderVars>>

\* Step 1: the conditional UPDATE that makes the session 'generating'.
AcquireTurn(t) ==
    /\ pc[t] = "idle"
    /\ status = "active"
    /\ status' = "generating"
    /\ stale' = FALSE
    /\ \E given \in Inputs : input' = [input EXCEPT ![t] = given]
    /\ Goto(t, "loading")
    /\ UNCHANGED <<overdue, turnCount, logVars, evalQueued, seen, seq, upload, enderVars>>

\* No row returned: ErrTurnNotAcquired.
RefuseTurn(t) ==
    /\ pc[t] = "idle"
    /\ status # "active"
    /\ Goto(t, "refused")
    /\ UNCHANGED <<rowVars, logVars, evalQueued, input, seen, seq, upload, enderVars>>

\* Step 3, GetMessagesBySession: only the role of the last message matters.
LoadTranscript(t) ==
    /\ pc[t] = "loading"
    /\ \/ messages = {} /\ seen' = [seen EXCEPT ![t] = "none"]
       \/ \E m \in messages : /\ IsMaxSeq(m.seq)
                              /\ seen' = [seen EXCEPT ![t] = m.role]
    /\ Goto(t, "sequencing")
    /\ UNCHANGED <<rowVars, logVars, evalQueued, input, seq, upload, enderVars>>

\* Mutant: no isCrashRecovery.
OpensOnly(t) == seen[t] = "none" /\ input[t] = "empty"

\* Step 5 and the checks of step 6: where the turn goes once it is loaded.
OpensOrResumes(t) ==
    \/ seen[t] = "none" /\ input[t] = "empty"
    \/ seen[t] = "candidate"

AfterLoad(t) ==
    CASE OpensOrResumes(t)    -> {"streaming"}
      [] ~OpensOrResumes(t) /\ input[t] = "voice" -> {"transcribing", "failing"}
      [] ~OpensOrResumes(t) /\ input[t] = "text"  -> {"persisting"}
      [] ~OpensOrResumes(t) /\ input[t] = "empty" -> {"failing"}

\* Step 3, GetMaxSeqForSession (a second statement), then the dispatch.  A
\* valid recording starts its upload goroutine before it is transcribed.
ReadMaxSeq(t) ==
    /\ pc[t] = "sequencing"
    /\ \E n \in {0} \cup {m.seq : m \in messages} :
           IsMaxSeq(n) /\ seq' = [seq EXCEPT ![t] = n]
    /\ \E next \in AfterLoad(t) :
           /\ Goto(t, next)
           /\ upload' = IF next = "transcribing"
                          THEN [upload EXCEPT ![t] = "running"] ELSE upload
    /\ UNCHANGED <<rowVars, logVars, evalQueued, input, seen, enderVars>>

\* A statement of step 3 or 4 fails, or the client hangs up before step 8.
LoadFails(t) ==
    /\ pc[t] \in {"loading", "sequencing"}
    /\ Goto(t, "failing")
    /\ UNCHANGED <<rowVars, logVars, evalQueued, input, seen, seq, upload, enderVars>>

\* Speech to text, with its one retry: text, or an error or silence.
Transcribe(t) ==
    /\ pc[t] = "transcribing"
    /\ \E next \in {"persisting", "failing"} : Goto(t, next)
    /\ UNCHANGED <<rowVars, logVars, evalQueued, input, seen, seq, upload, enderVars>>

\* Mutant: no UNIQUE (session_id, seq).
InsertUnchecked(t, role) ==
    /\ seq' = [seq EXCEPT ![t] = @ + 1]
    /\ messages' = messages \cup {[seq |-> seq[t] + 1, role |-> role, turn |-> t]}

\* Insert the turn's next message; UNIQUE refuses a seq that is taken.
Insert(t, role) ==
    /\ Free(seq[t] + 1)
    /\ seq' = [seq EXCEPT ![t] = @ + 1]
    /\ messages' = messages \cup {[seq |-> seq[t] + 1, role |-> role, turn |-> t]}

\* Step 7.
PersistCandidate(t) ==
    /\ pc[t] = "persisting"
    /\ Insert(t, "candidate")
    /\ Goto(t, "streaming")
    /\ UNCHANGED <<rowVars, audioLinked, evalQueued, input, seen, upload, enderVars>>

\* Step 8: the LLM stream ends, or breaks (nothing of it is then kept).
StreamReply(t) ==
    /\ pc[t] = "streaming"
    /\ \E next \in {"replying", "failing"} : Goto(t, next)
    /\ UNCHANGED <<rowVars, logVars, evalQueued, input, seen, seq, upload, enderVars>>

\* PersistInterviewerTurn: one transaction.
PersistReply(t) ==
    /\ pc[t] = "replying"
    /\ Insert(t, "interviewer")
    /\ Goto(t, "releasing")
    /\ UNCHANGED <<rowVars, audioLinked, evalQueued, input, seen, upload, enderVars>>

\* Mutant: the error of PersistInterviewerTurn only logged.
PersistErrorIgnored(t) ==
    /\ pc[t] \in {"persisting", "replying"}
    /\ Goto(t, IF pc[t] = "replying" THEN "releasing" ELSE "failing")
    /\ UNCHANGED <<rowVars, logVars, evalQueued, input, seen, seq, upload, enderVars>>

\* A duplicate seq, or any database error: TurnError persist_failed.
PersistFails(t) ==
    /\ pc[t] \in {"persisting", "replying"}
    /\ Goto(t, "failing")
    /\ UNCHANGED <<rowVars, logVars, evalQueued, input, seen, seq, upload, enderVars>>

\* Mutant: the UPDATE without "AND status = 'generating'".
ReleaseAlways(t) ==
    /\ pc[t] \in {"releasing", "failing"}
    /\ status' = "active"
    /\ Goto(t, IF pc[t] = "releasing" THEN "done" ELSE "errored")
    /\ UNCHANGED <<stale, overdue, turnCount, logVars, evalQueued,
                   input, seen, seq, upload, enderVars>>

\* ReleaseGeneratingStatus, before InterviewerDone or in the deferred call.
Release(t) ==
    /\ pc[t] \in {"releasing", "failing"}
    /\ status' = IF status = "generating" THEN "active" ELSE status
    /\ Goto(t, IF pc[t] = "releasing" THEN "done" ELSE "errored")
    /\ UNCHANGED <<stale, overdue, turnCount, logVars, evalQueued,
                   input, seen, seq, upload, enderVars>>

\* The UPDATE fails or times out after 5 s: logged, never tried again.
ReleaseFails(t) ==
    /\ pc[t] \in {"releasing", "failing"}
    /\ Goto(t, IF pc[t] = "releasing" THEN "done" ELSE "errored")
    /\ UNCHANGED <<rowVars, logVars, evalQueued, input, seen, seq, upload, enderVars>>

\* The instance is killed: deferred calls do not run, the upload is lost too.
Crash(t) ==
    /\ pc[t] \in Running
    /\ Goto(t, "dead")
    /\ upload' = [upload EXCEPT ![t] = IF @ = "running" THEN "lost" ELSE @]
    /\ UNCHANGED <<rowVars, logVars, evalQueued, input, seen, seq, enderVars>>

\* StoreAudio succeeds, and SetAudioURL updates the row with this message id,
\* if there is one already; an UPDATE of no row is not an error.
FinishUpload(t) ==
    /\ upload[t] = "running"
    /\ upload' = [upload EXCEPT ![t] = "stored"]
    /\ audioLinked' = IF \E m \in messages : m.turn = t /\ m.role = "candidate"
                        THEN audioLinked \cup {t} ELSE audioLinked
    /\ UNCHANGED <<rowVars, messages, evalQueued, pc, input, seen, seq, enderVars>>

UploadFails(t) ==
    /\ upload[t] = "running"
    /\ upload' = [upload EXCEPT ![t] = "lost"]
    /\ UNCHANGED <<rowVars, logVars, evalQueued, pc, input, seen, seq, enderVars>>
-----------------------------------------------------------------------------
(***************************************************************************)
(* Time and the periodic jobs                                              *)
(***************************************************************************)
GenerationAges ==
    /\ status = "generating" /\ ~stale
    /\ SlowTurns \/ \A t \in Turns : pc[t] \notin Running
    /\ stale' = TRUE
    /\ UNCHANGED <<status, overdue, turnCount, logVars, evalQueued, turnVars, enderVars>>

SessionExpires ==
    /\ ~overdue
    /\ overdue' = TRUE
    /\ UNCHANGED <<status, stale, turnCount, logVars, evalQueued, turnVars, enderVars>>

\* Mutant: the wrong status in the WHERE clause.
CleanupStaleActive ==
    /\ status = "active" /\ stale
    /\ status' = "active"
    /\ UNCHANGED <<stale, overdue, turnCount, logVars, evalQueued, turnVars, enderVars>>

\* The job of every 60 s.
CleanupStaleGenerating ==
    /\ status = "generating" /\ stale
    /\ status' = "active"
    /\ UNCHANGED <<stale, overdue, turnCount, logVars, evalQueued, turnVars, enderVars>>

\* Mutants: any open session is abandoned once overdue; empty sessions only.
CleanupAbandonedAnyOpen ==
    /\ status \in {"active", "generating"} /\ overdue
    /\ status' = IF HasCandidateMessage THEN "completed" ELSE "cancelled"
    /\ evalQueued' = (evalQueued \/ HasCandidateMessage)
    /\ UNCHANGED <<stale, overdue, turnCount, logVars, turnVars, enderVars>>
CleanupAbandonedEmpty ==
    /\ status = "active" /\ overdue /\ ~HasCandidateMessage
    /\ status' = "cancelled"
    /\ UNCHANGED <<stale, overdue, turnCount, logVars, evalQueued, turnVars, enderVars>>

\* The job of every 3 minutes: one transaction that cancels an abandoned
\* session nobody answered in, and completes and evaluates any other.
CleanupAbandonedSession ==
    /\ status = "active" /\ overdue
    /\ status' = IF HasCandidateMessage THEN "completed" ELSE "cancelled"
    /\ evalQueued' = (evalQueued \/ HasCandidateMessage)
    /\ UNCHANGED <<stale, overdue, turnCount, logVars, turnVars, enderVars>>
-----------------------------------------------------------------------------
(***************************************************************************)
(* EndSession, CancelSession, FailSession                                  *)
(***************************************************************************)
\* The request passes VerifySessionOwnership; FailSession reads the status.
StartEnding(e) ==
    /\ endPc[e] = "idle"
    /\ \E k \in EndKinds :
           /\ k = "fail" => status = "active"
           /\ endKind' = [endKind EXCEPT ![e] = k]
           /\ endPc' = [endPc EXCEPT ![e] = IF k = "fail" THEN "committing" ELSE "waiting"]
    /\ UNCHANGED <<rowVars, logVars, evalQueued, turnVars, endCount>>

\* waitForGeneration: any status but 'generating' ends the wait.
StopWaiting(e) ==
    /\ endPc[e] = "waiting"
    /\ status # "generating"
    /\ endPc' = [endPc EXCEPT ![e] = "counting"]
    /\ UNCHANGED <<rowVars, logVars, evalQueued, turnVars, endKind, endCount>>

\* Mutant: recovers a generation that is not stale.
InlineRecoverAnyAge(e) ==
    /\ endPc[e] = "waiting"
    /\ status = "generating"
    /\ status' = "active"
    /\ UNCHANGED <<stale, overdue, turnCount, logVars, evalQueued, turnVars, enderVars>>

\* waitForGeneration: inline recovery of a stale generation, then poll again.
InlineRecover(e) ==
    /\ endPc[e] = "waiting"
    /\ status = "generating" /\ stale
    /\ status' = "active"
    /\ UNCHANGED <<stale, overdue, turnCount, logVars, evalQueued, turnVars, enderVars>>

\* CountInterviewerMessages, a statement of its own.
CountTurns(e) ==
    /\ endPc[e] = "counting"
    /\ endCount' = [endCount EXCEPT ![e] = Cardinality(InterviewerMessages)]
    /\ endPc' = [endPc EXCEPT ![e] = "committing"]
    /\ UNCHANGED <<rowVars, logVars, evalQueued, turnVars, endKind>>

Finish(e, to) == endPc' = [endPc EXCEPT ![e] = to] /\ UNCHANGED <<endKind, endCount>>

\* Mutant: an interview of which only the opening was heard is evaluated.
CompleteAndQueue(e) ==
    /\ endPc[e] = "committing" /\ endKind[e] = "end"
    /\ status' = "completed"
    /\ turnCount' = endCount[e]
    /\ evalQueued' = (evalQueued \/ endCount[e] > 0)
    /\ Finish(e, "ended")
    /\ UNCHANGED <<stale, overdue, logVars, turnVars>>

\* CompleteSession: no condition on the status the row has by now.
CompleteSession(e) ==
    /\ endPc[e] = "committing" /\ endKind[e] = "end"
    /\ status' = "completed"
    /\ turnCount' = endCount[e]
    /\ evalQueued' = (evalQueued \/ endCount[e] > 1)
    /\ Finish(e, "ended")
    /\ UNCHANGED <<stale, overdue, logVars, turnVars>>

\* CancelSession: likewise, and no evaluation.
CancelSession(e) ==
    /\ endPc[e] = "committing" /\ endKind[e] = "cancel"
    /\ status' = "cancelled"
    /\ turnCount' = endCount[e]
    /\ Finish(e, "ended")
    /\ UNCHANGED <<stale, overdue, logVars, evalQueued, turnVars>>

\* FailSession: the status it read may have changed before this UPDATE.
FailSession(e) ==
    /\ endPc[e] = "committing" /\ endKind[e] = "fail"
    /\ status' = "failed"
    /\ Finish(e, "ended")
    /\ UNCHANGED <<stale, overdue, turnCount, logVars, evalQueued, turnVars>>

\* The 60 s deadline, a client that hung up, a failed statement or commit.
GiveUp(e) ==
    /\ endPc[e] \in {"waiting", "counting", "committing"}
    /\ Finish(e, "gaveUp")
    /\ UNCHANGED <<rowVars, logVars, evalQueued, turnVars>>
-----------------------------------------------------------------------------
TurnStep(t) ==
    \/ LoadTranscript(t) \/ ReadMaxSeq(t) \/ LoadFails(t) \/ Transcribe(t)
    \/ PersistCandidate(t) \/ StreamReply(t) \/ PersistReply(t) \/ PersistFails(t)
    \/ Release(t) \/ ReleaseFails(t)

EnderStep(e) ==
    \/ StopWaiting(e) \/ InlineRecover(e) \/ CountTurns(e)
    \/ CompleteSession(e) \/ CancelSession(e) \/ FailSession(e) \/ GiveUp(e)

Next ==
    \/ \E t \in Turns : \/ AcquireTurn(t) \/ RefuseTurn(t) \/ TurnStep(t)
                        \/ Crash(t) \/ FinishUpload(t) \/ UploadFails(t)
    \/ \E e \in Enders : StartEnding(e) \/ EnderStep(e)
    \/ GenerationAges \/ SessionExpires
    \/ CleanupStaleGenerating \/ CleanupAbandonedSession

Spec == Init /\ [][Next]_vars

(***************************************************************************)
(* A live goroutine keeps running, the clock advances, and River runs its  *)
(* periodic jobs.  Nothing makes a client submit a turn or end a session.  *)
(* A request may hang up or its instance die at any moment.                *)
(***************************************************************************)
Fairness ==
    /\ \A t \in Turns : WF_vars(TurnStep(t))
    /\ \A e \in Enders : WF_vars(EnderStep(e))
    /\ WF_vars(GenerationAges) /\ WF_vars(SessionExpires)
    /\ WF_vars(CleanupStaleGenerating) /\ WF_vars(CleanupAbandonedSession)

FairSpec == Spec /\ Fairness
-----------------------------------------------------------------------------
TypeOK ==
    /\ status \in Statuses /\ stale \in BOOLEAN /\ overdue \in BOOLEAN
    /\ turnCount \in Nat
    /\ messages \subseteq Message /\ audioLinked \subseteq Turns
    /\ evalQueued \in BOOLEAN
    /\ pc \in [Turns -> Running \cup Stopped]
    /\ input \in [Turns -> Inputs]
    /\ seen \in [Turns -> {"none", "candidate", "interviewer"}]
    /\ seq \in [Turns -> Nat]
    /\ upload \in [Turns -> {"none", "running", "stored", "lost"}]
    /\ endPc \in [Enders -> {"idle", "waiting", "counting", "committing", "ended", "gaveUp"}]
    /\ endKind \in [Enders -> EndKinds \cup {"none"}]
    /\ endCount \in [Enders -> Nat]

(***************************************************************************)
(* The transcript of a session is numbered 1, 2, 3, ... with no number     *)
(* missing and none used twice, whatever turns ran side by side after a    *)
(* stale recovery: each inserts at the MAX(seq) it read plus one and the   *)
(* UNIQUE constraint refuses the loser (turn.go, messages.sql).            *)
(***************************************************************************)
TranscriptContiguous ==
    /\ \A m, n \in messages : m.seq = n.seq => m = n
    /\ \A m \in messages : m.seq > 1 => \E n \in messages : n.seq + 1 = m.seq

(***************************************************************************)
(* At most one turn is past AcquireGeneratingStatus, provided turns end    *)
(* within five minutes: neither recovery of a dead turn, nor a request     *)
(* that ends the session, nor a failed release lets a second one in.       *)
(***************************************************************************)
OneTurnAtATime ==
    ~SlowTurns =>
        \A t, u \in Turns : pc[t] \in Running /\ pc[u] \in Running => t = u

(***************************************************************************)
(* Candidate and interviewer speak in turn, across crashes between the     *)
(* candidate's message and the reply: the next turn answers the message    *)
(* left unanswered instead of adding another (the isCrashRecovery branch   *)
(* of ExecuteTurn).  Provided turns end within five minutes.               *)
(***************************************************************************)
RolesAlternate ==
    ~SlowTurns =>
        \A m, n \in messages : n.seq = m.seq + 1 => n.role # m.role

(***************************************************************************)
(* A turn that ended with InterviewerDone has its reply in the transcript, *)
(* right after the message it answers.                                     *)
(***************************************************************************)
DoneMeansAnswered ==
    \A t \in Turns : pc[t] = "done" =>
        \E m \in InterviewerMessages :
            /\ m.turn = t /\ m.seq = seq[t]
            /\ \A n \in messages : ~SlowTurns /\ n.seq + 1 = m.seq => n.role = "candidate"

(***************************************************************************)
(* An ended session is never open again: no late release, stale recovery   *)
(* or acquire turns completed, cancelled or failed back into active or     *)
(* generating, even when the session was ended under a running turn.       *)
(***************************************************************************)
EndedIsFinal == [][(status \in Ended) => (status' \in Ended)]_vars

(***************************************************************************)
(* The abandoned-session job never ends a session while a turn that will   *)
(* still write is inside it: the transcript a clean-up ends is complete.   *)
(* Provided turns end within five minutes.                                 *)
(***************************************************************************)
CleanupSparesRunningTurns ==
    [][CleanupAbandonedSession /\ ~SlowTurns => \A t \in Turns : pc[t] \notin Running]_vars

(***************************************************************************)
(* "Only evaluate sessions with real candidate interaction": when an       *)
(* evaluation is queued the candidate has a message in the transcript,     *)
(* though EndSession decides it by a count of interviewer messages.        *)
(* Provided turns end within five minutes.                                 *)
(***************************************************************************)
EvaluatedMeansAnswered == evalQueued /\ ~SlowTurns => HasCandidateMessage

(***************************************************************************)
(* However a turn dies or fails to release, the session does not stay      *)
(* 'generating' for ever.                                                  *)
(***************************************************************************)
GenerationEnds == (status = "generating") ~> (status # "generating")

(***************************************************************************)
(* Every session ends: after its deadline it is completed or cancelled     *)
(* even if the candidate never comes back and its last turn died.          *)
(***************************************************************************)
SessionEnds == <>[](status \in Ended)

(***************************************************************************)
(* A recording that was stored, of a turn whose message was persisted, is  *)
(* linked from that message.                                               *)
(***************************************************************************)
StoredAudioIsLinked ==
    \A t \in Turns :
        /\ upload[t] = "stored"
        /\ \E m \in messages : m.turn = t /\ m.role = "candidate"
        => t \in audioLinked

(***************************************************************************)
(* What a reader of the transcript sees of all this is a Conversation.     *)
(***************************************************************************)
Seen == INSTANCE Conversation WITH
            open <- status \notin Ended,
            busy <- \E t \in Turns : pc[t] \in Running,
            said <- {[seq |-> m.seq, role |-> m.role] : m \in messages}

(***************************************************************************)
(* Provided turns end within five minutes, the code of ExecuteTurn, of the *)
(* calls that end a session and of the clean-up jobs implements the        *)
(* Conversation, crashes and failed releases included.                     *)
(***************************************************************************)
ImplementsConversation == Seen!Spec
=============================================================================
