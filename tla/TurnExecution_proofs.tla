------------------------ MODULE TurnExecution_proofs -----------------------
(***************************************************************************)
(* Proofs about TurnExecution, for any number of turns, of requests that   *)
(* end the session, and of messages.                                       *)
(***************************************************************************)
EXTENDS TurnExecution, FiniteSetTheorems, TLAPS

(***************************************************************************)
(* Every variable keeps its type, and the transcript stays finite: the     *)
(* number of interviewer messages that CountInterviewerMessages returns is *)
(* a number.                                                               *)
(***************************************************************************)
Typed == TypeOK /\ IsFiniteSet(messages)

LEMMA InitTyped == Init => Typed
  <1>1. Init => TypeOK
    <2> SUFFICES ASSUME Init PROVE TypeOK
      OBVIOUS
    <2>1. stale \in BOOLEAN /\ overdue \in BOOLEAN /\ evalQueued \in BOOLEAN
      BY Zenon DEF Init
    <2>2. status \in Statuses /\ turnCount \in Nat
      BY DEF Init, Statuses
    <2>3. messages \subseteq Message /\ audioLinked \subseteq Turns
      BY DEF Init
    <2>4. /\ pc \in [Turns -> Running \cup Stopped]
          /\ input \in [Turns -> Inputs]
          /\ seen \in [Turns -> {"none", "candidate", "interviewer"}]
          /\ seq \in [Turns -> Nat]
          /\ upload \in [Turns -> {"none", "running", "stored", "lost"}]
      BY DEF Init, Running, Stopped, Inputs
    <2>5. /\ endPc \in [Enders -> {"idle", "waiting", "counting", "committing", "ended", "gaveUp"}]
          /\ endKind \in [Enders -> EndKinds \cup {"none"}]
          /\ endCount \in [Enders -> Nat]
      BY DEF Init
    <2>6. QED
      BY <2>1, <2>2, <2>3, <2>4, <2>5 DEF TypeOK
  <1>2. Init => IsFiniteSet(messages)
    BY FS_EmptySet DEF Init
  <1>3. QED
    BY <1>1, <1>2 DEF Typed

LEMMA InsertTyped ==
    ASSUME Typed, NEW t \in Turns, NEW role \in {"candidate", "interviewer"},
           Insert(t, role)
    PROVE  /\ messages' \subseteq Message /\ IsFiniteSet(messages')
           /\ seq' \in [Turns -> Nat]
  <1>1. [seq |-> seq[t] + 1, role |-> role, turn |-> t] \in Message
    BY DEF Typed, TypeOK, Message
  <1>2. IsFiniteSet(messages')
    BY FS_AddElement DEF Typed, Insert
  <1>3. QED
    BY <1>1, <1>2 DEF Typed, TypeOK, Insert

LEMMA TurnTyped ==
    ASSUME Typed, NEW t \in Turns,
           \/ AcquireTurn(t) \/ RefuseTurn(t) \/ TurnStep(t)
           \/ Crash(t) \/ FinishUpload(t) \/ UploadFails(t)
    PROVE  Typed'
  <1> USE DEF Typed, TypeOK, Statuses, Running, Stopped, Ended, Goto,
              rowVars, logVars, turnVars, enderVars
  <1>1. CASE AcquireTurn(t)
    BY <1>1 DEF AcquireTurn
  <1>2. CASE RefuseTurn(t)
    BY <1>2 DEF RefuseTurn
  <1>3. CASE LoadTranscript(t)
    BY <1>3 DEF LoadTranscript, Message
  <1>4. CASE ReadMaxSeq(t)
    <2>1. \A n \in {0} \cup {m.seq : m \in messages} : n \in Nat
      BY DEF Message
    <2>2. AfterLoad(t) \subseteq Running
      BY DEF AfterLoad, OpensOrResumes, Inputs
    <2>3. QED
      BY <1>4, <2>1, <2>2 DEF ReadMaxSeq
  <1>5. CASE LoadFails(t)
    BY <1>5 DEF LoadFails
  <1>6. CASE Transcribe(t)
    BY <1>6 DEF Transcribe
  <1>7. CASE PersistCandidate(t)
    BY <1>7, InsertTyped DEF PersistCandidate
  <1>8. CASE StreamReply(t)
    BY <1>8 DEF StreamReply
  <1>9. CASE PersistReply(t)
    BY <1>9, InsertTyped DEF PersistReply
  <1>10. CASE PersistFails(t)
    BY <1>10 DEF PersistFails
  <1>11. CASE Release(t)
    BY <1>11 DEF Release
  <1>12. CASE ReleaseFails(t)
    BY <1>12 DEF ReleaseFails
  <1>13. CASE Crash(t)
    BY <1>13 DEF Crash
  <1>14. CASE FinishUpload(t)
    BY <1>14 DEF FinishUpload
  <1>15. CASE UploadFails(t)
    BY <1>15 DEF UploadFails
  <1>16. QED
    BY <1>1, <1>2, <1>3, <1>4, <1>5, <1>6, <1>7, <1>8, <1>9, <1>10, <1>11,
       <1>12, <1>13, <1>14, <1>15 DEF TurnStep

LEMMA EnderTyped ==
    ASSUME Typed, NEW e \in Enders, StartEnding(e) \/ EnderStep(e)
    PROVE  Typed'
  <1> USE DEF Typed, TypeOK, Statuses, Ended, Finish,
              rowVars, logVars, turnVars, enderVars
  <1>1. CASE StartEnding(e)
    BY <1>1 DEF StartEnding
  <1>2. CASE StopWaiting(e)
    BY <1>2 DEF StopWaiting
  <1>3. CASE InlineRecover(e)
    BY <1>3 DEF InlineRecover
  <1>4. CASE CountTurns(e)
    <2>1. Cardinality(InterviewerMessages) \in Nat
      BY FS_Subset, FS_CardinalityType DEF InterviewerMessages
    <2>2. QED
      BY <1>4, <2>1 DEF CountTurns
  <1>5. CASE CompleteSession(e)
    BY <1>5 DEF CompleteSession
  <1>6. CASE CancelSession(e)
    BY <1>6 DEF CancelSession
  <1>7. CASE FailSession(e)
    BY <1>7 DEF FailSession
  <1>8. CASE GiveUp(e)
    BY <1>8 DEF GiveUp
  <1>9. QED
    BY <1>1, <1>2, <1>3, <1>4, <1>5, <1>6, <1>7, <1>8 DEF EnderStep

LEMMA JobTyped ==
    ASSUME Typed,
           \/ GenerationAges \/ SessionExpires
           \/ CleanupStaleGenerating \/ CleanupAbandonedSession
    PROVE  Typed'
  BY DEF Typed, TypeOK, Statuses, Ended, rowVars, logVars, turnVars, enderVars,
         GenerationAges, SessionExpires, CleanupStaleGenerating,
         CleanupAbandonedSession, HasCandidateMessage

LEMMA TypedInvariant == Spec => []Typed
  <1>1. Typed /\ [Next]_vars => Typed'
    <2> SUFFICES ASSUME Typed, [Next]_vars PROVE Typed'
      OBVIOUS
    <2>1. CASE UNCHANGED vars
      BY <2>1 DEF vars, Typed, TypeOK
    <2>2. CASE Next
      BY <2>2, TurnTyped, EnderTyped, JobTyped DEF Next
    <2>3. QED
      BY <2>1, <2>2
  <1>2. QED
    BY InitTyped, <1>1, PTL DEF Spec

(***************************************************************************)
(* No request, job, crash or passage of time takes a variable out of its   *)
(* type.                                                                   *)
(***************************************************************************)
THEOREM TypeCorrect == Spec => []TypeOK
  <1>1. Typed => TypeOK
    BY DEF Typed
  <1>2. QED
    BY <1>1, TypedInvariant, PTL
-----------------------------------------------------------------------------
(***************************************************************************)
(* TranscriptContiguous.  It is not inductive alone: what a turn is about  *)
(* to insert is one past a number that is taken, or is number 1, and rows  *)
(* are never deleted.  Nothing is assumed about how long a turn takes.     *)
(***************************************************************************)
Numbered == {"transcribing", "persisting", "streaming", "replying"}

SeqIsTaken ==
    \A t \in Turns : pc[t] \in Numbered =>
        seq[t] = 0 \/ \E m \in messages : m.seq = seq[t]

LogInv == TranscriptContiguous /\ SeqIsTaken

LEMMA InsertKeepsLog ==
    ASSUME Typed, LogInv, NEW t \in Turns, pc[t] \in {"persisting", "replying"},
           NEW role \in {"candidate", "interviewer"}, Insert(t, role),
           NEW to \in {"streaming", "releasing"}, Goto(t, to)
    PROVE  LogInv'
  <1> DEFINE new == [seq |-> seq[t] + 1, role |-> role, turn |-> t]
  <1>1. /\ messages' = messages \cup {new} /\ new.seq = seq[t] + 1
        /\ seq[t] \in Nat /\ seq'[t] = new.seq
        /\ \A u \in Turns \ {t} : seq'[u] = seq[u] /\ pc'[u] = pc[u]
    BY DEF Insert, Goto, Typed, TypeOK
  <1>2. \A m \in messages : m.seq \in Nat \ {0} /\ m.seq # new.seq
    BY DEF Insert, Free, Typed, TypeOK, Message
  <1>3. seq[t] = 0 \/ \E m \in messages : m.seq = seq[t]
    BY DEF LogInv, SeqIsTaken, Numbered
  <1>4. \A m, n \in messages' : m.seq = n.seq => m = n
    BY <1>1, <1>2 DEF LogInv, TranscriptContiguous
  <1>5. \A m \in messages' : m.seq > 1 => \E n \in messages' : n.seq + 1 = m.seq
    <2> SUFFICES ASSUME NEW m \in messages', m.seq > 1
                 PROVE  \E n \in messages' : n.seq + 1 = m.seq
      OBVIOUS
    <2>1. CASE m \in messages
      BY <2>1, <1>1 DEF LogInv, TranscriptContiguous
    <2>2. CASE m = new
      <3>1. seq[t] # 0
        BY <2>2, <1>1
      <3>2. PICK n \in messages : n.seq = seq[t]
        BY <3>1, <1>3
      <3>3. QED
        BY <3>2, <2>2, <1>1
    <2>3. QED
      BY <2>1, <2>2, <1>1
  <1>6. SeqIsTaken'
    BY <1>1 DEF LogInv, SeqIsTaken
  <1>7. QED
    BY <1>4, <1>5, <1>6 DEF LogInv, TranscriptContiguous

\* A step that writes no message and numbers no turn.
LEMMA QuietKeepsLog ==
    ASSUME LogInv, messages' = messages, seq' = seq,
           \A t \in Turns : pc'[t] \in Numbered => pc[t] \in Numbered
    PROVE  LogInv'
  BY DEF LogInv, SeqIsTaken, TranscriptContiguous

LEMMA TurnKeepsLog ==
    ASSUME Typed, LogInv, NEW t \in Turns,
           \/ AcquireTurn(t) \/ RefuseTurn(t) \/ TurnStep(t)
           \/ Crash(t) \/ FinishUpload(t) \/ UploadFails(t)
    PROVE  LogInv'
  <1> USE DEF Goto, Numbered
  <1>1. CASE PersistCandidate(t)
    BY <1>1, InsertKeepsLog DEF PersistCandidate
  <1>2. CASE PersistReply(t)
    BY <1>2, InsertKeepsLog DEF PersistReply
  <1>3. CASE ReadMaxSeq(t)
    <2>1. /\ messages' = messages
          /\ seq'[t] = 0 \/ \E m \in messages : m.seq = seq'[t]
      BY <1>3 DEF ReadMaxSeq, IsMaxSeq, Typed, TypeOK, logVars
    <2>2. \A u \in Turns \ {t} : seq'[u] = seq[u] /\ pc'[u] = pc[u]
      BY <1>3 DEF ReadMaxSeq, Typed, TypeOK
    <2>3. QED
      BY <2>1, <2>2 DEF LogInv, SeqIsTaken, TranscriptContiguous
  <1>4. CASE Transcribe(t)
    BY <1>4, QuietKeepsLog DEF Transcribe, Typed, TypeOK, logVars
  <1>5. CASE StreamReply(t)
    BY <1>5, QuietKeepsLog DEF StreamReply, Typed, TypeOK, logVars
  <1>6. CASE FinishUpload(t) \/ UploadFails(t)
    BY <1>6, QuietKeepsLog DEF FinishUpload, UploadFails, logVars
  <1>7. CASE \/ AcquireTurn(t) \/ RefuseTurn(t) \/ LoadTranscript(t) \/ LoadFails(t)
             \/ PersistFails(t) \/ Release(t) \/ ReleaseFails(t) \/ Crash(t)
    <2>1. messages' = messages /\ seq' = seq
      BY <1>7 DEF AcquireTurn, RefuseTurn, LoadTranscript, LoadFails, PersistFails,
                  Release, ReleaseFails, Crash, logVars
    <2>2. \A u \in Turns : pc'[u] \in Numbered => pc[u] \in Numbered
      BY <1>7 DEF AcquireTurn, RefuseTurn, LoadTranscript, LoadFails, PersistFails,
                  Release, ReleaseFails, Crash, Typed, TypeOK
    <2>3. QED
      BY <2>1, <2>2, QuietKeepsLog
  <1>8. QED
    BY <1>1, <1>2, <1>3, <1>4, <1>5, <1>6, <1>7 DEF TurnStep

LEMMA EnderTouchesNoTurn ==
    ASSUME NEW e \in Enders, StartEnding(e) \/ EnderStep(e)
    PROVE  UNCHANGED <<turnVars, logVars, stale, overdue>>
  BY DEF EnderStep, StartEnding, StopWaiting, InlineRecover, CountTurns,
         CompleteSession, CancelSession, FailSession, GiveUp, rowVars, logVars, turnVars

LEMMA JobTouchesNoTurn ==
    ASSUME \/ GenerationAges \/ SessionExpires
           \/ CleanupStaleGenerating \/ CleanupAbandonedSession
    PROVE  UNCHANGED <<turnVars, logVars>>
  BY DEF GenerationAges, SessionExpires, CleanupStaleGenerating,
         CleanupAbandonedSession, logVars, turnVars

LEMMA LogInvariant == Spec => []LogInv
  <1>1. Init => LogInv
    BY DEF Init, LogInv, SeqIsTaken, Numbered, TranscriptContiguous
  <1>2. Typed /\ LogInv /\ [Next]_vars => LogInv'
    <2> SUFFICES ASSUME Typed, LogInv, [Next]_vars PROVE LogInv'
      OBVIOUS
    <2>1. CASE UNCHANGED vars
      BY <2>1, QuietKeepsLog DEF vars
    <2>2. CASE \E t \in Turns : \/ AcquireTurn(t) \/ RefuseTurn(t) \/ TurnStep(t)
                                \/ Crash(t) \/ FinishUpload(t) \/ UploadFails(t)
      BY <2>2, TurnKeepsLog
    <2>3. CASE \E e \in Enders : StartEnding(e) \/ EnderStep(e)
      BY <2>3, EnderTouchesNoTurn, QuietKeepsLog DEF turnVars, logVars
    <2>4. CASE \/ GenerationAges \/ SessionExpires
               \/ CleanupStaleGenerating \/ CleanupAbandonedSession
      BY <2>4, JobTouchesNoTurn, QuietKeepsLog DEF turnVars, logVars
    <2>5. QED
      BY <2>1, <2>2, <2>3, <2>4 DEF Next
  <1>3. QED
    BY <1>1, <1>2, TypedInvariant, PTL DEF Spec

(***************************************************************************)
(* The messages of a session are numbered without gaps or duplicates, for  *)
(* any number of turns and however long they take.                         *)
(***************************************************************************)
THEOREM TranscriptIsContiguous == Spec => []TranscriptContiguous
  <1>1. LogInv => TranscriptContiguous
    BY DEF LogInv
  <1>2. QED
    BY <1>1, LogInvariant, PTL
-----------------------------------------------------------------------------
(***************************************************************************)
(* A session that is completed, cancelled or failed never opens again:     *)
(* every write of 'active' or 'generating' is conditional on the status it *)
(* replaces.                                                               *)
(***************************************************************************)
THEOREM EndedStaysEnded == Spec => EndedIsFinal
  <1>1. [Next]_vars => [(status \in Ended) => (status' \in Ended)]_vars
    <2> SUFFICES ASSUME Next, status \in Ended PROVE status' \in Ended
      BY DEF vars
    <2> USE DEF Ended, rowVars
    <2>1. CASE \E t \in Turns : \/ AcquireTurn(t) \/ RefuseTurn(t) \/ TurnStep(t)
                                \/ Crash(t) \/ FinishUpload(t) \/ UploadFails(t)
      BY <2>1 DEF TurnStep, AcquireTurn, RefuseTurn, LoadTranscript, ReadMaxSeq,
            LoadFails, Transcribe, PersistCandidate, StreamReply, PersistReply,
            PersistFails, Release, ReleaseFails, Crash, FinishUpload, UploadFails
    <2>2. CASE \E e \in Enders : StartEnding(e) \/ EnderStep(e)
      BY <2>2 DEF EnderStep, StartEnding, StopWaiting, InlineRecover, CountTurns,
            CompleteSession, CancelSession, FailSession, GiveUp
    <2>3. CASE \/ GenerationAges \/ SessionExpires
               \/ CleanupStaleGenerating \/ CleanupAbandonedSession
      BY <2>3 DEF GenerationAges, SessionExpires, CleanupStaleGenerating,
            CleanupAbandonedSession
    <2>4. QED
      BY <2>1, <2>2, <2>3 DEF Next
  <1>2. QED
    BY <1>1, PTL DEF Spec, EndedIsFinal
-----------------------------------------------------------------------------
(***************************************************************************)
(* OneTurnAtATime.  Inductive with two facts about the status column: it   *)
(* is not 'active' while a turn runs, and a 'generating' that is stale     *)
(* belongs to no running turn.                                             *)
(***************************************************************************)
LockHeld ==
    /\ \A t, u \in Turns : pc[t] \in Running /\ pc[u] \in Running => t = u
    /\ \A t \in Turns : pc[t] \in Running => status # "active"
    /\ status = "generating" /\ stale => \A t \in Turns : pc[t] \notin Running

LockInv == ~SlowTurns => LockHeld

\* A step that starts no turn and leaves the session row as it is.
LEMMA QuietKeepsLock ==
    ASSUME LockInv, UNCHANGED <<status, stale>>,
           \A t \in Turns : pc'[t] \in Running => pc[t] \in Running
    PROVE  LockInv'
  BY DEF LockInv, LockHeld

LEMMA TurnKeepsLock ==
    ASSUME Typed, LockInv, NEW t \in Turns,
           \/ AcquireTurn(t) \/ RefuseTurn(t) \/ TurnStep(t)
           \/ Crash(t) \/ FinishUpload(t) \/ UploadFails(t)
    PROVE  LockInv'
  <1> USE DEF Goto, rowVars
  <1>1. CASE AcquireTurn(t)
    <2>1. status = "active" /\ status' = "generating" /\ ~stale'
      BY <1>1 DEF AcquireTurn
    <2>2. \A u \in Turns \ {t} : pc'[u] = pc[u]
      BY <1>1 DEF AcquireTurn, Typed, TypeOK
    <2>3. QED
      BY <2>1, <2>2 DEF LockInv, LockHeld
  <1>2. CASE Release(t)
    <2>1. pc[t] \in Running /\ pc'[t] \notin Running
      BY <1>2 DEF Release, Running, Typed, TypeOK
    <2>2. \A u \in Turns \ {t} : pc'[u] = pc[u]
      BY <1>2 DEF Release, Typed, TypeOK
    <2>3. ~SlowTurns => \A u \in Turns : pc'[u] \notin Running
      BY <2>1, <2>2 DEF LockInv, LockHeld
    <2>4. QED
      BY <2>3 DEF LockInv, LockHeld
  <1>3. CASE ReadMaxSeq(t)
    <2>1. pc[t] \in Running /\ UNCHANGED <<status, stale>>
      BY <1>3 DEF ReadMaxSeq, Running
    <2>2. \A u \in Turns : u # t => pc'[u] = pc[u]
      BY <1>3 DEF ReadMaxSeq, Typed, TypeOK
    <2>3. QED
      BY <2>1, <2>2, QuietKeepsLock
  <1>4. CASE \/ RefuseTurn(t) \/ LoadTranscript(t) \/ LoadFails(t) \/ Transcribe(t)
             \/ PersistCandidate(t) \/ StreamReply(t) \/ PersistReply(t)
             \/ PersistFails(t) \/ ReleaseFails(t) \/ Crash(t)
    <2> USE DEF RefuseTurn, LoadTranscript, LoadFails, Transcribe, PersistCandidate,
                StreamReply, PersistReply, PersistFails, ReleaseFails, Crash
    <2>1. UNCHANGED <<status, stale>>
      BY <1>4
    <2>2. \A u \in Turns : pc'[u] \in Running => pc[u] \in Running
      BY <1>4 DEF Running, Typed, TypeOK
    <2>3. QED
      BY <2>1, <2>2, QuietKeepsLock
  <1>5. CASE FinishUpload(t) \/ UploadFails(t)
    BY <1>5, QuietKeepsLock DEF FinishUpload, UploadFails
  <1>6. QED
    BY <1>1, <1>2, <1>3, <1>4, <1>5 DEF TurnStep

LEMMA EnderKeepsLock ==
    ASSUME Typed, LockInv, NEW e \in Enders, StartEnding(e) \/ EnderStep(e)
    PROVE  LockInv'
  <1>1. UNCHANGED <<pc, stale>>
    BY EnderTouchesNoTurn DEF turnVars
  <1>2. CASE InlineRecover(e)
    BY <1>1, <1>2 DEF InlineRecover, LockInv, LockHeld
  <1>3. CASE CompleteSession(e) \/ CancelSession(e) \/ FailSession(e)
    <2>1. status' \notin {"active", "generating"}
      BY <1>3 DEF CompleteSession, CancelSession, FailSession
    <2>2. QED
      BY <1>1, <2>1 DEF LockInv, LockHeld
  <1>4. CASE StartEnding(e) \/ StopWaiting(e) \/ CountTurns(e) \/ GiveUp(e)
    BY <1>1, <1>4, QuietKeepsLock DEF StartEnding, StopWaiting, CountTurns, GiveUp, rowVars
  <1>5. QED
    BY <1>2, <1>3, <1>4 DEF EnderStep

LEMMA JobKeepsLock ==
    ASSUME Typed, LockInv,
           \/ GenerationAges \/ SessionExpires
           \/ CleanupStaleGenerating \/ CleanupAbandonedSession
    PROVE  LockInv'
  <1>1. pc' = pc
    BY JobTouchesNoTurn DEF turnVars
  <1>2. CASE GenerationAges
    BY <1>1, <1>2 DEF GenerationAges, LockInv, LockHeld
  <1>3. CASE SessionExpires
    BY <1>1, <1>3, QuietKeepsLock DEF SessionExpires
  <1>4. CASE CleanupStaleGenerating
    BY <1>1, <1>4 DEF CleanupStaleGenerating, LockInv, LockHeld
  <1>5. CASE CleanupAbandonedSession
    <2>1. status = "active" /\ status' \notin {"active", "generating"}
      BY <1>5 DEF CleanupAbandonedSession
    <2>2. QED
      BY <1>1, <2>1 DEF LockInv, LockHeld
  <1>6. QED
    BY <1>2, <1>3, <1>4, <1>5

LEMMA LockInvariant == Spec => []LockInv
  <1>1. Init => LockInv
    BY DEF Init, LockInv, LockHeld, Running
  <1>2. Typed /\ LockInv /\ [Next]_vars => LockInv'
    <2> SUFFICES ASSUME Typed, LockInv, [Next]_vars PROVE LockInv'
      OBVIOUS
    <2>1. CASE UNCHANGED vars
      BY <2>1, QuietKeepsLock DEF vars
    <2>2. CASE Next
      BY <2>2, TurnKeepsLock, EnderKeepsLock, JobKeepsLock DEF Next
    <2>3. QED
      BY <2>1, <2>2
  <1>3. QED
    BY <1>1, <1>2, TypedInvariant, PTL DEF Spec

(***************************************************************************)
(* If turns end within the five-minute threshold, the status column is a   *)
(* mutual exclusion lock on the session, whatever crashes, fails to        *)
(* release or ends the session meanwhile.                                  *)
(***************************************************************************)
THEOREM TurnsExcludeEachOther == Spec => []OneTurnAtATime
  <1>1. LockInv => OneTurnAtATime
    BY DEF LockInv, LockHeld, OneTurnAtATime
  <1>2. QED
    BY <1>1, LockInvariant, PTL
-----------------------------------------------------------------------------
(***************************************************************************)
(* CleanupSparesRunningTurns: it ends active sessions only, and a session  *)
(* with a running turn is not active.                                      *)
(***************************************************************************)
THEOREM CleanupWaits == Spec => CleanupSparesRunningTurns
  <1> DEFINE Spares == CleanupAbandonedSession /\ ~SlowTurns => \A t \in Turns : pc[t] \notin Running
  <1>1. LockInv => Spares
    BY DEF LockInv, LockHeld, CleanupAbandonedSession
  <1>2. QED
    BY <1>1, LockInvariant, PTL DEF CleanupSparesRunningTurns
-----------------------------------------------------------------------------
(***************************************************************************)
(* RolesAlternate.  Inductive with what the one running turn knows: what   *)
(* it has seen is the last message, a turn that is about to persist the    *)
(* candidate's answer follows the interviewer, and one that is about to    *)
(* reply follows the candidate.                                            *)
(***************************************************************************)
LastIs(n, role) == IsMaxSeq(n) /\ \A m \in messages : m.seq = n => m.role = role

Knows(t) ==
    /\ pc[t] = "sequencing" =>
          \/ seen[t] = "none" /\ messages = {}
          \/ \E m \in messages : IsMaxSeq(m.seq) /\ seen[t] = m.role
    /\ pc[t] \in {"transcribing", "persisting"} => LastIs(seq[t], "interviewer")
    /\ pc[t] \in {"streaming", "replying"} => LastIs(seq[t], "candidate")

Alternating == \A m, n \in messages : n.seq = m.seq + 1 => n.role # m.role

SpeechInv == ~SlowTurns => Alternating /\ \A t \in Turns : Knows(t)

\* A step that writes no message and of which every turn but t knows nothing.
LEMMA SilentKeepsSpeech ==
    ASSUME SpeechInv, NEW t \in Turns, messages' = messages,
           \A u \in Turns \ {t} : pc'[u] = pc[u] /\ seen'[u] = seen[u] /\ seq'[u] = seq[u],
           ~SlowTurns => Knows(t)'
    PROVE  SpeechInv'
  BY DEF SpeechInv, Alternating, Knows, LastIs, IsMaxSeq

\* The message that a running turn adds follows one of the other role.
LEMMA InsertKeepsSpeech ==
    ASSUME Typed, LogInv, LockInv, SpeechInv, NEW t \in Turns,
           NEW role \in {"candidate", "interviewer"}, NEW to \in {"streaming", "releasing"},
           \/ pc[t] = "persisting" /\ role = "candidate" /\ to = "streaming"
           \/ pc[t] = "replying" /\ role = "interviewer" /\ to = "releasing",
           Insert(t, role), Goto(t, to), seen' = seen
    PROVE  SpeechInv'
  <1> SUFFICES ASSUME ~SlowTurns PROVE SpeechInv'
    BY DEF SpeechInv
  <1> DEFINE new == [seq |-> seq[t] + 1, role |-> role, turn |-> t]
  <1>1. /\ messages' = messages \cup {new} /\ new.seq = seq[t] + 1 /\ new.role = role
        /\ seq[t] \in Nat /\ seq'[t] = new.seq /\ pc'[t] = to
        /\ \A u \in Turns \ {t} : seq'[u] = seq[u] /\ pc'[u] = pc[u]
    BY DEF Insert, Goto, Typed, TypeOK
  <1>2. \A m \in messages : m.seq \in Nat /\ m.seq <= seq[t]
    <2>1. IsMaxSeq(seq[t])
      BY DEF SpeechInv, Knows, LastIs
    <2>2. QED
      BY <2>1 DEF IsMaxSeq, Typed, TypeOK, Message
  <1>3. \A m \in messages : m.seq = seq[t] => m.role # role
    BY DEF SpeechInv, Knows, LastIs
  <1>4. Alternating'
    BY <1>1, <1>2, <1>3 DEF SpeechInv, Alternating
  <1>5. \A u \in Turns \ {t} : pc'[u] \notin Running
    BY <1>1 DEF LockInv, LockHeld, Running
  <1>6. LastIs(seq[t], role)' => Knows(t)'
    BY <1>1 DEF Knows
  <1>7. /\ \A m \in messages' : m.seq <= seq'[t] /\ (m.seq = seq'[t] => m.role = role)
        /\ \E m \in messages' : m.seq = seq'[t]
    <2>1. \A m \in messages : m.seq <= seq'[t] /\ m.seq # seq'[t]
      BY <1>1, <1>2
    <2>2. new \in messages' /\ new.seq <= seq'[t] /\ new.seq = seq'[t] /\ new.role = role
      BY <1>1
    <2>3. \A m \in messages' : m \in messages \/ m = new
      BY <1>1
    <2> HIDE DEF new
    <2>4. QED
      BY <2>1, <2>2, <2>3
  <1>8. Knows(t)'
    BY <1>1, <1>7 DEF Knows, LastIs, IsMaxSeq
  <1>9. \A u \in Turns \ {t} : Knows(u)'
    BY <1>5 DEF Knows, Running
  <1>10. QED
    BY <1>4, <1>8, <1>9 DEF SpeechInv

LEMMA TurnKeepsSpeech ==
    ASSUME Typed, LogInv, LockInv, SpeechInv, NEW t \in Turns,
           \/ AcquireTurn(t) \/ RefuseTurn(t) \/ TurnStep(t)
           \/ Crash(t) \/ FinishUpload(t) \/ UploadFails(t)
    PROVE  SpeechInv'
  <1> USE DEF Goto
  <1>1. CASE PersistCandidate(t)
    BY <1>1, InsertKeepsSpeech DEF PersistCandidate
  <1>2. CASE PersistReply(t)
    BY <1>2, InsertKeepsSpeech DEF PersistReply
  <1>3. CASE LoadTranscript(t)
    <2>1. Knows(t)'
      BY <1>3 DEF LoadTranscript, Knows, IsMaxSeq, Typed, TypeOK, logVars
    <2>2. QED
      BY <1>3, <2>1, SilentKeepsSpeech DEF LoadTranscript, Typed, TypeOK, logVars
  <1>4. CASE ReadMaxSeq(t)
    <2>1. /\ messages' = messages /\ seen' = seen /\ pc[t] = "sequencing"
          /\ IsMaxSeq(seq'[t]) /\ seq'[t] \in Nat
          /\ pc'[t] \in AfterLoad(t)
          /\ \A u \in Turns \ {t} : pc'[u] = pc[u] /\ seq'[u] = seq[u]
      <3>1. \A n \in {0} \cup {m.seq : m \in messages} : n \in Nat
        BY DEF Typed, TypeOK, Message
      <3>2. QED
        BY <1>4, <3>1 DEF ReadMaxSeq, Typed, TypeOK, logVars
    <2>2. ASSUME ~SlowTurns, seen[t] \in {"candidate", "interviewer"}
          PROVE  LastIs(seq'[t], seen[t])
      <3>1. PICK m \in messages : IsMaxSeq(m.seq) /\ seen[t] = m.role
        BY <2>1, <2>2 DEF SpeechInv, Knows
      <3>2. m.seq = seq'[t]
        BY <2>1, <3>1 DEF IsMaxSeq, Typed, TypeOK, Message
      <3>3. \A n \in messages : n.seq = m.seq => n = m
        BY <3>1 DEF LogInv, TranscriptContiguous
      <3>4. QED
        BY <3>1, <3>2, <3>3 DEF LastIs
    <2>3. ASSUME ~SlowTurns, seen[t] = "none" PROVE messages = {}
      <3>1. \A m \in messages : m.role # "none"
        BY DEF Typed, TypeOK, Message
      <3>2. QED
        BY <2>1, <2>3, <3>1 DEF SpeechInv, Knows
    <2>4. /\ pc'[t] = "streaming" => seen[t] \in {"none", "candidate"}
          /\ pc'[t] \in {"transcribing", "persisting"} => seen[t] # "candidate"
          /\ pc'[t] \notin {"sequencing", "replying"}
      BY <2>1 DEF AfterLoad, OpensOrResumes, Typed, TypeOK, Inputs
    <2>5. seen[t] \in {"none", "candidate", "interviewer"}
      BY DEF Typed, TypeOK
    <2>6. ~SlowTurns => Knows(t)'
      BY <2>1, <2>2, <2>3, <2>4, <2>5 DEF Knows, LastIs, IsMaxSeq
    <2>7. QED
      BY <2>1, <2>6, SilentKeepsSpeech
  <1>5. CASE Transcribe(t) \/ StreamReply(t)
    <2>1. /\ messages' = messages /\ seq' = seq /\ seen' = seen
          /\ \A u \in Turns \ {t} : pc'[u] = pc[u]
          /\ \/ pc[t] = "transcribing" /\ pc'[t] \in {"persisting", "failing"}
             \/ pc[t] = "streaming" /\ pc'[t] \in {"replying", "failing"}
      BY <1>5 DEF Transcribe, StreamReply, Typed, TypeOK, logVars
    <2>2. ~SlowTurns => Knows(t)'
      BY <2>1 DEF SpeechInv, Knows, LastIs, IsMaxSeq
    <2>3. QED
      BY <2>1, <2>2, SilentKeepsSpeech
  <1>6. CASE FinishUpload(t) \/ UploadFails(t)
    <2>1. UNCHANGED <<messages, pc, seen, seq>>
      BY <1>6 DEF FinishUpload, UploadFails, logVars
    <2>2. QED
      BY <2>1 DEF SpeechInv, Alternating, Knows, LastIs, IsMaxSeq
  <1>7. CASE \/ AcquireTurn(t) \/ RefuseTurn(t) \/ LoadFails(t)
             \/ PersistFails(t) \/ Release(t) \/ ReleaseFails(t) \/ Crash(t)
    <2>1. /\ UNCHANGED <<messages, seen, seq>>
          /\ \A u \in Turns \ {t} : pc'[u] = pc[u]
          /\ pc'[t] \in {"loading", "refused", "failing", "done", "errored", "dead"}
      BY <1>7 DEF AcquireTurn, RefuseTurn, LoadFails, PersistFails, Release, ReleaseFails, Crash,
                  Typed, TypeOK, logVars
    <2>2. Knows(t)'
      BY <2>1 DEF Knows
    <2>3. QED
      BY <2>1, <2>2, SilentKeepsSpeech
  <1>8. QED
    BY <1>1, <1>2, <1>3, <1>4, <1>5, <1>6, <1>7 DEF TurnStep

LEMMA SpeechInvariant == Spec => []SpeechInv
  <1>1. Init => SpeechInv
    BY DEF Init, SpeechInv, Alternating, Knows
  <1>2. Typed /\ LogInv /\ LockInv /\ SpeechInv /\ [Next]_vars => SpeechInv'
    <2> SUFFICES ASSUME Typed, LogInv, LockInv, SpeechInv, [Next]_vars PROVE SpeechInv'
      OBVIOUS
    <2>1. CASE \E t \in Turns : \/ AcquireTurn(t) \/ RefuseTurn(t) \/ TurnStep(t)
                                \/ Crash(t) \/ FinishUpload(t) \/ UploadFails(t)
      BY <2>1, TurnKeepsSpeech
    <2>2. CASE ~ \E t \in Turns : \/ AcquireTurn(t) \/ RefuseTurn(t) \/ TurnStep(t)
                                  \/ Crash(t) \/ FinishUpload(t) \/ UploadFails(t)
      <3>1. UNCHANGED <<messages, pc, seen, seq>>
        BY <2>2, EnderTouchesNoTurn, JobTouchesNoTurn DEF Next, vars, turnVars, logVars
      <3>2. QED
        BY <3>1 DEF SpeechInv, Alternating, Knows, LastIs, IsMaxSeq
    <2>3. QED
      BY <2>1, <2>2
  <1>3. QED
    BY <1>1, <1>2, TypedInvariant, LogInvariant, LockInvariant, PTL DEF Spec

(***************************************************************************)
(* If turns end within five minutes, candidate and interviewer speak in    *)
(* turn, although turns die between the candidate's message and the reply: *)
(* the next one resumes.                                                   *)
(***************************************************************************)
THEOREM NobodySpeaksTwice == Spec => []RolesAlternate
  <1>1. SpeechInv => RolesAlternate
    BY DEF SpeechInv, Alternating, RolesAlternate
  <1>2. QED
    BY <1>1, SpeechInvariant, PTL
-----------------------------------------------------------------------------
(***************************************************************************)
(* DoneMeansAnswered.  The reply of a turn stays, and so does the number   *)
(* of it that the turn remembers.                                          *)
(***************************************************************************)
Replied(t) == \E m \in InterviewerMessages : m.turn = t /\ m.seq = seq[t]
ReplyInv == \A t \in Turns : pc[t] \in {"releasing", "done"} => Replied(t)

LEMMA MessagesStay ==
    ASSUME NEW t \in Turns,
           \/ AcquireTurn(t) \/ RefuseTurn(t) \/ TurnStep(t)
           \/ Crash(t) \/ FinishUpload(t) \/ UploadFails(t)
    PROVE  messages \subseteq messages'
  BY DEF TurnStep, AcquireTurn, RefuseTurn, LoadTranscript, ReadMaxSeq, LoadFails, Transcribe,
         PersistCandidate, StreamReply, PersistReply, PersistFails, Release, ReleaseFails, Crash,
         FinishUpload, UploadFails, Insert, logVars

LEMMA ReplyInvariant == Spec => []ReplyInv
  <1>1. Init => ReplyInv
    BY DEF Init, ReplyInv
  <1>2. Typed /\ ReplyInv /\ [Next]_vars => ReplyInv'
    <2> SUFFICES ASSUME Typed, ReplyInv, [Next]_vars,
                        NEW u \in Turns, pc'[u] \in {"releasing", "done"}
                 PROVE  Replied(u)'
      BY DEF ReplyInv
    <2>1. ASSUME messages \subseteq messages', Replied(u), seq'[u] = seq[u] PROVE Replied(u)'
      BY <2>1 DEF Replied, InterviewerMessages
    <2>2. ASSUME NEW t \in Turns,
                 \/ AcquireTurn(t) \/ RefuseTurn(t) \/ TurnStep(t)
                 \/ Crash(t) \/ FinishUpload(t) \/ UploadFails(t)
          PROVE  Replied(u)'
      <3>1. CASE t # u
        <4>1. pc'[u] = pc[u] /\ seq'[u] = seq[u]
          BY <2>2, <3>1
             DEF TurnStep, AcquireTurn, RefuseTurn, LoadTranscript, ReadMaxSeq, LoadFails,
                 Transcribe, PersistCandidate, StreamReply, PersistReply, PersistFails, Release,
                 ReleaseFails, Crash, FinishUpload, UploadFails, Insert, Goto, Typed, TypeOK
        <4>2. QED
          BY <2>1, <2>2, <4>1, MessagesStay DEF ReplyInv
      <3>2. CASE t = u /\ PersistReply(u)
        <4> DEFINE new == [seq |-> seq[u] + 1, role |-> "interviewer", turn |-> u]
        <4>1. new \in messages' /\ seq'[u] = seq[u] + 1
          BY <3>2 DEF PersistReply, Insert, Typed, TypeOK
        <4>2. new.seq = seq[u] + 1 /\ new.role = "interviewer" /\ new.turn = u
          OBVIOUS
        <4>3. QED
          BY <4>1, <4>2 DEF Replied, InterviewerMessages
      <3>3. CASE t = u /\ ~PersistReply(u)
        <4>1. pc[u] \in {"releasing", "done"} /\ seq'[u] = seq[u]
          <5>1. CASE ReadMaxSeq(u)
            <6>1. AfterLoad(u) \cap {"releasing", "done"} = {}
              BY DEF AfterLoad, OpensOrResumes, Typed, TypeOK, Inputs
            <6>2. QED
              BY <5>1, <6>1 DEF ReadMaxSeq, Goto, Typed, TypeOK
          <5>2. CASE ~ReadMaxSeq(u)
            BY <2>2, <3>3, <5>2
               DEF TurnStep, AcquireTurn, RefuseTurn, LoadTranscript, LoadFails, Transcribe,
                   PersistCandidate, StreamReply, PersistFails, Release, ReleaseFails, Crash,
                   FinishUpload, UploadFails, Goto, Typed, TypeOK
          <5>3. QED
            BY <5>1, <5>2
        <4>2. QED
          BY <2>1, <2>2, <4>1, <3>3, MessagesStay DEF ReplyInv
      <3>4. QED
        BY <3>1, <3>2, <3>3
    <2>3. CASE UNCHANGED <<messages, pc, seq>>
      BY <2>1, <2>3 DEF ReplyInv
    <2>4. QED
      BY <2>2, <2>3, EnderTouchesNoTurn, JobTouchesNoTurn DEF Next, vars, turnVars, logVars
  <1>3. QED
    BY <1>1, <1>2, TypedInvariant, PTL DEF Spec

(***************************************************************************)
(* A turn that ended with InterviewerDone has left its reply, right after  *)
(* the message it answers.                                                 *)
(***************************************************************************)
THEOREM DoneTurnsAnswered == Spec => []DoneMeansAnswered
  <1>1. Typed /\ SpeechInv /\ ReplyInv => DoneMeansAnswered
    <2> SUFFICES ASSUME Typed, SpeechInv, ReplyInv, NEW t \in Turns, pc[t] = "done"
                 PROVE  \E m \in InterviewerMessages :
                            /\ m.turn = t /\ m.seq = seq[t]
                            /\ \A n \in messages :
                                  ~SlowTurns /\ n.seq + 1 = m.seq => n.role = "candidate"
      BY DEF DoneMeansAnswered
    <2>1. PICK m \in InterviewerMessages : m.turn = t /\ m.seq = seq[t]
      BY DEF ReplyInv, Replied
    <2>2. ASSUME ~SlowTurns, NEW n \in messages, n.seq + 1 = m.seq PROVE n.role = "candidate"
      BY <2>2 DEF SpeechInv, Alternating, InterviewerMessages, Typed, TypeOK, Message
    <2>3. QED
      BY <2>1, <2>2
  <1>2. QED
    BY <1>1, TypedInvariant, SpeechInvariant, ReplyInvariant, PTL
-----------------------------------------------------------------------------
(***************************************************************************)
(* EvaluatedMeansAnswered.  Two messages of the interviewer have one of    *)
(* the candidate between them, so that the count EndSession has read is    *)
(* enough, however long ago it was read.                                   *)
(***************************************************************************)
LEMMA TwoRepliesNeedAnAnswer ==
    ASSUME Typed, LogInv, SpeechInv, ~SlowTurns, Cardinality(InterviewerMessages) > 1
    PROVE  HasCandidateMessage
  <1>1. IsFiniteSet(InterviewerMessages)
    BY FS_Subset DEF Typed, InterviewerMessages
  <1>2. PICK m, n \in InterviewerMessages : m # n
    <2> SUFFICES ASSUME \A m, n \in InterviewerMessages : m = n PROVE FALSE
      OBVIOUS
    <2>1. CASE InterviewerMessages = {}
      <3>1. Cardinality(InterviewerMessages) = 0
        BY <2>1, FS_EmptySet
      <3>2. QED
        BY <3>1
    <2>2. CASE \E m : InterviewerMessages = {m}
      <3>1. Cardinality(InterviewerMessages) = 1
        BY <2>2, FS_Singleton
      <3>2. QED
        BY <3>1
    <2>3. QED
      BY <2>1, <2>2
  <1>3. PICK late \in InterviewerMessages : late.seq > 1
    BY <1>2 DEF LogInv, TranscriptContiguous, InterviewerMessages, Typed, TypeOK, Message
  <1>4. PICK before \in messages : before.seq + 1 = late.seq
    BY <1>3 DEF LogInv, TranscriptContiguous, InterviewerMessages
  <1>5. before.role = "candidate"
    BY <1>4 DEF SpeechInv, Alternating, InterviewerMessages, Typed, TypeOK, Message
  <1>6. QED
    BY <1>5 DEF HasCandidateMessage

Counted == \A e \in Enders : endCount[e] > 1 => HasCandidateMessage
CountInv == ~SlowTurns => Counted /\ (evalQueued => HasCandidateMessage)

LEMMA CountInvariant == Spec => []CountInv
  <1>1. Init => CountInv
    BY DEF Init, CountInv, Counted
  <1>2. Typed /\ LogInv /\ SpeechInv /\ CountInv /\ [Next]_vars => CountInv'
    <2> SUFFICES ASSUME Typed, LogInv, SpeechInv, CountInv, [Next]_vars, ~SlowTurns
                 PROVE  CountInv'
      BY DEF CountInv
    <2>1. ASSUME messages \subseteq messages' PROVE HasCandidateMessage => HasCandidateMessage'
      BY <2>1 DEF HasCandidateMessage
    <2>2. ASSUME NEW t \in Turns,
                 \/ AcquireTurn(t) \/ RefuseTurn(t) \/ TurnStep(t)
                 \/ Crash(t) \/ FinishUpload(t) \/ UploadFails(t)
          PROVE  CountInv'
      <3>1. UNCHANGED <<endCount, evalQueued>>
        BY <2>2 DEF TurnStep, AcquireTurn, RefuseTurn, LoadTranscript, ReadMaxSeq, LoadFails,
                 Transcribe, PersistCandidate, StreamReply, PersistReply, PersistFails, Release,
                 ReleaseFails, Crash, FinishUpload, UploadFails, enderVars
      <3>2. QED
        BY <2>1, <2>2, <3>1, MessagesStay DEF CountInv, Counted
    <2>3. ASSUME NEW e \in Enders, StartEnding(e) \/ EnderStep(e) PROVE CountInv'
      <3>1. messages' = messages /\ HasCandidateMessage' = HasCandidateMessage
        BY <2>3, EnderTouchesNoTurn DEF logVars, HasCandidateMessage
      <3>2. CASE CountTurns(e)
        <4>1. /\ UNCHANGED evalQueued
              /\ endCount' = [endCount EXCEPT ![e] = Cardinality(InterviewerMessages)]
          BY <3>2 DEF CountTurns
        <4>2. QED
          BY <3>1, <4>1, TwoRepliesNeedAnAnswer DEF CountInv, Counted, Typed, TypeOK
      <3>3. CASE CompleteSession(e)
        <4>1. evalQueued' = (evalQueued \/ endCount[e] > 1) /\ UNCHANGED endCount
          BY <3>3 DEF CompleteSession, Finish
        <4>2. QED
          BY <3>1, <4>1 DEF CountInv, Counted
      <3>4. CASE ~CountTurns(e) /\ ~CompleteSession(e)
        <4>1. UNCHANGED <<endCount, evalQueued>>
          BY <2>3, <3>4 DEF EnderStep, StartEnding, StopWaiting, InlineRecover, CancelSession,
                            FailSession, GiveUp, Finish, enderVars
        <4>2. QED
          BY <3>1, <4>1 DEF CountInv, Counted
      <3>5. QED
        BY <3>2, <3>3, <3>4
    <2>4. CASE \/ GenerationAges \/ SessionExpires
               \/ CleanupStaleGenerating \/ CleanupAbandonedSession
      <3>1. messages' = messages /\ HasCandidateMessage' = HasCandidateMessage
        BY <2>4, JobTouchesNoTurn DEF logVars, HasCandidateMessage
      <3>2. UNCHANGED endCount /\ (evalQueued' => evalQueued \/ HasCandidateMessage)
        <4>1. CASE GenerationAges \/ SessionExpires \/ CleanupStaleGenerating
          BY <4>1 DEF GenerationAges, SessionExpires, CleanupStaleGenerating, enderVars
        <4>2. CASE CleanupAbandonedSession
          <5>1. evalQueued' = (evalQueued \/ HasCandidateMessage) /\ UNCHANGED enderVars
            BY <4>2 DEF CleanupAbandonedSession
          <5>2. UNCHANGED endCount
            BY <5>1 DEF enderVars
          <5>3. evalQueued' => evalQueued \/ HasCandidateMessage
            BY <5>1, Zenon
          <5>4. QED
            BY <5>2, <5>3
        <4>3. QED
          BY <2>4, <4>1, <4>2
      <3>3. QED
        BY <3>1, <3>2 DEF CountInv, Counted
    <2>5. CASE UNCHANGED vars
      BY <2>5 DEF vars, CountInv, Counted, HasCandidateMessage
    <2>6. QED
      BY <2>2, <2>3, <2>4, <2>5 DEF Next
  <1>3. QED
    BY <1>1, <1>2, TypedInvariant, LogInvariant, SpeechInvariant, PTL DEF Spec

(***************************************************************************)
(* If turns end within five minutes, an evaluation is only ever queued for *)
(* a session in which the candidate has said something.                    *)
(***************************************************************************)
THEOREM EvaluatedSessionsAnswered == Spec => []EvaluatedMeansAnswered
  <1>1. CountInv => EvaluatedMeansAnswered
    BY DEF CountInv, EvaluatedMeansAnswered
  <1>2. QED
    BY <1>1, CountInvariant, PTL
-----------------------------------------------------------------------------
(***************************************************************************)
(* The refinement.  What a step of the code does to the session as it is   *)
(* seen is a step of Conversation or nothing.                              *)
(***************************************************************************)
Busy == \E t \in Turns : pc[t] \in Running
Said == {[seq |-> m.seq, role |-> m.role] : m \in messages}

\* A step that changes nothing of what is seen.
LEMMA UnseenStutters ==
    ASSUME Busy' = Busy, messages' = messages, status' \notin Ended <=> status \notin Ended
    PROVE  UNCHANGED Seen!vars
  BY DEF Seen!vars, Busy

\* The message inserted is the next of the conversation.
LEMMA InsertSays ==
    ASSUME Typed, LogInv, LockInv, SpeechInv, ~SlowTurns, NEW t \in Turns,
           NEW role \in {"candidate", "interviewer"}, NEW to \in {"streaming", "releasing"},
           \/ pc[t] = "persisting" /\ role = "candidate" /\ to = "streaming"
           \/ pc[t] = "replying" /\ role = "interviewer" /\ to = "releasing",
           Insert(t, role), Goto(t, to), status' = status
    PROVE  Seen!Say(role)
  <1> DEFINE new == [seq |-> seq[t] + 1, role |-> role, turn |-> t]
             heard(m) == [seq |-> m.seq, role |-> m.role]
  <1>1. Busy /\ Busy'
    BY DEF Busy, Running, Goto, Typed, TypeOK
  <1>2. Said' = Said \cup {[seq |-> seq[t] + 1, role |-> role]}
    <2>1. messages' = messages \cup {new} /\ heard(new) = [seq |-> seq[t] + 1, role |-> role]
      BY DEF Insert
    <2> HIDE DEF new
    <2>2. {heard(m) : m \in messages'} = {heard(m) : m \in messages} \cup {heard(new)}
      BY <2>1
    <2>3. QED
      BY <2>1, <2>2 DEF Said
  <1>3. seq[t] \in {0} \cup {m.seq : m \in Said}
    <2>1. seq[t] = 0 \/ \E m \in messages : m.seq = seq[t]
      BY DEF LogInv, SeqIsTaken, Numbered
    <2>2. \A m \in messages : heard(m) \in Said /\ heard(m).seq = m.seq
      BY DEF Said
    <2>3. QED
      BY <2>1, <2>2
  <1>4. \A m \in Said : m.seq <= seq[t] /\ (m.seq = seq[t] => m.role # role)
    <2>1. \A m \in messages : m.seq <= seq[t] /\ (m.seq = seq[t] => m.role # role)
      BY DEF SpeechInv, Knows, LastIs, IsMaxSeq
    <2>2. QED
      BY <2>1 DEF Said
  <1>5. QED
    BY <1>1, <1>2, <1>3, <1>4 DEF Seen!Say, Busy, Said

\* The requests of a session are its turns, one at a time.
LEMMA TurnIsSeen ==
    ASSUME Typed, LogInv, LockInv, SpeechInv, ~SlowTurns, NEW t \in Turns,
           \/ AcquireTurn(t) \/ RefuseTurn(t) \/ TurnStep(t)
           \/ Crash(t) \/ FinishUpload(t) \/ UploadFails(t)
    PROVE  [Seen!Next]_(Seen!vars)
  <1> USE DEF Goto
  <1>1. CASE AcquireTurn(t)
    <2>1. /\ status = "active" /\ status' = "generating" /\ messages' = messages
          /\ pc'[t] \in Running
      BY <1>1 DEF AcquireTurn, logVars, Running, Typed, TypeOK
    <2>2. ~Busy /\ Busy'
      BY <2>1 DEF LockInv, LockHeld, Busy
    <2>3. Seen!BeginTurn
      BY <2>1, <2>2 DEF Seen!BeginTurn, Busy, Ended
    <2>4. QED
      BY <2>3 DEF Seen!Next
  <1>2. CASE Release(t) \/ ReleaseFails(t) \/ Crash(t)
    <2>1. /\ pc[t] \in Running /\ pc'[t] \notin Running /\ messages' = messages
          /\ status' \notin Ended <=> status \notin Ended
          /\ \A u \in Turns \ {t} : pc'[u] = pc[u]
      BY <1>2 DEF Release, ReleaseFails, Crash, logVars, rowVars, Running, Ended, Typed, TypeOK
    <2>2. Busy /\ ~Busy'
      BY <2>1 DEF LockInv, LockHeld, Busy
    <2>3. Seen!EndTurn
      BY <2>1, <2>2 DEF Seen!EndTurn, Busy
    <2>4. QED
      BY <2>3 DEF Seen!Next
  <1>3. CASE PersistCandidate(t)
    BY <1>3, InsertSays DEF PersistCandidate, rowVars, Seen!Next
  <1>4. CASE PersistReply(t)
    BY <1>4, InsertSays DEF PersistReply, rowVars, Seen!Next
  <1>5. CASE \/ LoadTranscript(t) \/ ReadMaxSeq(t) \/ LoadFails(t) \/ Transcribe(t)
             \/ StreamReply(t) \/ PersistFails(t)
    <2>1. pc[t] \in Running /\ pc'[t] \in Running
      <3>1. AfterLoad(t) \subseteq Running
        BY DEF AfterLoad, OpensOrResumes, Running, Inputs, Typed, TypeOK
      <3>2. QED
        BY <1>5, <3>1 DEF LoadTranscript, ReadMaxSeq, LoadFails, Transcribe, StreamReply,
                          PersistFails, Running, Typed, TypeOK
    <2>2. messages' = messages /\ status' = status
      BY <1>5 DEF LoadTranscript, ReadMaxSeq, LoadFails, Transcribe, StreamReply, PersistFails,
                  logVars, rowVars
    <2>3. Busy' = Busy
      BY <2>1 DEF Busy
    <2>4. QED
      BY <2>2, <2>3, UnseenStutters
  <1>6. CASE RefuseTurn(t)
    <2>1. /\ pc[t] \notin Running /\ pc'[t] \notin Running
          /\ \A u \in Turns \ {t} : pc'[u] = pc[u]
          /\ messages' = messages /\ status' = status
      BY <1>6 DEF RefuseTurn, Running, logVars, rowVars, Typed, TypeOK
    <2>2. Busy' = Busy
      BY <2>1 DEF Busy
    <2>3. QED
      BY <2>1, <2>2, UnseenStutters
  <1>7. CASE FinishUpload(t) \/ UploadFails(t)
    BY <1>7, UnseenStutters DEF FinishUpload, UploadFails, rowVars, logVars, Busy
  <1>8. QED
    BY <1>1, <1>2, <1>3, <1>4, <1>5, <1>6, <1>7 DEF TurnStep

\* Whatever ends a session closes it, and nothing else is seen of it.
LEMMA EndingIsSeen ==
    ASSUME \/ \E e \in Enders : StartEnding(e) \/ EnderStep(e)
           \/ GenerationAges \/ SessionExpires
           \/ CleanupStaleGenerating \/ CleanupAbandonedSession
    PROVE  [Seen!Next]_(Seen!vars)
  <1>1. UNCHANGED <<pc, messages>>
    BY EnderTouchesNoTurn, JobTouchesNoTurn DEF turnVars, logVars
  <1>2. Busy' = Busy /\ Said' = Said
    BY <1>1 DEF Busy, Said
  <1>3. status \in Ended => status' \in Ended
    BY DEF EnderStep, StartEnding, StopWaiting, InlineRecover, CountTurns, CompleteSession,
           CancelSession, FailSession, GiveUp, GenerationAges, SessionExpires,
           CleanupStaleGenerating, CleanupAbandonedSession, rowVars, Ended
  <1>4. CASE status \notin Ended /\ status' \in Ended
    BY <1>2, <1>4 DEF Seen!Next, Seen!Close, Busy, Said
  <1>5. CASE ~(status \notin Ended /\ status' \in Ended)
    BY <1>1, <1>2, <1>3, <1>5, UnseenStutters
  <1>6. QED
    BY <1>4, <1>5

(***************************************************************************)
(* If turns end within five minutes, whatever the requests, the calls that *)
(* end the session, the jobs and the crashes do is a Conversation: every   *)
(* step of the code is one of its steps or leaves it as it is.             *)
(***************************************************************************)
THEOREM IsAConversation ==
    ASSUME ~SlowTurns
    PROVE  Spec => ImplementsConversation
  <1>1. Init => Seen!Init
    BY DEF Init, Seen!Init, Running, Ended
  <1>2. Typed /\ LogInv /\ LockInv /\ SpeechInv /\ [Next]_vars => [Seen!Next]_(Seen!vars)
    <2> SUFFICES ASSUME Typed, LogInv, LockInv, SpeechInv, [Next]_vars
                 PROVE  [Seen!Next]_(Seen!vars)
      OBVIOUS
    <2>1. CASE UNCHANGED vars
      BY <2>1, UnseenStutters DEF vars, Busy
    <2>2. CASE Next
      BY <2>2, TurnIsSeen, EndingIsSeen DEF Next
    <2>3. QED
      BY <2>1, <2>2
  <1>3. QED
    BY <1>1, <1>2, TypedInvariant, LogInvariant, LockInvariant, SpeechInvariant, PTL
       DEF Spec, ImplementsConversation, Seen!Spec
=============================================================================
