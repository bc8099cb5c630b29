---------------------- MODULE EvaluationPipeline_proofs ---------------------
(***************************************************************************)
(* Proofs about EvaluationPipeline, for any number of job rows, calls and  *)
(* attempts, with instances that die, commits whose answer is lost and     *)
(* status updates of the ErrorHandler that fail.                           *)
(***************************************************************************)
EXTENDS EvaluationPipeline, TLAPS

(***************************************************************************)
(* The inductive invariant.  Only one row can block an insert; whatever is *)
(* executed is a running row, hence that one; it found no evaluation, and  *)
(* only it can store one; and a session is given up only in the window     *)
(* between the ErrorHandler and River's own record of a last attempt.      *)
(***************************************************************************)
OneUniqueRow ==
    \A i, j \in Jobs :
        jobState[i] \in UniqueState /\ jobState[j] \in UniqueState => i = j

WorkIsRunning == \A j \in Jobs : work[j] # "none" => jobState[j] = "running"

NothingJudgedYet == \A j \in Jobs : work[j] \in {"loading", "judging"} => ~evaluated

\* Nothing was said, so no job, no failure and no retry.
HadInterview ==
    talk \notin {"short", "full"} =>
        /\ \A j \in Jobs : jobState[j] = "unused"
        /\ status # "evaluation_failed"
        /\ \A r \in Retries : retryPc[r] # "checked"

GivenUp ==
    status = "evaluation_failed" =>
        \A j \in Jobs : jobState[j] \in UniqueState =>
            work[j] \in {"handled", "dead"} /\ LastAttempt(j)

IInv == /\ OneUniqueRow /\ WorkIsRunning /\ NothingJudgedYet
        /\ HadInterview /\ GivenUp

Typed ==
    /\ status \in Statuses
    /\ jobState \in [Jobs -> JobStates]
    /\ attempt \in [Jobs -> Nat]
    /\ work \in [Jobs -> Executing \cup {"none", "dead"}]
    /\ retryPc \in [Retries -> {"idle", "checked", "refused", "queued"}]

LEMMA TypedInvariant == Spec => []Typed
  <1> USE DEF Typed, Statuses, JobStates, UniqueState, Unfinished, Queued, Executing
  <1>1. Init => Typed
    BY DEF Init
  <1>2. Typed /\ [Next]_vars => Typed'
    <2> SUFFICES ASSUME Typed, [Next]_vars PROVE Typed'
      OBVIOUS
    <2>1. CASE UNCHANGED vars
      BY <2>1 DEF vars
    <2>2. CASE \E e \in Enders : CompleteSession(e) \/ CancelSession(e)
      BY <2>2 DEF CompleteSession, CancelSession, Enqueue, jobVars
    <2>3. CASE \E r \in Retries : CheckRetry(r) \/ CommitRetry(r)
      BY <2>3 DEF CheckRetry, CommitRetry, Enqueue, jobVars
    <2>4. CASE \E j \in Jobs : JobStep(j) \/ Crash(j) \/ Clean(j)
      BY <2>4 DEF Clean, JobStep, StartAttempt, CheckEvaluation, SetEvaluating,
            CommitEvaluation, WorkFails, HandleError, Complete, Reschedule,
            Discard, Rescue, Crash, Finish, Step
    <2>5. CASE CleanupAbandonedSession
      BY <2>5 DEF CleanupAbandonedSession, Enqueue
    <2>6. QED
      BY <2>1, <2>2, <2>3, <2>4, <2>5 DEF Next
  <1>3. QED
    BY <1>1, <1>2, PTL DEF Spec

\* An insert keeps the rows' invariants: it adds a row only if none blocks it.
LEMMA EnqueueKeeps ==
    ASSUME Typed, OneUniqueRow, WorkIsRunning, Enqueue, work' = work
    PROVE  OneUniqueRow' /\ WorkIsRunning'
  <1>1. CASE jobState' = jobState
    BY <1>1 DEF OneUniqueRow, WorkIsRunning
  <1>2. CASE ~UniqueHeld
    <2>1. PICK j \in Jobs : /\ jobState[j] = "unused"
                            /\ jobState' = [jobState EXCEPT ![j] = "available"]
      BY <1>2 DEF Enqueue
    <2>2. \A i \in Jobs : i # j => jobState'[i] = jobState[i]
      BY <2>1 DEF Typed
    <2>3. \A i \in Jobs : jobState[i] \notin UniqueState
      BY <1>2 DEF UniqueHeld
    <2>4. work[j] = "none"
      BY <2>1 DEF WorkIsRunning
    <2>5. QED
      BY <2>1, <2>2, <2>3, <2>4 DEF OneUniqueRow, WorkIsRunning, Typed
  <1>3. QED
    BY <1>1, <1>2 DEF Enqueue

LEMMA CallsKeep ==
    ASSUME Typed, IInv,
           \/ \E e \in Enders : CompleteSession(e) \/ CancelSession(e)
           \/ CleanupAbandonedSession
           \/ \E r \in Retries : CommitRetry(r)
    PROVE  IInv'
  <1>1. work' = work /\ evaluated' = evaluated /\ talk' = talk
    BY DEF CompleteSession, CancelSession, CleanupAbandonedSession, CommitRetry, jobVars
  <1>2. status' # "evaluation_failed"
    BY DEF CompleteSession, CancelSession, CleanupAbandonedSession, CommitRetry
  <1>3. jobState' = jobState \/ (Enqueue /\ talk \in {"short", "full"})
    BY DEF CompleteSession, CancelSession, CleanupAbandonedSession, CommitRetry,
           jobVars, IInv, HadInterview
  <1>4. OneUniqueRow' /\ WorkIsRunning'
    BY <1>1, <1>3, EnqueueKeeps DEF IInv, OneUniqueRow, WorkIsRunning
  <1>5. \A r \in Retries : retryPc'[r] = "checked" => retryPc[r] = "checked"
    BY DEF CompleteSession, CancelSession, CleanupAbandonedSession, CommitRetry, Typed
  <1>6. HadInterview'
    BY <1>1, <1>2, <1>3, <1>5 DEF IInv, HadInterview
  <1>7. QED
    BY <1>1, <1>2, <1>4, <1>6 DEF IInv, NothingJudgedYet, GivenUp

LEMMA CheckRetryKeeps ==
    ASSUME Typed, IInv, NEW r \in Retries, CheckRetry(r)
    PROVE  IInv'
  <1>1. UNCHANGED <<status, talk, evaluated, jobState, attempt, work>>
    BY DEF CheckRetry, jobVars
  <1>2. \A q \in Retries : retryPc'[q] = "checked" =>
            retryPc[q] = "checked" \/ status = "evaluation_failed"
    BY DEF CheckRetry, Typed
  <1>3. HadInterview'
    BY <1>1, <1>2 DEF IInv, HadInterview
  <1>4. QED
    BY <1>1, <1>3 DEF IInv, OneUniqueRow, WorkIsRunning, NothingJudgedYet,
                      GivenUp, LastAttempt

\* A row that is unique now was unique before, and the execution of j is j's.
LEMMA JobKeeps ==
    ASSUME Typed, IInv, NEW j \in Jobs, JobStep(j) \/ Crash(j)
    PROVE  IInv'
  <1> USE DEF Typed, JobStates, UniqueState, Unfinished, Queued, Executing
  <1> USE DEF JobStep, StartAttempt, CheckEvaluation, SetEvaluating,
            CommitEvaluation, WorkFails, HandleError, Complete, Reschedule,
            Discard, Rescue, Crash, Finish, Step
  <1>1. \A i \in Jobs : i # j => /\ jobState'[i] = jobState[i] /\ work'[i] = work[i]
                                 /\ attempt'[i] = attempt[i]
    OBVIOUS
  <1>2. jobState[j] \in UniqueState
    BY DEF IInv, WorkIsRunning
  <1>3. \A i \in Jobs : i # j => jobState[i] \notin UniqueState
    BY <1>2 DEF IInv, OneUniqueRow
  <1>4. talk \in {"short", "full"} /\ talk' = talk
    BY <1>2 DEF IInv, HadInterview
  <1>5. OneUniqueRow'
    BY <1>1, <1>3 DEF OneUniqueRow
  <1>6. WorkIsRunning'
    BY <1>1 DEF IInv, WorkIsRunning
  <1>7. NothingJudgedYet'
    <2>1. \A i \in Jobs : i # j => work'[i] \notin {"loading", "judging"}
      BY <1>1, <1>3 DEF IInv, WorkIsRunning
    <2>2. work'[j] \in {"loading", "judging"} => ~evaluated'
      BY DEF IInv, NothingJudgedYet
    <2>3. QED
      BY <2>1, <2>2 DEF NothingJudgedYet
  <1>8. HadInterview'
    BY <1>4 DEF HadInterview
  <1>9. GivenUp'
    <2>1. \A i \in Jobs : i # j => jobState'[i] \notin UniqueState
      BY <1>1, <1>3
    <2>2. status' = "evaluation_failed" /\ jobState'[j] \in UniqueState =>
              work'[j] \in {"handled", "dead"} /\ LastAttempt(j)'
      BY <1>2, <1>4 DEF IInv, GivenUp, LastAttempt, WorkIsRunning
    <2>3. QED
      BY <2>1, <2>2 DEF GivenUp
  <1>10. QED
    BY <1>5, <1>6, <1>7, <1>8, <1>9 DEF IInv

\* A deleted row was of no account: its job was over.
LEMMA CleanKeeps ==
    ASSUME Typed, IInv, NEW j \in Jobs, Clean(j)
    PROVE  IInv'
  <1>1. /\ UNCHANGED <<status, talk, evaluated, work, retryPc>>
        /\ jobState[j] \in {"completed", "discarded"} /\ jobState'[j] = "unused"
        /\ \A i \in Jobs : i # j => /\ jobState'[i] = jobState[i]
                                   /\ attempt'[i] = attempt[i]
    BY DEF Clean, Typed
  <1>2. \A i \in Jobs : jobState'[i] \in UniqueState => i # j
    BY <1>1 DEF UniqueState, Unfinished, Queued
  <1>3. OneUniqueRow'
    BY <1>1, <1>2 DEF IInv, OneUniqueRow
  <1>4. WorkIsRunning'
    BY <1>1 DEF IInv, WorkIsRunning
  <1>5. HadInterview' /\ NothingJudgedYet'
    BY <1>1, <1>2 DEF IInv, HadInterview, NothingJudgedYet
  <1>6. GivenUp'
    BY <1>1, <1>2 DEF IInv, GivenUp, LastAttempt
  <1>7. QED
    BY <1>3, <1>4, <1>5, <1>6 DEF IInv

LEMMA Invariant == Spec => []IInv
  <1>1. Init => IInv
    BY DEF Init, IInv, OneUniqueRow, WorkIsRunning, NothingJudgedYet, HadInterview,
           GivenUp, UniqueState, Unfinished, Queued
  <1>2. Typed /\ IInv /\ [Next]_vars => IInv'
    <2> SUFFICES ASSUME Typed, IInv, [Next]_vars PROVE IInv'
      OBVIOUS
    <2>1. CASE UNCHANGED vars
      BY <2>1 DEF vars, IInv, OneUniqueRow, WorkIsRunning, NothingJudgedYet,
                  HadInterview, GivenUp, LastAttempt
    <2>2. CASE Next
      BY <2>2, CallsKeep, CheckRetryKeeps, JobKeeps, CleanKeeps DEF Next
    <2>3. QED
      BY <2>1, <2>2
  <1>3. QED
    BY <1>1, <1>2, TypedInvariant, PTL DEF Spec

(***************************************************************************)
(* At most one evaluation of a session is executed at a time.              *)
(***************************************************************************)
THEOREM EvaluatorsExcludeEachOther == Spec => []OneEvaluator
  <1>1. IInv => OneEvaluator
    BY DEF IInv, OneUniqueRow, WorkIsRunning, OneEvaluator, UniqueState, Unfinished, Executing
  <1>2. QED
    BY <1>1, Invariant, PTL

(***************************************************************************)
(* A session that has its evaluation is not judged again.                  *)
(***************************************************************************)
THEOREM JudgedOnce == Spec => []NeverJudgedAgain
  <1>1. IInv => NeverJudgedAgain
    BY DEF IInv, NothingJudgedYet, NeverJudgedAgain
  <1>2. QED
    BY <1>1, Invariant, PTL

(***************************************************************************)
(* A session that shows evaluation_failed, with nothing under way, accepts *)
(* the job that RetryEvaluation inserts.                                   *)
(***************************************************************************)
THEOREM RetryIsAccepted == Spec => []FailedCanBeRetried
  <1>1. IInv => FailedCanBeRetried
    BY DEF IInv, GivenUp, FailedCanBeRetried, UniqueHeld
  <1>2. QED
    BY <1>1, Invariant, PTL
-----------------------------------------------------------------------------
\* A row that waits has attempts left: River discards it after the last.
AttemptsLeft == \A j \in Jobs : jobState[j] \in Queued \cup {"unused"} => attempt[j] < MaxAttempts
AttemptTypes == TypeOK /\ AttemptsLeft

(***************************************************************************)
(* Every variable keeps its type, and no row is attempted more than        *)
(* MaxAttempts times, rescues and retries included.                        *)
(***************************************************************************)
THEOREM TypesAreKept == Spec => []TypeOK
  <1> USE MaxAttemptsAssumption DEF AttemptTypes, AttemptsLeft, TypeOK, Queued
  <1>1. Init => AttemptTypes
    <2> SUFFICES ASSUME Init PROVE AttemptTypes
      OBVIOUS
    <2>1. evaluated \in BOOLEAN
      BY Zenon DEF Init
    <2>2. AttemptsLeft
      BY DEF Init
    <2>3. QED
      BY <2>1, <2>2 DEF Init, Statuses, JobStates, Executing
  <1>2. AttemptTypes /\ WorkIsRunning /\ [Next]_vars => AttemptTypes'
    <2> SUFFICES ASSUME AttemptTypes, WorkIsRunning, [Next]_vars PROVE AttemptTypes'
      OBVIOUS
    <2>1. CASE UNCHANGED vars
      BY <2>1 DEF vars
    <2>2. ASSUME NEW e \in Enders, CompleteSession(e) \/ CancelSession(e) PROVE AttemptTypes'
      BY <2>2 DEF CompleteSession, CancelSession, Enqueue, jobVars, Statuses, JobStates,
                  UniqueState, Unfinished
    <2>3. ASSUME NEW r \in Retries, CheckRetry(r) \/ CommitRetry(r) PROVE AttemptTypes'
      BY <2>3 DEF CheckRetry, CommitRetry, Enqueue, jobVars, Statuses, JobStates,
                  UniqueState, Unfinished
    <2>4. ASSUME NEW j \in Jobs, JobStep(j) \/ Crash(j) \/ Clean(j) PROVE AttemptTypes'
      <3> USE DEF JobStates, UniqueState, Unfinished, Step
      <3>1. CASE StartAttempt(j)
        BY <3>1 DEF StartAttempt, Executing
      <3>2. CASE \/ CheckEvaluation(j) \/ SetEvaluating(j) \/ CommitEvaluation(j)
                 \/ WorkFails(j) \/ HandleError(j) \/ Crash(j)
        BY <3>2 DEF CheckEvaluation, SetEvaluating, CommitEvaluation, WorkFails, HandleError,
                    Crash, Executing, Statuses
      <3>3. CASE Complete(j) \/ Reschedule(j) \/ Discard(j) \/ Rescue(j)
        BY <3>3 DEF Complete, Reschedule, Discard, Rescue, Finish, LastAttempt
      <3>4. CASE Clean(j)
        BY <3>4 DEF Clean
      <3>5. QED
        BY <2>4, <3>1, <3>2, <3>3, <3>4 DEF JobStep
    <2>5. CASE CleanupAbandonedSession
      BY <2>5 DEF CleanupAbandonedSession, Enqueue, Statuses, JobStates, UniqueState, Unfinished
    <2>6. QED
      BY <2>1, <2>2, <2>3, <2>4, <2>5 DEF Next
  <1>3. IInv => WorkIsRunning
    BY DEF IInv
  <1>4. AttemptTypes => TypeOK
    OBVIOUS
  <1>5. QED
    BY <1>1, <1>2, <1>3, <1>4, Invariant, PTL DEF Spec
=============================================================================
