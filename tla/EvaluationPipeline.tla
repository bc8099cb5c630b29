------------------------- MODULE EvaluationPipeline ------------------------
(***************************************************************************)
(* What becomes of one session once its interview is over: the calls and   *)
(* the periodic job that end it and queue its evaluation, the River job    *)
(* EvaluateSession with its attempts, the ErrorHandler that gives a        *)
(* session up, and RetryEvaluation.                                        *)
(*                                                                         *)
(* River is modelled from how the code uses it: a job is available, runs,  *)
(* and is completed, retryable or discarded; UniqueOpts{ByArgs: true}      *)
(* makes an insert a no-op while a row of these arguments is in a unique   *)
(* state, the default ones, which include completed and not discarded.     *)
(* The ErrorHandler runs before River records the outcome of the attempt.  *)
(* A job whose instance died is rescued much later; the ErrorHandler is    *)
(* not asked then.  Rows of finished jobs are deleted after a day or more, *)
(* which no property here depends on: Clean may take them at once.         *)
(*                                                                         *)
(* The transcript does not grow any more: how far the interview got is     *)
(* fixed in talk.  Bound: Jobs is the number of rows at once.              *)
(***************************************************************************)
EXTENDS Naturals, FiniteSets

CONSTANTS Enders,       \* EndSession and CancelSession calls
          EndKinds,     \* the calls Enders may make
          Retries,      \* RetryEvaluation calls
          Jobs,         \* room for rows of river_job for this session
          MaxAttempts,  \* 4 in EvaluateSessionInsertOpts
          Faults        \* what may go wrong besides an attempt that fails

ASSUME EndKindsAssumption == EndKinds \subseteq {"end", "cancel"}
ASSUME MaxAttemptsAssumption == MaxAttempts \in Nat \ {0}
ASSUME FaultsAssumption == Faults \subseteq {"crash", "commit", "update"}

VARIABLES
    status,     \* the status column of the session
    talk,       \* how far the interview got
    evaluated,  \* the session has its row in evaluations
    jobState,   \* state column of each job row
    attempt,    \* attempt column of each job row
    work,       \* where the execution of the job is
    endPc,      \* EndSession and CancelSession calls
    retryPc     \* RetryEvaluation calls

jobVars == <<jobState, attempt, work>>
vars == <<status, talk, evaluated, jobState, attempt, work, endPc, retryPc>>

Statuses == {"active", "completed", "cancelled",
             "evaluating", "reviewed", "evaluation_failed"}

\* Nothing at all; no candidate message; candidate messages but at most one
\* interviewer turn; more than one interviewer turn.
Talks == {"empty", "opening", "short", "full"}

Queued      == {"available", "retryable"}
Unfinished  == Queued \cup {"running"}
UniqueState == Unfinished \cup {"completed"}
JobStates   == {"unused", "discarded"} \cup UniqueState
Executing   == {"checking", "loading", "judging", "succeeded", "failed", "handled"}

Init ==
    /\ status = "active" /\ talk \in Talks /\ evaluated = FALSE
    /\ jobState = [j \in Jobs |-> "unused"]
    /\ attempt = [j \in Jobs |-> 0]
    /\ work = [j \in Jobs |-> "none"]
    /\ endPc = [e \in Enders |-> "idle"]
    /\ retryPc = [r \in Retries |-> "idle"]
-----------------------------------------------------------------------------
UniqueHeld == \E j \in Jobs : jobState[j] \in UniqueState

\* Mutant: InsertTx without UniqueOpts.
EnqueueAlways ==
    \E j \in Jobs : /\ jobState[j] = "unused"
                    /\ jobState' = [jobState EXCEPT ![j] = "available"]

\* InsertTx with EvaluateSessionInsertOpts: a duplicate is silently skipped.
Enqueue ==
    \/ UniqueHeld /\ jobState' = jobState
    \/ ~UniqueHeld /\ \E j \in Jobs :
           /\ jobState[j] = "unused"
           /\ jobState' = [jobState EXCEPT ![j] = "available"]

\* CompleteSession: evaluation only if turnCount > 1.
CompleteSession(e) ==
    /\ endPc[e] = "idle" /\ "end" \in EndKinds
    /\ status' = "completed"
    /\ IF talk = "full" THEN Enqueue ELSE jobState' = jobState
    /\ endPc' = [endPc EXCEPT ![e] = "ended"]
    /\ UNCHANGED <<talk, evaluated, attempt, work, retryPc>>

CancelSession(e) ==
    /\ endPc[e] = "idle" /\ "cancel" \in EndKinds
    /\ status' = "cancelled"
    /\ endPc' = [endPc EXCEPT ![e] = "ended"]
    /\ UNCHANGED <<talk, evaluated, jobVars, retryPc>>

\* CleanupAbandonedSessionsWorker, for a session past its deadline.
CleanupAbandonedSession ==
    /\ status = "active"
    /\ IF talk \in {"short", "full"}
         THEN status' = "completed" /\ Enqueue
         ELSE status' = "cancelled" /\ jobState' = jobState
    /\ UNCHANGED <<talk, evaluated, attempt, work, endPc, retryPc>>

\* RetryEvaluation reads the status ...
CheckRetry(r) ==
    /\ retryPc[r] = "idle"
    /\ retryPc' = [retryPc EXCEPT ![r] =
                      IF status = "evaluation_failed" THEN "checked" ELSE "refused"]
    /\ UNCHANGED <<status, talk, evaluated, jobVars, endPc>>

\* ... and then, in a transaction that does not look at it again:
CommitRetry(r) ==
    /\ retryPc[r] = "checked"
    /\ status' = "evaluating"
    /\ Enqueue
    /\ retryPc' = [retryPc EXCEPT ![r] = "queued"]
    /\ UNCHANGED <<talk, evaluated, attempt, work, endPc>>
-----------------------------------------------------------------------------
(***************************************************************************)
(* EvaluateSessionWorker                                                   *)
(***************************************************************************)
Step(j, to) == work' = [work EXCEPT ![j] = to]

StartAttempt(j) ==
    /\ jobState[j] \in Queued
    /\ jobState' = [jobState EXCEPT ![j] = "running"]
    /\ attempt' = [attempt EXCEPT ![j] = @ + 1]
    /\ Step(j, "checking")
    /\ UNCHANGED <<status, talk, evaluated, endPc, retryPc>>

\* Mutant: no idempotency check.
CheckNothing(j) ==
    /\ work[j] = "checking"
    /\ Step(j, "loading")
    /\ UNCHANGED <<status, talk, evaluated, jobState, attempt, endPc, retryPc>>

\* Step 1: if the evaluation exists already the job has succeeded.
CheckEvaluation(j) ==
    /\ work[j] = "checking"
    /\ Step(j, IF evaluated THEN "succeeded" ELSE "loading")
    /\ UNCHANGED <<status, talk, evaluated, jobState, attempt, endPc, retryPc>>

\* Steps 2 to 5: load the transcript, then set the status whatever it is.
SetEvaluating(j) ==
    /\ work[j] = "loading"
    /\ status' = IF talk = "empty" THEN "evaluation_failed" ELSE "evaluating"
    /\ Step(j, IF talk = "empty" THEN "succeeded" ELSE "judging")
    /\ UNCHANGED <<talk, evaluated, jobState, attempt, endPc, retryPc>>

\* Steps 7 to 13: one transaction around the LLM call.  evaluations.session_id
\* is UNIQUE.  The answer to a commit may be lost.
CommitEvaluation(j) ==
    /\ work[j] = "judging"
    /\ ~evaluated
    /\ evaluated' = TRUE
    /\ status' = "reviewed"
    /\ \/ Step(j, "succeeded")
       \/ "commit" \in Faults /\ Step(j, "failed")
    /\ UNCHANGED <<talk, jobState, attempt, endPc, retryPc>>

\* Any statement, the LLM, the parser or the validator fails, or 10 minutes pass.
WorkFails(j) ==
    /\ work[j] \in {"checking", "loading", "judging"}
    /\ Step(j, "failed")
    /\ UNCHANGED <<status, talk, evaluated, jobState, attempt, endPc, retryPc>>

\* Mutant: off by one.
PastLastAttempt(j) == attempt[j] > MaxAttempts

LastAttempt(j) == attempt[j] >= MaxAttempts

\* Mutants: HandleError on every attempt; not for evaluate_session.
HandleEveryError(j) ==
    /\ work[j] = "failed"
    /\ status' = "evaluation_failed"
    /\ Step(j, "handled")
    /\ UNCHANGED <<talk, evaluated, jobState, attempt, endPc, retryPc>>
HandleNoError(j) ==
    /\ work[j] = "failed"
    /\ Step(j, "handled")
    /\ UNCHANGED <<status, talk, evaluated, jobState, attempt, endPc, retryPc>>

\* ErrorHandler.HandleError; an UPDATE that fails is only logged.
HandleError(j) ==
    /\ work[j] = "failed"
    /\ \/ LastAttempt(j) /\ status' = "evaluation_failed"
       \/ (~LastAttempt(j) \/ "update" \in Faults) /\ status' = status
    /\ Step(j, "handled")
    /\ UNCHANGED <<talk, evaluated, jobState, attempt, endPc, retryPc>>

Finish(j, to) ==
    /\ jobState' = [jobState EXCEPT ![j] = to]
    /\ Step(j, "none")
    /\ UNCHANGED <<status, talk, evaluated, attempt, endPc, retryPc>>

\* River records what became of the attempt.
Complete(j) == work[j] = "succeeded" /\ Finish(j, "completed")
Reschedule(j) == work[j] = "handled" /\ ~LastAttempt(j) /\ Finish(j, "retryable")
Discard(j) == work[j] = "handled" /\ LastAttempt(j) /\ Finish(j, "discarded")

\* The instance dies; River rescues the job when it has been running too long.
Crash(j) ==
    /\ "crash" \in Faults /\ work[j] \in Executing
    /\ Step(j, "dead")
    /\ UNCHANGED <<status, talk, evaluated, jobState, attempt, endPc, retryPc>>

Rescue(j) ==
    /\ work[j] = "dead"
    /\ Finish(j, IF LastAttempt(j) THEN "discarded" ELSE "retryable")

\* Some time after a job is over River deletes its row.
Clean(j) ==
    /\ jobState[j] \in {"completed", "discarded"}
    /\ jobState' = [jobState EXCEPT ![j] = "unused"]
    /\ attempt' = [attempt EXCEPT ![j] = 0]
    /\ UNCHANGED <<status, talk, evaluated, work, endPc, retryPc>>
-----------------------------------------------------------------------------
JobStep(j) ==
    \/ StartAttempt(j) \/ CheckEvaluation(j) \/ SetEvaluating(j)
    \/ CommitEvaluation(j) \/ WorkFails(j) \/ HandleError(j)
    \/ Complete(j) \/ Reschedule(j) \/ Discard(j) \/ Rescue(j)

Next ==
    \/ \E e \in Enders : CompleteSession(e) \/ CancelSession(e)
    \/ \E r \in Retries : CheckRetry(r) \/ CommitRetry(r)
    \/ \E j \in Jobs : JobStep(j) \/ Crash(j) \/ Clean(j)
    \/ CleanupAbandonedSession

Spec == Init /\ [][Next]_vars

(***************************************************************************)
(* River works its queue, retries and rescues.  Users do what they like.   *)
(***************************************************************************)
FairSpec == Spec /\ \A j \in Jobs : WF_vars(JobStep(j))
-----------------------------------------------------------------------------
TypeOK ==
    /\ status \in Statuses /\ talk \in Talks /\ evaluated \in BOOLEAN
    /\ jobState \in [Jobs -> JobStates]
    /\ attempt \in [Jobs -> 0..MaxAttempts]
    /\ work \in [Jobs -> Executing \cup {"none", "dead"}]
    /\ endPc \in [Enders -> {"idle", "ended"}]
    /\ retryPc \in [Retries -> {"idle", "checked", "refused", "queued"}]

(***************************************************************************)
(* At most one evaluation of the session runs at a time, so the evaluator  *)
(* LLM is never paid twice side by side, however often the session is      *)
(* ended, swept and retried (EvaluateSessionInsertOpts).                   *)
(***************************************************************************)
OneEvaluator ==
    \A i, j \in Jobs : work[i] \in Executing /\ work[j] \in Executing => i = j

(***************************************************************************)
(* Once the evaluation is stored no attempt judges the session again: not  *)
(* the retry of an attempt that died after its commit, nor a second job.   *)
(***************************************************************************)
NeverJudgedAgain == \A j \in Jobs : work[j] = "judging" => ~evaluated

(***************************************************************************)
(* A session that shows evaluation_failed with no execution under way can  *)
(* be retried: no job row blocks the insert of RetryEvaluation, and no job *)
(* is still going to contradict the status shown.                          *)
(***************************************************************************)
FailedCanBeRetried ==
    status = "evaluation_failed" /\ (\A j \in Jobs : work[j] = "none") => ~UniqueHeld

(***************************************************************************)
(* A session does not stay 'evaluating' for ever ("Retries exhausted ->    *)
(* status to evaluation_failed"; "safe to call retry endpoints").          *)
(***************************************************************************)
EvaluatingEnds == (status = "evaluating") ~> (status # "evaluating")

(***************************************************************************)
(* "The evaluation job is created in the same transaction as the update    *)
(* to completed, no orphaned jobs": a completed session with something to  *)
(* evaluate has a job that is going to evaluate it.                        *)
(***************************************************************************)
CompletedHasJob ==
    status = "completed" /\ talk = "full" => \E j \in Jobs : jobState[j] \in Unfinished
=============================================================================
