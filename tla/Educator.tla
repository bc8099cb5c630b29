------------------------------ MODULE Educator -----------------------------
(***************************************************************************)
(* Educator content for one user: RequestEducatorAnalysis with its free    *)
(* taste, the River job GenerateEducatorContent, its ErrorHandler, and     *)
(* what GetEducatorAnalysis shows.                                         *)
(*                                                                         *)
(* A request is a goroutine; its statements are actions, only its retry    *)
(* branch has a transaction.  The user's paid balance comes and goes with  *)
(* grants and interviews (MinuteLedger) and is read, never locked.         *)
(*                                                                         *)
(* River as in EvaluationPipeline: a session has at most one row in a      *)
(* unique state (completed is one, discarded is not), so job[s] is that    *)
(* row's state, "none" when there is none.                                 *)
(***************************************************************************)
EXTENDS Naturals, FiniteSets

CONSTANTS Reviews,     \* reviewed sessions of the user
          Requests,     \* RequestEducatorAnalysis calls
          FreeLimit,    \* the plan's FreeEducatorLimit, 1 for free users
          MaxAttempts   \* 5 in GenerateEducatorContentInsertOpts

ASSUME EducatorAssumption == FreeLimit \in Nat /\ MaxAttempts \in Nat \ {0}
ASSUME RequestsAssumption == IsFiniteSet(Requests)

VARIABLES
    paid,       \* paid balance > 0
    used,       \* users.free_full_educators_used
    reviewed,   \* sessions whose status is 'reviewed'
    row,        \* status of the session's educator_analyses row, if any
    job, attempt, work,     \* its river_job row and where its execution is
    pc, subject, access       \* requests: where, for which session, by what right

userVars    == <<paid, used>>
jobVars     == <<job, attempt, work>>
requestVars == <<pc, subject, access>>
educatorVars == <<paid, used, reviewed, row, job, attempt, work, pc, subject, access>>

Rows == {"none", "generating", "completed", "failed"}
Jobs == {"none", "available", "running", "retryable", "completed"}

EducatorInit ==
    /\ paid \in BOOLEAN /\ used = 0 /\ reviewed = Reviews
    /\ row = [s \in Reviews |-> "none"]
    /\ job = [s \in Reviews |-> "none"]
    /\ attempt = [s \in Reviews |-> 0]
    /\ work = [s \in Reviews |-> "none"]
    /\ pc = [r \in Requests |-> "idle"]
    /\ subject \in [Requests -> Reviews]
    /\ access = [r \in Requests |-> "preview"]

\* EducatorAccessLevel
AccessLevel == CASE paid                       -> "full"
                 [] ~paid /\ used < FreeLimit  -> "taste"
                 [] ~paid /\ used >= FreeLimit -> "preview"
\* GetEducatorAnalysis: how much of the content of a completed row is shown.
Shown == IF AccessLevel = "preview" THEN "excerpt" ELSE "all"
-----------------------------------------------------------------------------
\* A pack is bought or a subscription renewed; the last paid minute is spent.
BalanceChanges ==
    /\ paid' = ~paid
    /\ UNCHANGED <<used, reviewed, row, jobVars, requestVars>>

\* EndSession or CancelSession of a session that is over (EvaluationPipeline).
EndedAgain(s) ==
    /\ s \in reviewed
    /\ reviewed' = reviewed \ {s}
    /\ UNCHANGED <<userVars, row, jobVars, requestVars>>
-----------------------------------------------------------------------------
(***************************************************************************)
(* RequestEducatorAnalysis                                                 *)
(***************************************************************************)
Goto(r, to) == pc' = [pc EXCEPT ![r] = to]

\* The status of the session, then Check.
CheckAccess(r) ==
    /\ pc[r] = "idle"
    /\ access' = [access EXCEPT ![r] = AccessLevel]
    /\ Goto(r, IF subject[r] \notin reviewed \/ AccessLevel = "preview" THEN "refused"
               ELSE IF AccessLevel = "taste" THEN "tasting" ELSE "looking")
    /\ UNCHANGED <<userVars, reviewed, row, jobVars, subject>>

\* Mutant: the UPDATE without "AND free_full_educators_used < $2".
ConsumeAnyTaste(r) ==
    /\ pc[r] = "tasting"
    /\ used' = used + 1 /\ Goto(r, "looking")
    /\ UNCHANGED <<paid, reviewed, row, jobVars, subject, access>>

\* IncrementFreeEducatorUsed; no row returned is an error.
ConsumeTaste(r) ==
    /\ pc[r] = "tasting"
    /\ IF used < FreeLimit THEN used' = used + 1 /\ Goto(r, "looking")
                           ELSE used' = used /\ Goto(r, "errored")
    /\ UNCHANGED <<paid, reviewed, row, jobVars, subject, access>>

\* GetEducatorAnalysisBySession
LookUp(r) ==
    /\ pc[r] = "looking"
    /\ Goto(r, CASE row[subject[r]] = "none"       -> "inserting"
                 [] row[subject[r]] = "failed"     -> "retrying"
                 [] row[subject[r]] = "generating" -> "accepted"
                 [] row[subject[r]] = "completed"  -> "exists")
    /\ UNCHANGED <<userVars, reviewed, row, jobVars, subject, access>>

\* GenerateEducatorContentInsertOpts: a duplicate is silently skipped.
Enqueue(s) == IF job[s] = "none"
                THEN /\ job' = [job EXCEPT ![s] = "available"]
                     /\ attempt' = [attempt EXCEPT ![s] = 0]
                     /\ work' = [work EXCEPT ![s] = "none"]
                ELSE UNCHANGED jobVars

InsertJob(r) ==
    /\ pc[r] = "inserting"
    /\ Enqueue(subject[r]) /\ Goto(r, "accepted")
    /\ UNCHANGED <<userVars, reviewed, row, subject, access>>

\* The transaction does not look at the status of the row again.
CommitRetry(r) ==
    /\ pc[r] = "retrying"
    /\ row' = [row EXCEPT ![subject[r]] = "generating"]
    /\ Enqueue(subject[r]) /\ Goto(r, "accepted")
    /\ UNCHANGED <<userVars, reviewed, subject, access>>

\* A statement fails, the client hangs up, or the instance dies.
RequestFails(r) ==
    /\ pc[r] \in {"tasting", "looking", "inserting", "retrying"}
    /\ Goto(r, "errored")
    /\ UNCHANGED <<userVars, reviewed, row, jobVars, subject, access>>
-----------------------------------------------------------------------------
(***************************************************************************)
(* GenerateEducatorContentWorker                                           *)
(***************************************************************************)
Step(s, from, to) == work[s] = from /\ work' = [work EXCEPT ![s] = to]

StartAttempt(s) ==
    /\ job[s] \in {"available", "retryable"}
    /\ job' = [job EXCEPT ![s] = "running"]
    /\ attempt' = [attempt EXCEPT ![s] = @ + 1]
    /\ work' = [work EXCEPT ![s] = "checking"]
    /\ UNCHANGED <<userVars, reviewed, row, requestVars>>

\* Mutant: a row is a row, whatever its status.
CheckNothing(s) ==
    /\ Step(s, "checking", "loading")
    /\ UNCHANGED <<userVars, reviewed, row, job, attempt, requestVars>>

\* Step 1, the idempotency check.
CheckExisting(s) ==
    /\ Step(s, "checking",
            IF row[s] \in {"completed", "failed"} THEN "succeeded" ELSE "loading")
    /\ UNCHANGED <<userVars, reviewed, row, job, attempt, requestVars>>

\* Steps 2 to 4: the session, its data, and the row that says "generating".
Load(s) ==
    /\ Step(s, "loading", IF s \in reviewed THEN "generating" ELSE "succeeded")
    /\ row' = IF s \in reviewed /\ row[s] = "none"
                THEN [row EXCEPT ![s] = "generating"] ELSE row
    /\ UNCHANGED <<userVars, reviewed, job, attempt, requestVars>>

\* Steps 6 to 10, and a commit whose answer is lost.
Generate(s) ==
    /\ \E next \in {"succeeded", "failed"} : Step(s, "generating", next)
    /\ row' = [row EXCEPT ![s] = "completed"]
    /\ UNCHANGED <<userVars, reviewed, job, attempt, requestVars>>

WorkFails(s) ==
    /\ work[s] \in {"checking", "loading", "generating"}
    /\ work' = [work EXCEPT ![s] = "failed"]
    /\ UNCHANGED <<userVars, reviewed, row, job, attempt, requestVars>>

\* Mutant: HandleError's "Attempt < MaxAttempts" with <=.
PastLastAttempt(s) == attempt[s] > MaxAttempts

\* HandleError returns early while Attempt < MaxAttempts.
LastAttempt(s) == attempt[s] >= MaxAttempts

\* ErrorHandler.HandleError; the UPDATE it tries may fail.
HandleError(s) ==
    /\ Step(s, "failed", "handled")
    /\ \/ LastAttempt(s) /\ row[s] # "none" /\ row' = [row EXCEPT ![s] = "failed"]
       \/ row' = row
    /\ UNCHANGED <<userVars, reviewed, job, attempt, requestVars>>

\* What River makes of the attempt; a discarded row leaves the slot free.
FinishJob(s) ==
    /\ \/ Step(s, "succeeded", "none") /\ job' = [job EXCEPT ![s] = "completed"]
       \/ /\ Step(s, "handled", "none")
          /\ job' = [job EXCEPT ![s] = IF LastAttempt(s) THEN "none" ELSE "retryable"]
    /\ UNCHANGED <<userVars, reviewed, row, attempt, requestVars>>

Crash(s) ==
    /\ job[s] = "running" /\ work[s] # "dead"
    /\ work' = [work EXCEPT ![s] = "dead"]
    /\ UNCHANGED <<userVars, reviewed, row, job, attempt, requestVars>>

\* The JobRescuer, an hour later: no ErrorHandler.
Rescue(s) ==
    /\ Step(s, "dead", "none")
    /\ job' = [job EXCEPT ![s] = IF LastAttempt(s) THEN "none" ELSE "retryable"]
    /\ UNCHANGED <<userVars, reviewed, row, attempt, requestVars>>

\* The JobCleaner, a day later.
Clean(s) ==
    /\ job[s] = "completed"
    /\ job' = [job EXCEPT ![s] = "none"]
    /\ UNCHANGED <<userVars, reviewed, row, attempt, work, requestVars>>
-----------------------------------------------------------------------------
JobStep(s) ==
    \/ StartAttempt(s) \/ CheckExisting(s) \/ Load(s) \/ Generate(s) \/ WorkFails(s)
    \/ HandleError(s) \/ FinishJob(s) \/ Crash(s) \/ Rescue(s) \/ Clean(s)

RequestStep(r) ==
    \/ CheckAccess(r) \/ ConsumeTaste(r) \/ LookUp(r)
    \/ InsertJob(r) \/ CommitRetry(r) \/ RequestFails(r)

EducatorNext ==
    \/ BalanceChanges
    \/ \E s \in Reviews : EndedAgain(s) \/ JobStep(s)
    \/ \E r \in Requests : RequestStep(r)

EducatorSpec == EducatorInit /\ [][EducatorNext]_educatorVars
-----------------------------------------------------------------------------
EducatorTypeOK ==
    /\ paid \in BOOLEAN /\ used \in 0..FreeLimit /\ reviewed \subseteq Reviews
    /\ row \in [Reviews -> Rows] /\ job \in [Reviews -> Jobs]
    /\ attempt \in [Reviews -> 0..MaxAttempts]
    /\ work \in [Reviews -> {"none", "checking", "loading", "generating", "succeeded",
                              "failed", "handled", "dead"}]
    /\ pc \in [Requests -> {"idle", "tasting", "looking", "inserting", "retrying",
                            "refused", "errored", "accepted", "exists"}]
    /\ subject \in [Requests -> Reviews]
    /\ access \in [Requests -> {"preview", "taste", "full"}]

\* The requests that went on after consuming a taste.
Tasting == {r \in Requests : access[r] = "taste"
                /\ pc[r] \in {"looking", "inserting", "retrying", "accepted", "exists"}}

(***************************************************************************)
(* However many requests read that the taste is still free, no more get    *)
(* content for nothing than the plan gives away ("The atomic increment     *)
(* ensures concurrent requests don't double-consume").                     *)
(***************************************************************************)
TastesBounded == Cardinality(Tasting) <= FreeLimit

(***************************************************************************)
(* The LLM is asked only while the content is announced as being generated *)
(* - not for content the user can read, not for a session shown as failed  *)
(* - whatever requests, retries, attempts and lost answers cross (the      *)
(* idempotency check of the worker).                                       *)
(***************************************************************************)
NeverGeneratedOver == \A s \in Reviews : work[s] = "generating" => row[s] = "generating"

(***************************************************************************)
(* A taste is one full analysis: the user who spent it sees all of the     *)
(* content it bought (the comment in GetEducatorAnalysis).                 *)
(***************************************************************************)
TasteShowsAll ==
    \A r \in Requests :
        pc[r] = "accepted" /\ access[r] = "taste" /\ row[subject[r]] = "completed"
            => Shown = "all"
=============================================================================
