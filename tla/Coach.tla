-------------------------------- MODULE Coach -------------------------------
(***************************************************************************)
(* The coach of one user: RequestCoachAnalysis, the River job              *)
(* RunCoachAnalysis and GetLatestCoachAnalysis.                            *)
(*                                                                         *)
(* A request is a goroutine without a transaction; its statements are      *)
(* actions.  A user has at most one river_job row of this kind in a unique *)
(* state, completed included; coachJob is the state of that row, "none"    *)
(* when there is none (a discarded row leaves the slot free).  The worker  *)
(* writes everything in the transaction that is open while the LLM works.  *)
(***************************************************************************)
EXTENDS Naturals, Sequences, FiniteSets

CONSTANTS Interviews,       \* sessions of the user, 1..n in the order of created_at
          Asks,             \* RequestCoachAnalysis calls
          CoachAttempts,    \* 3 in RunCoachAnalysisInsertOpts
          MaxAnalyses       \* bound of the model

ASSUME CoachAssumption == CoachAttempts \in Nat \ {0} /\ MaxAnalyses \in Nat

VARIABLES
    judged,         \* sessions that are reviewed and not archived
    withdrawn,      \* sessions that were and are not any more
    analyses,       \* coach_analyses: [sessions, question]
    coachQuestions, \* questions with source coach_generated, by number
    imageJobs,      \* coach questions whose image has been queued
    coachJob, coachTry, coachWork,  \* the job row and where its execution is
    material,       \* the sessions that the execution has read
    ask,            \* where each request is
    known,          \* the sessions a request has read
    hope            \* what an accepted request may count on

factVars     == <<judged, withdrawn>>
resultVars   == <<analyses, coachQuestions, imageJobs>>
coachJobVars == <<coachJob, coachTry, coachWork, material>>
askVars      == <<ask, known, hope>>
coachVars    == <<factVars, resultVars, coachJobVars, askVars>>

CoachInit ==
    /\ judged = {} /\ withdrawn = {}
    /\ analyses = <<>> /\ coachQuestions = {} /\ imageJobs = {}
    /\ coachJob = "none" /\ coachTry = 0 /\ coachWork = "none" /\ material = {}
    /\ ask = [r \in Asks |-> "idle"]
    /\ known = [r \in Asks |-> {}] /\ hope = [r \in Asks |-> {}]
-----------------------------------------------------------------------------
\* EvaluateSession succeeds (EvaluationPipeline); the session is archived or
\* ended again.
Reviewed(s) ==
    /\ s \notin judged \cup withdrawn /\ judged' = judged \cup {s}
    /\ UNCHANGED <<withdrawn, resultVars, coachJobVars, askVars>>
Withdraw(s) ==
    /\ s \in judged /\ judged' = judged \ {s} /\ withdrawn' = withdrawn \cup {s}
    /\ UNCHANGED <<resultVars, coachJobVars, askVars>>

\* GetReviewedSessionIDsForUser, and GetReviewedSessionsForUser of the worker.
ReviewedSessionIDs == judged

\* GetLatestCoachAnalysis
HasAnalysis == analyses # <<>>
LatestAnalysis == analyses[Len(analyses)]

\* GetCoachAnalysis: no analysis is an empty answer, and no question is left out.
CoachResponseToProto(a) == [sessions |-> a.sessions, suggested |-> {a.question} \ {0}]
GetCoachAnalysis(paying) ==
    IF ~paying THEN "failed_precondition"
    ELSE IF HasAnalysis THEN CoachResponseToProto(LatestAnalysis) ELSE "none yet"
-----------------------------------------------------------------------------
(***************************************************************************)
(* RequestCoachAnalysis                                                    *)
(***************************************************************************)
AskGoes(r, from, to) == ask[r] = from /\ ask' = [ask EXCEPT ![r] = to]

\* Check: without a paid balance (MinuteLedger) there is no coach.
BeginAsk(r, paying, force) ==
    /\ AskGoes(r, "idle", IF ~paying THEN "failed_precondition"
                          ELSE IF force THEN "inserting" ELSE "reading")
    /\ UNCHANGED <<factVars, resultVars, coachJobVars, known, hope>>

ReadReviewedIDs(r) ==
    /\ AskGoes(r, "reading", "comparing")
    /\ known' = [known EXCEPT ![r] = ReviewedSessionIDs]
    /\ UNCHANGED <<factVars, resultVars, coachJobVars, hope>>

\* uuidSlicesEqual: both lists are in the order of created_at.
SameSessions(a, b) == a = b

\* ErrNoNewSessions is a success to the client.
CompareWithLatest(r) ==
    /\ AskGoes(r, "comparing",
               IF HasAnalysis /\ SameSessions(known[r], LatestAnalysis.sessions)
                 THEN "uptodate" ELSE "inserting")
    /\ known' = [known EXCEPT ![r] = {}]
    /\ UNCHANGED <<factVars, resultVars, coachJobVars, hope>>

\* RunCoachAnalysisInsertOpts: a duplicate is skipped, and not reported.  A
\* row that has not begun will read all that is reviewed now.
InsertCoachJob(r) ==
    /\ AskGoes(r, "inserting", "accepted")
    /\ coachJob' = IF coachJob = "none" THEN "available" ELSE coachJob
    /\ coachTry' = IF coachJob = "none" THEN 0 ELSE coachTry
    /\ hope' = [hope EXCEPT ![r] = IF coachJob \in {"none", "available", "retryable"}
                                     THEN ReviewedSessionIDs ELSE {}]
    /\ UNCHANGED <<factVars, resultVars, coachWork, material, known>>

AskFails(r) ==
    /\ ask[r] \in {"reading", "comparing", "inserting"}
    /\ ask' = [ask EXCEPT ![r] = "internal"]
    /\ UNCHANGED <<factVars, resultVars, coachJobVars, known, hope>>
-----------------------------------------------------------------------------
(***************************************************************************)
(* RunCoachAnalysisWorker                                                  *)
(***************************************************************************)
CoachGoes(from, to) == coachWork = from /\ coachWork' = to

StartCoach ==
    /\ coachJob \in {"available", "retryable"} /\ coachJob' = "running"
    /\ coachTry' = coachTry + 1 /\ CoachGoes("none", "loading")
    /\ UNCHANGED <<factVars, resultVars, material, askVars>>

\* Steps 1 to 6: nothing reviewed is nothing to do.
LoadMaterial ==
    /\ CoachGoes("loading", IF ReviewedSessionIDs = {} THEN "succeeded" ELSE "calling")
    /\ material' = ReviewedSessionIDs
    /\ UNCHANGED <<factVars, resultVars, coachJob, coachTry, askVars>>

\* What the LLM can submit: the schema requires the narrative only, and that
\* is a wish.  "empty" is a question with a title and no prompt.
Proposals ==
    [narrative : BOOLEAN, question : {"null", "untitled", "empty", "medium", "hard", "easy"}]

\* Parse: a question without a title is none.
ParseAnalysis(p) ==
    IF ~p.narrative \/ p.question \in {"empty", "easy"} THEN "error"
    ELSE IF p.question \in {"null", "untitled"} THEN "alone" ELSE "with question"

\* InsertCoachAnalysis
InsertAnalysis(question) ==
    /\ Len(analyses) < MaxAnalyses
    /\ analyses' = Append(analyses, [sessions |-> material, question |-> question])

\* Mutant: the question and its image job are written by the pool, before
\* the transaction commits.
CommitInParts ==
    LET number == Cardinality(coachQuestions) + 1 IN
    /\ coachWork = "calling"
    /\ coachQuestions' = coachQuestions \cup {number} /\ imageJobs' = imageJobs \cup {number}
    /\ \/ InsertAnalysis(number) /\ CoachGoes("calling", "succeeded")
       \/ UNCHANGED analyses /\ CoachGoes("calling", "failed")
    /\ UNCHANGED <<factVars, coachJob, coachTry, material, askVars>>

\* Steps 7 to 11: the call, Parse and one commit, whose answer may be lost.
CommitAnalysis ==
    LET number == Cardinality(coachQuestions) + 1 IN
    /\ \E next \in {"succeeded", "failed"} : CoachGoes("calling", next)
    /\ \E p \in Proposals :
          \/ /\ ParseAnalysis(p) = "with question" /\ InsertAnalysis(number)
             /\ coachQuestions' = coachQuestions \cup {number}
             /\ imageJobs' = imageJobs \cup {number}
          \/ /\ ParseAnalysis(p) = "alone" /\ InsertAnalysis(0)
             /\ UNCHANGED <<coachQuestions, imageJobs>>
    /\ UNCHANGED <<factVars, coachJob, coachTry, material, askVars>>

\* Mutant: what the LLM said cannot be parsed, and that is the end of it.
CoachFailsQuietly ==
    /\ coachWork \in {"loading", "calling"} /\ coachWork' = "succeeded"
    /\ UNCHANGED <<factVars, resultVars, coachJob, coachTry, material, askVars>>

\* A query, the LLM, Parse or the commit fails; the transaction rolls back.
CoachFails ==
    /\ coachWork \in {"loading", "calling"} /\ coachWork' = "failed"
    /\ UNCHANGED <<factVars, resultVars, coachJob, coachTry, material, askVars>>

Retried == IF coachTry >= CoachAttempts THEN "none" ELSE "retryable"

\* What River makes of the attempt, of an instance that died, and, a day
\* later, of a completed row.
FinishCoach ==
    /\ \/ CoachGoes("succeeded", "none") /\ coachJob' = "completed" /\ coachTry' = 0
       \/ CoachGoes("failed", "none") /\ coachJob' = Retried /\ coachTry' = coachTry
    /\ material' = {}
    /\ UNCHANGED <<factVars, resultVars, askVars>>
CoachCrash ==
    /\ coachJob = "running" /\ coachWork # "dead" /\ coachWork' = "dead"
    /\ UNCHANGED <<factVars, resultVars, coachJob, coachTry, material, askVars>>
RescueCoach ==
    /\ CoachGoes("dead", "none") /\ coachJob' = Retried
    /\ UNCHANGED <<factVars, resultVars, coachTry, material, askVars>>
CleanCoach ==
    /\ coachJob = "completed" /\ coachJob' = "none"
    /\ UNCHANGED <<factVars, resultVars, coachTry, coachWork, material, askVars>>
-----------------------------------------------------------------------------
AskStep(r) == \/ \E paying, force \in BOOLEAN : BeginAsk(r, paying, force)
              \/ ReadReviewedIDs(r) \/ CompareWithLatest(r) \/ InsertCoachJob(r) \/ AskFails(r)

CoachStep == \/ StartCoach \/ LoadMaterial \/ CommitAnalysis \/ CoachFails
             \/ FinishCoach \/ CoachCrash \/ RescueCoach \/ CleanCoach

CoachNext == \/ \E s \in Interviews : Reviewed(s) \/ Withdraw(s)
             \/ CoachStep
             \/ \E r \in Asks : AskStep(r)

CoachSpec == CoachInit /\ [][CoachNext]_coachVars
-----------------------------------------------------------------------------
Suggested == {analyses[k].question : k \in DOMAIN analyses} \ {0}
Covered == UNION {analyses[k].sessions : k \in DOMAIN analyses}

(***************************************************************************)
(* Whatever attempts fail, crash or lose their answer, every question of   *)
(* the coach is suggested by an analysis and has its image on the way, and *)
(* a question that GetCoachAnalysis suggests exists.                       *)
(***************************************************************************)
SuggestionComplete ==
    /\ coachQuestions = Suggested /\ imageJobs = coachQuestions
    /\ HasAnalysis => GetCoachAnalysis(TRUE).suggested \subseteq coachQuestions

(***************************************************************************)
(* A request that was accepted before the job began is honoured by it:     *)
(* when the job is completed, some analysis covers every session that was  *)
(* reviewed when the request was accepted.  (A request that met a running  *)
(* or a completed row may count on nothing.)                               *)
(***************************************************************************)
AcceptedIsAnalysed ==
    coachJob = "completed" =>
        \A r \in Asks : ask[r] = "accepted" => hope[r] \subseteq Covered \cup withdrawn
=============================================================================
