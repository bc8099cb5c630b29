---------------------------- MODULE Jobs_proofs -----------------------------
(***************************************************************************)
(* Proofs about what the workers write with an LLM - educator content, the *)
(* coach's suggestions, the pictures of questions, evaluations - for any   *)
(* sessions, requests, questions and attempts.                             *)
(***************************************************************************)
EXTENDS Educator, Coach, QuestionImages, Grading, FiniteSetTheorems, TLAPS
-----------------------------------------------------------------------------
(***************************************************************************)
(* Educator content, with any limits and a paid balance that comes and     *)
(* goes at any moment.                                                     *)
(***************************************************************************)
\* River starts a job again only while it has attempts left.
AttemptsLeft ==
    \A s \in Reviews : job[s] \in {"available", "retryable"} => attempt[s] < MaxAttempts

\* A worker that got past its idempotency check found no content and no failure.
NothingThereYet ==
    \A s \in Reviews :
        /\ work[s] = "loading" => row[s] \in {"none", "generating"}
        /\ work[s] = "generating" => row[s] = "generating"

\* Every request that went on after its taste is counted in the user's row.
TastesCounted == Cardinality(Tasting) <= used

-----------------------------------------------------------------------------
LEMMA EnqueueTypes ==
    ASSUME EducatorTypeOK, AttemptsLeft, NEW s \in Reviews, Enqueue(s)
    PROVE  /\ job' \in [Reviews -> Jobs] /\ attempt' \in [Reviews -> 0..MaxAttempts]
           /\ work' \in [Reviews -> {"none", "checking", "loading", "generating",
                                      "succeeded", "failed", "handled", "dead"}]
           /\ AttemptsLeft'
           /\ \A t \in Reviews : work'[t] \in {work[t], "none"}
  BY EducatorAssumption DEF Enqueue, EducatorTypeOK, Jobs, AttemptsLeft, jobVars

\* The steps of requests keep the types and the attempts.
LEMMA RequestTypes ==
    ASSUME EducatorTypeOK, AttemptsLeft, NEW r \in Requests, RequestStep(r)
    PROVE  EducatorTypeOK' /\ AttemptsLeft'
  <1> subject[r] \in Reviews
    BY DEF EducatorTypeOK
  <1>1. CASE CheckAccess(r)
    BY <1>1, EducatorAssumption DEF CheckAccess, AccessLevel, Goto, EducatorTypeOK, AttemptsLeft,
          userVars, jobVars
  <1>2. CASE ConsumeTaste(r)
    BY <1>2, EducatorAssumption DEF ConsumeTaste, Goto, EducatorTypeOK, AttemptsLeft, jobVars
  <1>3. CASE LookUp(r)
    BY <1>3 DEF LookUp, Goto, EducatorTypeOK, AttemptsLeft, Rows, userVars, jobVars
  <1>4. CASE InsertJob(r)
    BY <1>4, EnqueueTypes DEF InsertJob, Goto, EducatorTypeOK, userVars
  <1>5. CASE CommitRetry(r)
    BY <1>5, EnqueueTypes DEF CommitRetry, Goto, EducatorTypeOK, Rows, userVars
  <1>6. CASE RequestFails(r)
    BY <1>6 DEF RequestFails, Goto, EducatorTypeOK, AttemptsLeft, userVars, jobVars
  <1>7. QED
    BY <1>1, <1>2, <1>3, <1>4, <1>5, <1>6 DEF RequestStep

\* So do the steps of the job.
LEMMA JobTypes ==
    ASSUME EducatorTypeOK, AttemptsLeft, NEW s \in Reviews, JobStep(s)
    PROVE  EducatorTypeOK' /\ AttemptsLeft'
  <1> USE EducatorAssumption DEF EducatorTypeOK, AttemptsLeft, Rows, Jobs, userVars, requestVars
  <1>1. CASE StartAttempt(s)
    BY <1>1 DEF StartAttempt
  <1>2. CASE CheckExisting(s) \/ WorkFails(s) \/ Crash(s)
    BY <1>2 DEF CheckExisting, WorkFails, Crash, Step
  <1>3. CASE Load(s) \/ Generate(s) \/ HandleError(s)
    BY <1>3 DEF Load, Generate, HandleError, Step
  <1>4. CASE FinishJob(s) \/ Rescue(s)
    BY <1>4 DEF FinishJob, Rescue, Step, LastAttempt
  <1>5. CASE Clean(s)
    BY <1>5 DEF Clean
  <1>6. QED
    BY <1>1, <1>2, <1>3, <1>4, <1>5 DEF JobStep

LEMMA TypesAndAttempts == EducatorSpec => [](EducatorTypeOK /\ AttemptsLeft)
  <1>1. EducatorInit => EducatorTypeOK /\ AttemptsLeft
    BY EducatorAssumption DEF EducatorInit, EducatorTypeOK, AttemptsLeft, Rows, Jobs
  <1>2. EducatorTypeOK /\ AttemptsLeft /\ [EducatorNext]_educatorVars
        => (EducatorTypeOK /\ AttemptsLeft)'
    <2> SUFFICES ASSUME EducatorTypeOK, AttemptsLeft, [EducatorNext]_educatorVars
                 PROVE  (EducatorTypeOK /\ AttemptsLeft)'
      OBVIOUS
    <2>1. CASE BalanceChanges
      BY <2>1 DEF BalanceChanges, EducatorTypeOK, AttemptsLeft, jobVars, requestVars
    <2>2. CASE \E s \in Reviews : EndedAgain(s)
      BY <2>2 DEF EndedAgain, EducatorTypeOK, AttemptsLeft, userVars, jobVars, requestVars
    <2>3. CASE \E s \in Reviews : JobStep(s)
      BY <2>3, JobTypes
    <2>4. CASE \E r \in Requests : RequestStep(r)
      BY <2>4, RequestTypes
    <2>5. CASE UNCHANGED educatorVars
      BY <2>5 DEF educatorVars, EducatorTypeOK, AttemptsLeft
    <2>6. QED
      BY <2>1, <2>2, <2>3, <2>4, <2>5 DEF EducatorNext
  <1>3. QED
    BY <1>1, <1>2, PTL DEF EducatorSpec

\* Every variable keeps its type: no more tastes than the plan gives are
\* counted, and no job is attempted more often than MaxAttempts.
THEOREM EducatorTypes == EducatorSpec => []EducatorTypeOK
  BY TypesAndAttempts, PTL
-----------------------------------------------------------------------------
\* A step after which no new request tastes keeps the count.
LEMMA FewerTasting ==
    ASSUME TastesCounted, used \in Nat, Tasting' \subseteq Tasting, used' = used
    PROVE  TastesCounted'
  <1>1. IsFiniteSet(Tasting)
    BY RequestsAssumption, FS_Subset DEF Tasting
  <1>2. IsFiniteSet(Tasting') /\ Cardinality(Tasting') <= Cardinality(Tasting)
    BY <1>1, FS_Subset
  <1>3. Cardinality(Tasting) \in Nat /\ Cardinality(Tasting') \in Nat
    BY <1>1, <1>2, FS_CardinalityType
  <1>4. QED
    BY <1>2, <1>3 DEF TastesCounted

\* The increment pays for the request it lets through.
LEMMA OneMoreTasting ==
    ASSUME EducatorTypeOK, TastesCounted, NEW r \in Requests, ConsumeTaste(r), used < FreeLimit
    PROVE  TastesCounted'
  <1>1. IsFiniteSet(Tasting)
    BY RequestsAssumption, FS_Subset DEF Tasting
  <1>2. /\ IsFiniteSet(Tasting \cup {r})
        /\ Cardinality(Tasting \cup {r}) <= Cardinality(Tasting) + 1
    <2>1. Cardinality(Tasting) \in Nat
      BY <1>1, FS_CardinalityType
    <2>2. /\ IsFiniteSet(Tasting \cup {r})
          /\ Cardinality(Tasting \cup {r}) =
                IF r \in Tasting THEN Cardinality(Tasting) ELSE Cardinality(Tasting) + 1
      BY <1>1, FS_AddElement
    <2>3. QED
      BY <2>1, <2>2
  <1>3. Tasting' \subseteq Tasting \cup {r}
    BY DEF Tasting, ConsumeTaste, Goto, EducatorTypeOK
  <1>4. IsFiniteSet(Tasting') /\ Cardinality(Tasting') <= Cardinality(Tasting \cup {r})
    BY <1>2, <1>3, FS_Subset
  <1>5. /\ Cardinality(Tasting) \in Nat /\ Cardinality(Tasting') \in Nat
        /\ Cardinality(Tasting \cup {r}) \in Nat
    BY <1>1, <1>2, <1>4, FS_CardinalityType
  <1>6. used' = used + 1 /\ used \in Nat
    BY EducatorAssumption DEF ConsumeTaste, EducatorTypeOK
  <1>7. QED
    BY <1>2, <1>4, <1>5, <1>6 DEF TastesCounted

LEMMA RequestsCounted ==
    ASSUME EducatorTypeOK, TastesCounted, NEW r \in Requests, RequestStep(r)
    PROVE  TastesCounted'
  <1>1. used \in Nat
    BY EducatorAssumption DEF EducatorTypeOK
  <1>2. CASE ConsumeTaste(r) /\ used < FreeLimit
    BY <1>2, OneMoreTasting
  <1>3. CASE ConsumeTaste(r) /\ ~(used < FreeLimit)
    <2>1. Tasting' \subseteq Tasting /\ used' = used
      BY <1>3 DEF Tasting, ConsumeTaste, Goto, EducatorTypeOK
    <2>2. QED
      BY <1>1, <2>1, FewerTasting
  <1>4. CASE CheckAccess(r)
    <2>1. Tasting' \subseteq Tasting /\ used' = used
      BY <1>4 DEF Tasting, CheckAccess, Goto, EducatorTypeOK, userVars
    <2>2. QED
      BY <1>1, <2>1, FewerTasting
  <1>5. CASE LookUp(r) \/ InsertJob(r) \/ CommitRetry(r) \/ RequestFails(r)
    <2>1. Tasting' \subseteq Tasting /\ used' = used
      BY <1>5 DEF Tasting, LookUp, InsertJob, CommitRetry, RequestFails, Goto, EducatorTypeOK, userVars
    <2>2. QED
      BY <1>1, <2>1, FewerTasting
  <1>6. QED
    BY <1>2, <1>3, <1>4, <1>5 DEF RequestStep

\* However many requests of a user race for the free taste, no more of them
\* go on than the plan gives away.
THEOREM TastesAreBounded == EducatorSpec => []TastesBounded
  <1>1. EducatorInit => TastesCounted
    <2> SUFFICES ASSUME EducatorInit PROVE TastesCounted
      OBVIOUS
    <2>1. Tasting = {}
      BY DEF EducatorInit, Tasting
    <2>2. QED
      BY <2>1, FS_EmptySet DEF EducatorInit, TastesCounted
  <1>2. EducatorTypeOK /\ TastesCounted /\ [EducatorNext]_educatorVars => TastesCounted'
    <2> SUFFICES ASSUME EducatorTypeOK, TastesCounted, [EducatorNext]_educatorVars PROVE TastesCounted'
      OBVIOUS
    <2>1. CASE \E r \in Requests : RequestStep(r)
      BY <2>1, RequestsCounted
    <2>2. ASSUME UNCHANGED <<used, requestVars>> PROVE TastesCounted'
      BY <2>2 DEF TastesCounted, Tasting, requestVars
    <2>3. CASE BalanceChanges \/ \E s \in Reviews : EndedAgain(s)
      BY <2>2, <2>3 DEF BalanceChanges, EndedAgain, userVars
    <2>4. CASE \E s \in Reviews : JobStep(s)
      BY <2>2, <2>4 DEF JobStep, StartAttempt, CheckExisting, Load, Generate, WorkFails,
            HandleError, FinishJob, Crash, Rescue, Clean, userVars
    <2>5. CASE UNCHANGED educatorVars
      BY <2>2, <2>5 DEF educatorVars, requestVars
    <2>6. QED
      BY <2>1, <2>3, <2>4, <2>5 DEF EducatorNext
  <1>3. EducatorTypeOK /\ TastesCounted => TastesBounded
    <2> SUFFICES ASSUME EducatorTypeOK, TastesCounted PROVE TastesBounded
      OBVIOUS
    <2>1. Cardinality(Tasting) \in Nat
      BY RequestsAssumption, FS_Subset, FS_CardinalityType DEF Tasting
    <2>2. QED
      BY <2>1, EducatorAssumption DEF EducatorTypeOK, TastesCounted, TastesBounded
  <1>4. QED
    BY <1>1, <1>2, <1>3, EducatorTypes, PTL DEF EducatorSpec
-----------------------------------------------------------------------------
\* The worker reaches the LLM, and stores its answer, only while the content
\* is announced as being generated.
THEOREM NeverGeneratesOver == EducatorSpec => []NeverGeneratedOver
  <1>1. EducatorInit => NothingThereYet
    BY DEF EducatorInit, NothingThereYet
  <1>2. EducatorTypeOK /\ AttemptsLeft /\ NothingThereYet /\ [EducatorNext]_educatorVars
        => NothingThereYet'
    <2> SUFFICES ASSUME EducatorTypeOK, AttemptsLeft, NothingThereYet, [EducatorNext]_educatorVars
                 PROVE  NothingThereYet'
      OBVIOUS
    <2>1. ASSUME NEW s \in Reviews, JobStep(s) PROVE NothingThereYet'
      <3>1. CASE StartAttempt(s) \/ CheckExisting(s) \/ Load(s) \/ Generate(s)
        BY <3>1 DEF StartAttempt, CheckExisting, Load, Generate, Step, NothingThereYet,
              EducatorTypeOK, Rows
      <3>2. CASE WorkFails(s) \/ HandleError(s) \/ FinishJob(s) \/ Crash(s) \/ Rescue(s)
        BY <3>2 DEF WorkFails, HandleError, FinishJob, Crash, Rescue, Step, NothingThereYet,
           EducatorTypeOK
      <3>3. CASE Clean(s)
        BY <3>3 DEF Clean, NothingThereYet
      <3>4. QED
        BY <2>1, <3>1, <3>2, <3>3 DEF JobStep
    <2>2. ASSUME NEW r \in Requests, RequestStep(r) PROVE NothingThereYet'
      <3> subject[r] \in Reviews
        BY DEF EducatorTypeOK
      <3>1. CASE CheckAccess(r) \/ ConsumeTaste(r) \/ LookUp(r) \/ RequestFails(r)
        BY <3>1 DEF CheckAccess, ConsumeTaste, LookUp, RequestFails, jobVars, NothingThereYet
      <3>2. CASE InsertJob(r)
        BY <3>2, EnqueueTypes DEF InsertJob, NothingThereYet
      <3>3. CASE CommitRetry(r)
        <4>1. \A s \in Reviews : /\ work'[s] \in {work[s], "none"}
                                  /\ row'[s] \in {row[s], "generating"}
          BY <3>3, EnqueueTypes DEF CommitRetry, EducatorTypeOK
        <4>2. QED
          BY <4>1 DEF NothingThereYet
      <3>4. QED
        BY <2>2, <3>1, <3>2, <3>3 DEF RequestStep
    <2>3. CASE BalanceChanges \/ \E s \in Reviews : EndedAgain(s)
      BY <2>3 DEF BalanceChanges, EndedAgain, jobVars, NothingThereYet
    <2>4. CASE UNCHANGED educatorVars
      BY <2>4 DEF educatorVars, NothingThereYet
    <2>5. QED
      BY <2>1, <2>2, <2>3, <2>4 DEF EducatorNext
  <1>3. NothingThereYet => NeverGeneratedOver
    BY DEF NothingThereYet, NeverGeneratedOver
  <1>4. QED
    BY <1>1, <1>2, <1>3, TypesAndAttempts, PTL DEF EducatorSpec
-----------------------------------------------------------------------------
(***************************************************************************)
(* The coach: that what it suggests is complete, and that a request that   *)
(* was accepted in time is honoured.                                       *)
(***************************************************************************)
Analysis == [sessions : SUBSET Interviews, question : Nat]

CoachTypes ==
    /\ judged \subseteq Interviews /\ material \subseteq Interviews
    /\ analyses \in Seq(Analysis)
    /\ IsFiniteSet(coachQuestions)
    /\ hope \in [Asks -> SUBSET Interviews]

\* Whoever works, works on the row that is running.
WorkIsRunning == coachWork # "none" => coachJob = "running"

\* What a request may count on is still to be read, is being worked on, or
\* is covered - save for what was withdrawn.
HopesKept ==
    \A r \in Asks :
        /\ hope[r] \subseteq judged \cup withdrawn
        /\ coachWork = "calling" => hope[r] \subseteq material \cup withdrawn
        /\ coachWork = "succeeded" \/ coachJob = "completed" => hope[r] \subseteq Covered \cup withdrawn

CoachInv == CoachTypes /\ WorkIsRunning /\ HopesKept /\ SuggestionComplete
-----------------------------------------------------------------------------
(***************************************************************************)
(* Nothing is suggested and nothing asked at the start.                    *)
(***************************************************************************)
LEMMA CoachInitInv == CoachInit => CoachInv
  <1> SUFFICES ASSUME CoachInit PROVE CoachInv
    OBVIOUS
  <1>1. CoachTypes
    BY FS_EmptySet DEF CoachInit, CoachTypes
  <1>2. WorkIsRunning /\ HopesKept
    BY DEF CoachInit, WorkIsRunning, HopesKept
  <1>3. Suggested = {} /\ ~HasAnalysis
    BY DEF CoachInit, Suggested, HasAnalysis
  <1>4. SuggestionComplete
    BY <1>3 DEF CoachInit, SuggestionComplete
  <1>5. QED
    BY <1>1, <1>2, <1>4 DEF CoachInv

\* A step that adds no analysis.
LEMMA ResultsStay ==
    ASSUME CoachInv, UNCHANGED resultVars
    PROVE  /\ SuggestionComplete' /\ Covered' = Covered
           /\ analyses' \in Seq(Analysis) /\ IsFiniteSet(coachQuestions')
  BY DEF CoachInv, CoachTypes, resultVars, SuggestionComplete, Suggested, Covered, HasAnalysis,
         GetCoachAnalysis, LatestAnalysis, CoachResponseToProto

(***************************************************************************)
(* Requests, sessions that come and go, and the job up to its commit.      *)
(***************************************************************************)
LEMMA OthersKeepCoach ==
    ASSUME CoachInv,
           \/ \E s \in Interviews : Reviewed(s) \/ Withdraw(s)
           \/ \E r \in Asks : AskStep(r)
           \/ StartCoach \/ LoadMaterial \/ CoachFails \/ FinishCoach \/ CoachCrash
           \/ RescueCoach \/ CleanCoach
    PROVE  CoachInv'
  <1> USE DEF CoachTypes, WorkIsRunning, HopesKept, CoachInv, factVars, resultVars, coachJobVars,
              askVars, ReviewedSessionIDs
  <1>1. UNCHANGED resultVars
    BY DEF Reviewed, Withdraw, AskStep, BeginAsk, ReadReviewedIDs, CompareWithLatest,
           InsertCoachJob, AskFails, StartCoach, LoadMaterial, CoachFails, FinishCoach,
           CoachCrash, RescueCoach, CleanCoach
  <1>2. /\ SuggestionComplete' /\ Covered' = Covered
        /\ analyses' \in Seq(Analysis) /\ IsFiniteSet(coachQuestions')
    BY <1>1, ResultsStay
  <1> SUFFICES /\ judged' \subseteq Interviews /\ material' \subseteq Interviews
               /\ hope' \in [Asks -> SUBSET Interviews] /\ WorkIsRunning' /\ HopesKept'
    BY <1>2
  <1>3. CASE \E s \in Interviews : Reviewed(s) \/ Withdraw(s)
    BY <1>2, <1>3 DEF Reviewed, Withdraw
  <1>4. ASSUME NEW r \in Asks, InsertCoachJob(r)
        PROVE  /\ judged' \subseteq Interviews /\ material' \subseteq Interviews
               /\ hope' \in [Asks -> SUBSET Interviews] /\ WorkIsRunning' /\ HopesKept'
    BY <1>2, <1>4 DEF InsertCoachJob
  <1>5. ASSUME NEW r \in Asks, AskStep(r), ~InsertCoachJob(r)
        PROVE  /\ judged' \subseteq Interviews /\ material' \subseteq Interviews
               /\ hope' \in [Asks -> SUBSET Interviews] /\ WorkIsRunning' /\ HopesKept'
    BY <1>2, <1>5 DEF AskStep, BeginAsk, ReadReviewedIDs, CompareWithLatest, AskFails
  <1>6. CASE LoadMaterial
    BY <1>2, <1>6 DEF LoadMaterial, CoachGoes
  <1>7. CASE StartCoach \/ CoachFails \/ CoachCrash
    BY <1>2, <1>7 DEF StartCoach, CoachFails, CoachCrash, CoachGoes
  <1>8. CASE FinishCoach
    BY <1>2, <1>8 DEF FinishCoach, CoachGoes, Retried
  <1>9. CASE RescueCoach \/ CleanCoach
    BY <1>2, <1>9 DEF RescueCoach, CleanCoach, CoachGoes, Retried
  <1>10. QED
    BY <1>3, <1>4, <1>5, <1>6, <1>7, <1>8, <1>9

(***************************************************************************)
(* The commit of the worker: the analysis, its question and the job of the *)
(* image together, whether its answer arrives or not.                      *)
(***************************************************************************)
LEMMA CommitKeepsCoach ==
    ASSUME CoachInv, CommitAnalysis
    PROVE  CoachInv'
  <1> DEFINE number == Cardinality(coachQuestions) + 1
  <1>1. number \in Nat \ {0} /\ IsFiniteSet(coachQuestions \cup {number})
    <2>1. IsFiniteSet(coachQuestions) /\ Cardinality(coachQuestions) \in Nat
      BY FS_CardinalityType DEF CoachInv, CoachTypes
    <2>2. IsFiniteSet(coachQuestions \cup {number})
      BY <2>1, FS_AddElement
    <2>3. QED
      BY <2>1, <2>2
  <1> HIDE DEF number
  <1>2. PICK question \in Nat :
          /\ analyses' = Append(analyses, [sessions |-> material, question |-> question])
          /\ coachQuestions' = coachQuestions \cup ({question} \ {0})
          /\ imageJobs' = imageJobs \cup ({question} \ {0})
          /\ IsFiniteSet(coachQuestions')
    <2>1. \/ /\ analyses' = Append(analyses, [sessions |-> material, question |-> number])
             /\ coachQuestions' = coachQuestions \cup {number}
             /\ imageJobs' = imageJobs \cup {number}
          \/ /\ analyses' = Append(analyses, [sessions |-> material, question |-> 0])
             /\ UNCHANGED <<coachQuestions, imageJobs>>
      BY DEF CommitAnalysis, InsertAnalysis, number
    <2>2. {number} \ {0} = {number} /\ {0} \ {0} = {} /\ IsFiniteSet(coachQuestions)
      BY <1>1 DEF CoachInv, CoachTypes
    <2>3. QED
      BY <1>1, <2>1, <2>2
  <1> DEFINE new == [sessions |-> material, question |-> question]
  <1>3. new \in Analysis /\ new.sessions = material /\ new.question = question
    BY DEF CoachInv, CoachTypes, Analysis
  <1>4. /\ analyses \in Seq(Analysis) /\ analyses' = Append(analyses, new)
    BY <1>2 DEF CoachInv, CoachTypes
  <1> HIDE DEF new
  <1>5. /\ analyses' \in Seq(Analysis) /\ Len(analyses') = Len(analyses) + 1
        /\ DOMAIN analyses' = DOMAIN analyses \cup {Len(analyses')}
        /\ analyses'[Len(analyses')] = new
        /\ \A k \in DOMAIN analyses : analyses'[k] = analyses[k] /\ k \in DOMAIN analyses'
    BY <1>3, <1>4
  <1>6. Suggested' = Suggested \cup ({question} \ {0})
    BY <1>3, <1>5 DEF Suggested
  <1>7. \A r \in Asks : hope[r] \subseteq material \cup withdrawn
                        => hope[r] \subseteq Covered' \cup withdrawn
    <2>1. material \subseteq Covered'
      <3>1. analyses'[Len(analyses')].sessions = material /\ Len(analyses') \in DOMAIN analyses'
        BY <1>3, <1>5
      <3>2. QED
        BY <3>1 DEF Covered
    <2>2. QED
      BY <2>1
  <1>8. /\ coachWork = "calling" /\ coachWork' \in {"succeeded", "failed"}
        /\ UNCHANGED <<factVars, coachJob, coachTry, material, askVars>>
    BY DEF CommitAnalysis, CoachGoes
  <1>9. SuggestionComplete'
    <2>1. GetCoachAnalysis(TRUE)'.suggested \subseteq {question} \ {0}
      <3>1. HasAnalysis' /\ LatestAnalysis' = new
        BY <1>5 DEF HasAnalysis, LatestAnalysis
      <3>2. GetCoachAnalysis(TRUE)' = CoachResponseToProto(new)
        BY <3>1 DEF GetCoachAnalysis, CoachResponseToProto
      <3>3. CoachResponseToProto(new).suggested = {question} \ {0}
        BY <1>3 DEF CoachResponseToProto
      <3>4. QED
        BY <3>2, <3>3
    <2>2. QED
      BY <1>2, <1>6, <2>1 DEF CoachInv, SuggestionComplete
  <1>10. CoachTypes' /\ WorkIsRunning'
    BY <1>2, <1>5, <1>8 DEF CoachInv, CoachTypes, WorkIsRunning, factVars, askVars
  <1>11. HopesKept'
    BY <1>7, <1>8 DEF CoachInv, WorkIsRunning, HopesKept, factVars, askVars
  <1>12. QED
    BY <1>9, <1>10, <1>11 DEF CoachInv

LEMMA CoachInvariant == CoachSpec => []CoachInv
  <1>1. CoachInv /\ [CoachNext]_coachVars => CoachInv'
    <2> SUFFICES ASSUME CoachInv, [CoachNext]_coachVars PROVE CoachInv'
      OBVIOUS
    <2>1. CASE CoachNext
      BY <2>1, OthersKeepCoach, CommitKeepsCoach DEF CoachNext, CoachStep
    <2>2. CASE UNCHANGED coachVars
      BY <2>2, ResultsStay DEF coachVars, factVars, resultVars, coachJobVars, askVars, CoachInv,
                               CoachTypes, WorkIsRunning, HopesKept
    <2>3. QED
      BY <2>1, <2>2
  <1>2. QED
    BY <1>1, CoachInitInv, PTL DEF CoachSpec
-----------------------------------------------------------------------------
(***************************************************************************)
(* Every question of the coach is suggested by an analysis and has its     *)
(* image on the way; none that is suggested is missing.                    *)
(***************************************************************************)
THEOREM SuggestionsAreComplete == CoachSpec => []SuggestionComplete
  <1>1. CoachInv => SuggestionComplete
    BY DEF CoachInv
  <1>2. QED
    BY <1>1, CoachInvariant, PTL

(***************************************************************************)
(* A completed job has covered what was reviewed when a request was        *)
(* accepted before it began, through any number of failed attempts, dead   *)
(* instances and discarded rows.                                           *)
(***************************************************************************)
THEOREM AcceptedAreAnalysed == CoachSpec => []AcceptedIsAnalysed
  <1>1. CoachInv => AcceptedIsAnalysed
    BY DEF CoachInv, HopesKept, AcceptedIsAnalysed
  <1>2. QED
    BY <1>1, CoachInvariant, PTL
-----------------------------------------------------------------------------
(***************************************************************************)
(* Question images: that what a question shows is in the store and is what *)
(* is logged, and that it stays.                                           *)
(***************************************************************************)
ShownOrNone == Keys \cup {NoPicture}
Drawing == {"drawing", "uploading", "setting"}
ImageWorks == Drawing \cup {"none", "checking", "succeeded", "failed", "dead"}

\* The variables of which the argument speaks.
PictureTypes ==
    /\ imageURL \in [Questions -> ShownOrNone]
    /\ store \in [Keys -> Pictures \cup {NoPicture}]
    /\ logged \in [Questions -> Pictures \cup {NoPicture}]
    /\ drawn \in [Questions -> Pictures \cup {NoPicture}]
    /\ imageWork \in [Questions -> ImageWorks]
    /\ erasures \in Nat

\* An object is never anything but the picture that its key names.
StoreIsAddressed == \A q \in Questions, p \in Pictures : store[Key(q, p)] \in {NoPicture, p}

\* What a question shows is the object of the picture that is logged.
ShownIsLogged ==
    \A q \in Questions :
        imageURL[q] # NoPicture =>
            /\ logged[q] \in Pictures
            /\ imageURL[q] = Key(q, logged[q])
            /\ store[Key(q, logged[q])] = logged[q]

\* An execution has a picture between drawing and setting it, has put it in
\* the store before it sets it, and works for a question that shows none.
WorkInOrder ==
    \A q \in Questions :
        /\ imageWork[q] \in {"uploading", "setting"} => drawn[q] \in Pictures
        /\ imageWork[q] = "setting" => store[Key(q, drawn[q])] = drawn[q]
        /\ imageWork[q] \in Drawing => imageURL[q] = NoPicture

PictureInv == PictureTypes /\ StoreIsAddressed /\ ShownIsLogged /\ WorkInOrder
-----------------------------------------------------------------------------
(***************************************************************************)
(* At the start nothing is shown and nothing is stored.                    *)
(***************************************************************************)
LEMMA ImagesInitInv == ImagesInit => PictureInv
  BY DEF ImagesInit, PictureInv, PictureTypes, StoreIsAddressed, ShownIsLogged, WorkInOrder,
         ShownOrNone, ImageWorks, Drawing, Keys, Key

(***************************************************************************)
(* Every step keeps what the code relies on: the store is addressed by its *)
(* content, and an execution only sets the picture it has uploaded.        *)
(***************************************************************************)
LEMMA ImagesStepInv == PictureInv /\ [ImagesNext]_imagesVars => PictureInv'
<1> SUFFICES ASSUME PictureInv, [ImagesNext]_imagesVars PROVE PictureInv'
  OBVIOUS
<1> USE PictureAssumption
<1> USE DEF PictureInv, PictureTypes, StoreIsAddressed, ShownIsLogged, WorkInOrder,
            ShownOrNone, ImageWorks, Drawing
<1>1. CASE UNCHANGED imagesVars
  BY <1>1 DEF imagesVars, pictureVars, imageJobVars
<1>2. ASSUME NEW q \in Questions, CreateQuestion(q) \/ CoachQuestion(q) \/ SweepOne(q)
      PROVE  PictureInv'
  BY <1>2 DEF CreateQuestion, CoachQuestion, SweepOne, pictureVars, imageJobVars
<1>3. ASSUME NEW q \in Questions, Erase(q) PROVE PictureInv'
  BY <1>3 DEF Erase, imageJobVars
<1>4. CASE BeginSweep \/ SweepDies
  BY <1>4 DEF BeginSweep, SweepDies, pictureVars, imageJobVars
<1>5. ASSUME NEW q \in Questions, ImageStep(q) PROVE PictureInv'
  <2>1. CASE StartImage(q)
    BY <2>1 DEF StartImage, ImageGoes, pictureVars
  <2>2. CASE CheckImage(q)
    BY <2>2 DEF CheckImage, ImageGoes, pictureVars
  <2>3. ASSUME NEW p \in Pictures, Draw(q, p) PROVE PictureInv'
    BY <2>3 DEF Draw, ImageGoes, pictureVars
  <2>4. CASE Snooze(q)
    BY <2>4 DEF Snooze, ImageGoes, pictureVars
  <2>5. CASE Put(q)
    <3>1. Key(q, drawn[q]) \in Keys /\ drawn[q] \in Pictures
      BY <2>5 DEF Put, ImageGoes, Key, Keys
    <3>2. \A r \in Questions, p \in Pictures :
             /\ Key(r, p) \in Keys
             /\ Key(r, p) = Key(q, drawn[q]) => r = q /\ p = drawn[q]
      BY DEF Key, Keys
    <3>3. /\ store' = [store EXCEPT ![Key(q, drawn[q])] = drawn[q]]
          /\ imageWork' = [imageWork EXCEPT ![q] = "setting"] /\ imageWork[q] = "uploading"
          /\ UNCHANGED <<imageURL, logged, drawn, erasures>>
      BY <2>5 DEF Put, ImageGoes
    <3>4. PictureTypes'
      BY <3>1, <3>3
    <3>5. StoreIsAddressed'
      BY <3>1, <3>2, <3>3
    <3>6. ShownIsLogged'
      BY <3>1, <3>2, <3>3
    <3>7. WorkInOrder'
      BY <3>1, <3>2, <3>3
    <3>8. QED BY <3>4, <3>5, <3>6, <3>7
  <2>6. CASE CommitImage(q)
    <3>1. Key(q, drawn[q]) \in Keys /\ drawn[q] \in Pictures
      BY <2>6 DEF CommitImage, ImageGoes, Key, Keys
    <3>2. QED
      BY <2>6, <3>1 DEF CommitImage, ImageGoes
  <2>7. CASE ImageFails(q)
    BY <2>7 DEF ImageFails, pictureVars
  <2>8. CASE FinishImage(q)
    BY <2>8 DEF FinishImage, ImageGoes, pictureVars
  <2>9. CASE ImageCrash(q)
    BY <2>9 DEF ImageCrash, pictureVars
  <2>10. QED
    BY <1>5, <2>1, <2>2, <2>3, <2>4, <2>5, <2>6, <2>7, <2>8, <2>9 DEF ImageStep
<1>6. QED
  BY <1>1, <1>2, <1>3, <1>4, <1>5 DEF ImagesNext

LEMMA ImagesInvariant == ImagesSpec => []PictureInv
  BY ImagesInitInv, ImagesStepInv, PTL DEF ImagesSpec

(***************************************************************************)
(* Whatever attempts fail after the upload or lose their answers, and      *)
(* whatever is erased and drawn again, a question shows an object that is  *)
(* in the store, the picture whose LLM calls are logged.                   *)
(***************************************************************************)
THEOREM PicturesMatch == ImagesSpec => []PictureMatchesLog
<1>1. PictureInv => PictureMatchesLog
  BY DEF PictureInv, ShownIsLogged, PictureMatchesLog
<1>2. QED
  BY <1>1, ImagesInvariant, PTL

(***************************************************************************)
(* The check at the start of an execution, made outside of the transaction *)
(* that sets the picture, is enough: a picture that is shown is replaced   *)
(* by nobody but an operator, because a question has one live job.         *)
(***************************************************************************)
THEOREM PicturesStay == ImagesSpec => PictureStays
<1> DEFINE Stays == \A q \in Questions :
              imageURL[q] # NoPicture => imageURL'[q] = imageURL[q] \/ erasures' > erasures
<1>1. PictureInv /\ [ImagesNext]_imagesVars => [Stays]_imagesVars
  <2> SUFFICES ASSUME PictureInv, ImagesNext PROVE Stays
    OBVIOUS
  <2> USE DEF PictureInv, PictureTypes
  <2>1. ASSUME NEW q \in Questions, CreateQuestion(q) \/ CoachQuestion(q) \/ SweepOne(q)
        PROVE  Stays
    BY <2>1 DEF CreateQuestion, CoachQuestion, SweepOne, pictureVars
  <2>2. ASSUME NEW q \in Questions, Erase(q) PROVE Stays
    BY <2>2 DEF Erase
  <2>3. CASE BeginSweep \/ SweepDies
    BY <2>3 DEF BeginSweep, SweepDies, pictureVars
  <2>4. ASSUME NEW q \in Questions, CommitImage(q) PROVE Stays
    <3>1. imageURL[q] = NoPicture
      BY <2>4 DEF CommitImage, ImageGoes, WorkInOrder, Drawing
    <3>2. QED
      BY <2>4, <3>1 DEF CommitImage
  <2>5. ASSUME NEW q \in Questions, ImageStep(q), ~CommitImage(q) PROVE Stays
    BY <2>5 DEF ImageStep, StartImage, CheckImage, Draw, Snooze, Put, ImageFails, FinishImage,
                ImageCrash, pictureVars
  <2>6. QED
    BY <2>1, <2>2, <2>3, <2>4, <2>5 DEF ImagesNext
<1>2. QED
  BY <1>1, ImagesInvariant, PTL DEF ImagesSpec, PictureStays
-----------------------------------------------------------------------------
(***************************************************************************)
(* Grading: that an evaluation is whole. The rows of an execution that is  *)
(* not committed are the first ones of its submission; those of the        *)
(* evaluation are all of them.                                             *)
(***************************************************************************)
\* The rows of the table.
NoteRows == [seq : Nat, type : Types]

\* The first n annotations of a submission, as rows.
RowsOf(submission, n) == {Parse(submission).annotations[i] : i \in 1..n}

\* What the execution holds at each of its steps.
AttemptInOrder ==
    /\ grading # "idle" => grade = Absent
    /\ grading \in {"idle", "calling", "judging"} => inserted = {}
    /\ grading \in {"judging", "inserting", "inserted"} => said \in Submissions
    /\ grading \in {"inserting", "inserted"} =>
          /\ \A d \in Dimensions : Parse(said).scores[d] \in 1..5
          /\ IsFiniteSet(inserted) /\ Cardinality(inserted) <= Len(said.annotations)
          /\ inserted = RowsOf(said, Cardinality(inserted))
          /\ \A entry \in inserted : entry \in NoteRows /\ entry.seq \in 1..spoken
    /\ grading = "inserted" => Cardinality(inserted) = Len(said.annotations)

\* The rows of an evaluation are those of the call that is logged with it.
GradeFollowsCall ==
    grade # Absent =>
        /\ grade.said \in Submissions
        /\ grade.scores = Parse(grade.said).scores
        /\ \A d \in Dimensions : grade.scores[d] \in 1..5
        /\ notes = RowsOf(grade.said, Len(grade.said.annotations))
        /\ Cardinality(notes) = Len(grade.said.annotations)
        /\ \A entry \in notes : entry \in NoteRows /\ entry.seq \in 1..spoken

\* What is mailed and what is shown is of the evaluation that there is.
CopiesFollowGrade ==
    /\ mailJob \in Nat /\ (mailJob > 0 => grade # Absent)
    /\ \A scores \in mailed : grade # Absent /\ scores = grade.scores
    /\ view = "annotating" => grade # Absent /\ found = grade
    /\ graded # Absent => grade # Absent /\ graded = [scores |-> grade.scores, annotations |-> notes]

\* The inductive invariant.
GradingInv == spoken \in Nat /\ AttemptInOrder /\ GradeFollowsCall /\ CopiesFollowGrade
-----------------------------------------------------------------------------
\* What Parse makes of a submission has as many rows.
LEMMA ParsedRows ==
    ASSUME NEW submission \in Submissions
    PROVE  /\ Len(submission.annotations) \in Nat
           /\ DOMAIN submission.annotations = 1..Len(submission.annotations)
           /\ DOMAIN Parse(submission).annotations = 1..Len(submission.annotations)
           /\ \A i \in 1..Len(submission.annotations) :
                 /\ Parse(submission).annotations[i] \in [seq : Nat, type : Types \cup {"other"}]
                 /\ Parse(submission).annotations[i].type = submission.annotations[i].type
  <1>1. PICK n \in 0..MaxNotes : submission.annotations \in [1..n -> [seq : RawSeqs, type : Types \cup {"other"}]]
    BY DEF Submissions
  <1>2. n \in Nat /\ Len(submission.annotations) = n
    BY <1>1, GradingAssumption
  <1>3. \A i \in 1..n : Whole(submission.annotations[i].seq) \in Nat
    <2>1. \A x \in Nat : x \div 2 \in Nat
      OBVIOUS
    <2>2. \A i \in 1..n : submission.annotations[i].seq \in Nat
      BY <1>1, <1>2, GradingAssumption
    <2>3. QED
      BY <2>1, <2>2 DEF Whole
  <1>4. QED
    BY <1>1, <1>2, <1>3 DEF Parse

\* What is stored has a type that the protocol knows.
LEMMA NotesKeepTypes ==
    (\A note \in notes : note \in NoteRows) =>
        {[note EXCEPT !.type = AnnotationTypeToProto(@)] : note \in notes} = notes
  <1> SUFFICES ASSUME \A note \in notes : note \in NoteRows
               PROVE  {[note EXCEPT !.type = AnnotationTypeToProto(@)] : note \in notes} = notes
    OBVIOUS
  <1>1. \A note \in notes : [note EXCEPT !.type = AnnotationTypeToProto(@)] = note
    BY DEF NoteRows, AnnotationTypeToProto
  <1>2. QED
    BY <1>1

\* Nothing is graded at first.
LEMMA GradingInitInv == GradingInit => GradingInv
  BY GradingAssumption DEF GradingInit, GradingInv, AttemptInOrder, GradeFollowsCall, CopiesFollowGrade

\* A entry that the table takes is not among those that it has.
LEMMA InsertKeeps ==
    ASSUME GradingInv, InsertAnnotation
    PROVE  GradingInv'
  <1> USE DEF GradingInv
  <1> DEFINE next == Cardinality(inserted) + 1
             entry  == Parse(said).annotations[next]
  <1>1. /\ grading = "inserting" /\ next <= Len(said.annotations) /\ Insertable(entry)
        /\ inserted' = inserted \cup {entry}
        /\ UNCHANGED <<spoken, grading, seqMap, said, gradeVars, mailVars, viewVars>>
    BY DEF InsertAnnotation
  <1>2. /\ said \in Submissions /\ IsFiniteSet(inserted) /\ Cardinality(inserted) \in Nat
        /\ next \in 1..Len(said.annotations)
    BY <1>1, FS_CardinalityType, ParsedRows DEF AttemptInOrder
  <1>3. entry \in NoteRows /\ entry.seq \in 1..spoken /\ entry \notin inserted
    <2>1. entry \in [seq : Nat, type : Types \cup {"other"}]
      BY <1>2, ParsedRows
    <2>2. entry.type \in Types /\ entry.seq \in 1..spoken /\ entry \notin inserted
      BY <1>1 DEF Insertable
    <2>3. QED
      BY <2>1, <2>2 DEF NoteRows
  <1>4. IsFiniteSet(inserted') /\ Cardinality(inserted') = next
    BY <1>1, <1>2, <1>3, FS_AddElement
  <1>5. inserted' = RowsOf(said, next)
    <2>1. 1..next = 1..Cardinality(inserted) \cup {next}
      BY <1>2
    <2>2. inserted = RowsOf(said, Cardinality(inserted))
      BY <1>1 DEF AttemptInOrder
    <2>3. QED
      BY <1>1, <2>1, <2>2 DEF RowsOf
  <1>6. AttemptInOrder'
    <2>1. \A r \in inserted' : r \in NoteRows /\ r.seq \in 1..spoken
      BY <1>1, <1>3 DEF AttemptInOrder
    <2>2. inserted' = RowsOf(said, Cardinality(inserted))'
      BY <1>1, <1>4, <1>5
    <2>3. QED
      BY <1>1, <1>2, <1>4, <2>1, <2>2 DEF AttemptInOrder, gradeVars
  <1>7. GradeFollowsCall' /\ CopiesFollowGrade'
    BY <1>1 DEF GradeFollowsCall, CopiesFollowGrade, gradeVars, mailVars, viewVars
  <1>8. QED
    BY <1>1, <1>6, <1>7

\* The commit makes the evaluation of what the execution holds.
LEMMA CommitKeeps ==
    ASSUME GradingInv, CommitGrade
    PROVE  GradingInv'
  <1> USE DEF GradingInv
  <1>1. /\ grading = "inserted" /\ grading' = "idle" /\ grade = Absent /\ notes' = inserted
        /\ grade' = [scores |-> Parse(said).scores, said |-> said] /\ mailJob' = MailAttempts
        /\ UNCHANGED <<spoken, mailed, view, found, graded>>
    BY DEF CommitGrade, LetGo, AttemptInOrder, viewVars
  <1>2. grade'.said = said /\ grade'.scores = Parse(said).scores
    BY <1>1
  <1>3. AttemptInOrder'
    BY <1>1 DEF CommitGrade, LetGo, AttemptInOrder
  <1>4. GradeFollowsCall'
    BY <1>1, <1>2 DEF AttemptInOrder, GradeFollowsCall
  <1>5. grade' # Absent
    BY <1>1 DEF Absent
  <1>6. CopiesFollowGrade'
    BY <1>1, <1>5, GradingAssumption DEF CopiesFollowGrade
  <1>7. QED
    BY <1>1, <1>3, <1>4, <1>6

\* A step keeps the inductive invariant.
LEMMA GradingStepInv == GradingInv /\ [GradingNext]_gradingVars => GradingInv'
  <1> SUFFICES ASSUME GradingInv, [GradingNext]_gradingVars PROVE GradingInv'
    OBVIOUS
  <1> USE DEF GradingInv, workVars, gradeVars, mailVars, viewVars
  <1>1. CASE Speak
    <2>1. spoken' \in Nat /\ 1..spoken \subseteq 1..spoken'
      BY <1>1 DEF Speak
    <2>2. UNCHANGED <<workVars, gradeVars, mailVars, viewVars>>
      BY <1>1 DEF Speak
    <2>3. AttemptInOrder' /\ GradeFollowsCall' /\ CopiesFollowGrade'
      BY <2>1, <2>2 DEF AttemptInOrder, GradeFollowsCall, CopiesFollowGrade
    <2>4. QED
      BY <2>1, <2>3
  <1>2. ASSUME UNCHANGED <<spoken, grade, notes>> PROVE spoken' \in Nat /\ GradeFollowsCall'
    BY <1>2 DEF GradeFollowsCall
  <1>3. ASSUME UNCHANGED <<grade, notes, mailVars, viewVars>> PROVE CopiesFollowGrade'
    BY <1>3 DEF CopiesFollowGrade
  <1>4. ASSUME UNCHANGED <<spoken, workVars, grade>> PROVE AttemptInOrder'
    BY <1>4 DEF AttemptInOrder
  <1>5. CASE EndedOnceMore \/ UNCHANGED gradingVars
    BY <1>2, <1>3, <1>4, <1>5 DEF EndedOnceMore, gradingVars
  <1>6. CASE ReadTranscript \/ GradingFails
    <2>1. AttemptInOrder'
      BY <1>6 DEF ReadTranscript, GradingFails, GradingGoes, LetGo, AttemptInOrder
    <2>2. QED
      BY <1>2, <1>3, <1>6, <2>1 DEF ReadTranscript, GradingFails
  <1>7. CASE \E submission \in Submissions : CallToolAndLog(submission)
    <2>1. AttemptInOrder'
      BY <1>7 DEF CallToolAndLog, GradingGoes, AttemptInOrder
    <2>2. QED
      BY <1>2, <1>3, <1>7, <2>1 DEF CallToolAndLog
  <1>8. CASE Accept
    <2>1. /\ grading' = "inserting" /\ grade = Absent /\ said \in Submissions /\ inserted = {}
          /\ \A d \in Dimensions : Parse(said).scores[d] \in 1..5
          /\ UNCHANGED <<spoken, said, inserted, grade>>
      BY <1>8 DEF Accept, GradingGoes, InsertEvaluation, AttemptInOrder
    <2>2. Len(said.annotations) \in Nat
      BY <2>1, ParsedRows
    <2>3. IsFiniteSet(inserted) /\ Cardinality(inserted) = 0
      BY <2>1, FS_EmptySet
    <2>4. RowsOf(said, 0) = {}
      BY DEF RowsOf
    <2>5. AttemptInOrder'
      BY <2>1, <2>2, <2>3, <2>4 DEF AttemptInOrder
    <2>6. QED
      BY <1>2, <1>3, <1>8, <2>5 DEF Accept
  <1>9. CASE InsertAnnotation
    BY <1>9, InsertKeeps
  <1>10. CASE AnnotationsInserted
    <2>1. AttemptInOrder'
      BY <1>10 DEF AnnotationsInserted, GradingGoes, AttemptInOrder
    <2>2. QED
      BY <1>2, <1>3, <1>10, <2>1 DEF AnnotationsInserted
  <1>11. CASE CommitGrade
    BY <1>11, CommitKeeps
  <1>12. CASE SendEmail
    <2>1. CopiesFollowGrade'
      BY <1>12 DEF SendEmail, CopiesFollowGrade
    <2>2. QED
      BY <1>2, <1>4, <1>12, <2>1 DEF SendEmail
  <1>13. CASE GetSessionForView \/ GetEvaluationBySession
    <2>1. CopiesFollowGrade'
      BY <1>13 DEF GetSessionForView, GetEvaluationBySession, ViewGoes, CopiesFollowGrade
    <2>2. QED
      BY <1>2, <1>4, <1>13, <2>1 DEF GetSessionForView, GetEvaluationBySession
  <1>14. CASE GetAnnotationsByEvaluation
    <2>1. grade # Absent /\ found = grade /\ view' = "idle"
      BY <1>14 DEF GetAnnotationsByEvaluation, ViewGoes, CopiesFollowGrade
    <2>2. graded' = [scores |-> grade.scores, annotations |-> notes]
      BY <1>14, <2>1, NotesKeepTypes DEF GetAnnotationsByEvaluation, GradeFollowsCall
    <2>3. CopiesFollowGrade'
      BY <1>14, <2>1, <2>2 DEF GetAnnotationsByEvaluation, CopiesFollowGrade
    <2>4. QED
      BY <1>2, <1>4, <1>14, <2>3 DEF GetAnnotationsByEvaluation
  <1>15. QED
    BY <1>1, <1>5, <1>6, <1>7, <1>8, <1>9, <1>10, <1>11, <1>12, <1>13, <1>14 DEF GradingNext, GradingStep

(***************************************************************************)
(* Whatever the LLM submits, at whatever point an execution dies and       *)
(* however often it is tried again, an evaluation is stored whole: a score *)
(* from 1 to 5 in every dimension and each annotation once, on a message   *)
(* of the session, all out of the one LLM call that is logged with it; and *)
(* what is mailed and what the page shows is that evaluation.              *)
(***************************************************************************)
THEOREM GradesAreWhole == GradingSpec => []GradeIsWhole
  <1>1. GradingInv => GradeIsWhole
    <2> SUFFICES ASSUME GradingInv PROVE GradeIsWhole
      OBVIOUS
    <2>1. \A i \in DOMAIN grade.said.annotations : grade # Absent
          => Parse(grade.said).annotations[i] \in notes
      BY ParsedRows DEF GradingInv, GradeFollowsCall, RowsOf
    <2>2. QED
      BY <2>1 DEF GradingInv, GradeFollowsCall, CopiesFollowGrade, GradeIsWhole, NoteRows
  <1>2. QED
    BY <1>1, GradingInitInv, GradingStepInv, PTL DEF GradingSpec
=============================================================================
