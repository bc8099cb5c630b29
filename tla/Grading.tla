------------------------------- MODULE Grading -------------------------------
(***************************************************************************)
(* What the evaluator's LLM hands to its tool, what of it becomes rows,    *)
(* what the mail says and what GetEvaluation shows.  The attempts of the   *)
(* job and its row in River are in EvaluationPipeline; here an execution   *)
(* of EvaluateSession is taken apart into the statements of its            *)
(* transaction.                                                            *)
(*                                                                         *)
(* JSON numbers are floating point.  They are given in halves: 7 is 3.5,   *)
(* which int32() cuts to 3.                                                *)
(***************************************************************************)
EXTENDS Naturals, Sequences, FiniteSets

CONSTANTS Dimensions,       \* the scores of an evaluation
          RawScores,        \* scores that the LLM may give, in halves
          RawSeqs,          \* messages that it may refer to, in halves
          MaxSpoken,        \* bounds of the model: messages of the session,
          MaxNotes,         \* annotations of a submission,
          MailAttempts      \* attempts of send_email

ASSUME GradingAssumption ==
    /\ RawScores \subseteq Nat /\ RawSeqs \subseteq Nat
    /\ MaxNotes \in Nat /\ MailAttempts \in Nat \ {0}

Types == {"strength", "gap", "missed_opportunity", "note"}
Absent == <<>>

VARIABLES
    spoken,     \* the session's messages are numbered 1..spoken
    grading,    \* where the execution of the job is
    seqMap,     \* the messages that it has read
    said,       \* the tool input it holds
    inserted,   \* the annotations that its transaction has inserted
    grade,      \* evaluations: Absent or [scores, said]; said is the logged call
    notes,      \* annotations, of that evaluation
    gradeShown, \* the session's status is 'reviewed'
    mailJob,    \* attempts left for the mail, 0 when there is no job for it
    mailed,     \* the scores of every mail that went out
    view,       \* where a GetEvaluation is
    found,      \* the evaluation that it has read
    graded      \* what it has answered

workVars  == <<grading, seqMap, said, inserted>>
gradeVars == <<grade, notes, gradeShown>>
mailVars  == <<mailJob, mailed>>
viewVars  == <<view, found, graded>>
gradingVars == <<spoken, workVars, gradeVars, mailVars, viewVars>>

GradingInit ==
    /\ spoken = 1
    /\ grading = "idle" /\ seqMap = {} /\ said = Absent /\ inserted = {}
    /\ grade = Absent /\ notes = {} /\ gradeShown = FALSE
    /\ mailJob = 0 /\ mailed = {}
    /\ view = "idle" /\ found = Absent /\ graded = Absent

\* A turn that outlived the end of the session stores its reply.
Speak ==
    /\ spoken < MaxSpoken /\ spoken' = spoken + 1
    /\ UNCHANGED <<workVars, gradeVars, mailVars, viewVars>>

\* CompleteSession writes 'completed' whatever the status was.
EndedOnceMore ==
    /\ gradeShown' = FALSE
    /\ UNCHANGED <<spoken, workVars, grade, notes, mailVars, viewVars>>
-----------------------------------------------------------------------------
(***************************************************************************)
(* EvaluateSessionWorker.Work                                              *)
(***************************************************************************)
\* ToolSchema asks for whole numbers from 1 to 5 and for the four types; what
\* comes is not held to it.
Submissions ==
    [scores : [Dimensions -> RawScores],
     annotations : UNION {[1..n -> [seq : RawSeqs, type : Types \cup {"other"}]]
                             : n \in 0..MaxNotes}]

\* int32() of a float64 cuts the fraction off.
Whole(raw) == raw \div 2

Parse(submission) ==
    [scores |-> [d \in Dimensions |-> Whole(submission.scores[d])],
     annotations |-> [i \in DOMAIN submission.annotations |->
                         [submission.annotations[i] EXCEPT !.seq = Whole(@)]]]

Validate(result, messages) ==
    /\ \A d \in Dimensions : result.scores[d] \in 1..5
    /\ \A i \in DOMAIN result.annotations :
          result.annotations[i].seq \in messages /\ result.annotations[i].type \in Types

GradingGoes(from, to) == grading = from /\ grading' = to
LetGo == grading' = "idle" /\ seqMap' = {} /\ said' = Absent /\ inserted' = {}

\* Steps 1 to 6: an evaluation that exists ends the job.
ReadTranscript ==
    /\ GradingGoes("idle", "calling") /\ grade = Absent
    /\ seqMap' = 1..spoken
    /\ UNCHANGED <<spoken, said, inserted, gradeVars, mailVars, viewVars>>

\* Refused by the CHECKs of the table.
InsertEvaluation(scores) == \A d \in Dimensions : scores[d] \in 1..5

\* Steps 7 and 8: the log of the call is part of the transaction.
CallToolAndLog(submission) ==
    /\ GradingGoes("calling", "judging") /\ said' = submission
    /\ UNCHANGED <<spoken, seqMap, inserted, gradeVars, mailVars, viewVars>>

\* Steps 9 to 11: what is not valid fails the attempt.
Accept ==
    /\ GradingGoes("judging", "inserting")
    /\ Validate(Parse(said), seqMap) /\ InsertEvaluation(Parse(said).scores)
    /\ UNCHANGED <<spoken, seqMap, said, inserted, gradeVars, mailVars, viewVars>>

Insertable(row) ==
    /\ row.seq \in 1..spoken /\ row.type \in Types
    /\ \A other \in inserted : other.seq # row.seq \/ other.type # row.type

\* Step 11: one row for each annotation, in the order of the submission.  The
\* table takes one of a type for a message.
InsertAnnotation ==
    LET next == Cardinality(inserted) + 1 IN
    /\ grading = "inserting" /\ next <= Len(said.annotations)
    /\ LET row == Parse(said).annotations[next] IN
       Insertable(row) /\ inserted' = inserted \cup {row}
    /\ UNCHANGED <<spoken, grading, seqMap, said, gradeVars, mailVars, viewVars>>

AnnotationsInserted ==
    /\ GradingGoes("inserting", "inserted") /\ Cardinality(inserted) = Len(said.annotations)
    /\ UNCHANGED <<spoken, seqMap, said, inserted, gradeVars, mailVars, viewVars>>

\* Mutant: the evaluation is written by the pool, before its annotations.
CommitGradeFirst ==
    /\ grading \in {"inserting", "inserted"} /\ LetGo
    /\ grade' = [scores |-> Parse(said).scores, said |-> said]
    /\ notes' = inserted /\ gradeShown' = TRUE
    /\ mailJob' = MailAttempts
    /\ UNCHANGED <<spoken, mailed, viewVars>>

\* Steps 12 and 13: evaluation, annotations, status, mail and the logged call
\* in one commit.
CommitGrade ==
    /\ grading = "inserted" /\ LetGo
    /\ grade' = [scores |-> Parse(said).scores, said |-> said]
    /\ notes' = inserted /\ gradeShown' = TRUE
    /\ mailJob' = MailAttempts
    /\ UNCHANGED <<spoken, mailed, viewVars>>

\* Anything else fails the attempt; nothing of it stays.  River retries, or
\* RetryEvaluation starts over.
GradingFails ==
    /\ grading # "idle" /\ LetGo
    /\ UNCHANGED <<spoken, gradeVars, mailVars, viewVars>>
-----------------------------------------------------------------------------
(***************************************************************************)
(* SendEmailWorker: the mail carries the scores it was rendered with.      *)
(***************************************************************************)
SendEmail ==
    /\ mailJob > 0
    /\ \/ mailJob' = 0 /\ mailed' = mailed \cup {grade.scores}
       \* The provider refuses, or its answer is lost.
       \/ mailJob' = mailJob - 1 /\ mailed' \in {mailed, mailed \cup {grade.scores}}
    /\ UNCHANGED <<spoken, workVars, gradeVars, viewVars>>
-----------------------------------------------------------------------------
(***************************************************************************)
(* GetEvaluation: three statements without a transaction.                  *)
(***************************************************************************)
ViewGoes(from, to) == view = from /\ view' = to

\* What the protocol calls a type; the others are UNSPECIFIED.
AnnotationTypeToProto(type) == IF type \in Types THEN type ELSE "unspecified"

GetSessionForView ==
    /\ ViewGoes("idle", IF gradeShown THEN "reading" ELSE "idle") /\ gradeShown
    /\ graded' = Absent /\ found' = Absent
    /\ UNCHANGED <<spoken, workVars, gradeVars, mailVars>>

GetEvaluationBySession ==
    /\ ViewGoes("reading", IF grade = Absent THEN "idle" ELSE "annotating")
    /\ found' = grade
    /\ UNCHANGED <<spoken, workVars, gradeVars, mailVars, graded>>

GetAnnotationsByEvaluation ==
    /\ ViewGoes("annotating", "idle")
    /\ graded' = [scores |-> found.scores,
                  annotations |-> {[note EXCEPT !.type = AnnotationTypeToProto(@)]
                                      : note \in notes}]
    /\ UNCHANGED <<spoken, workVars, gradeVars, mailVars, found>>
-----------------------------------------------------------------------------
GradingStep ==
    \/ ReadTranscript \/ (\E submission \in Submissions : CallToolAndLog(submission))
    \/ Accept \/ InsertAnnotation \/ AnnotationsInserted \/ CommitGrade \/ GradingFails

GradingNext ==
    \/ Speak \/ EndedOnceMore \/ GradingStep \/ SendEmail
    \/ GetSessionForView \/ GetEvaluationBySession \/ GetAnnotationsByEvaluation

GradingSpec == GradingInit /\ [][GradingNext]_gradingVars
-----------------------------------------------------------------------------
(***************************************************************************)
(* What is shown, and what is mailed, is what the logged call of the LLM   *)
(* said: every score, none below 1 or above 5, every annotation of it, at  *)
(* a message of the transcript and of a type that the client knows.        *)
(* Attempts that failed half way leave nothing of theirs in it.            *)
(***************************************************************************)
GradeIsWhole ==
    /\ graded # Absent =>
          /\ graded.scores = Parse(grade.said).scores
          /\ \A d \in Dimensions : graded.scores[d] \in 1..5
          /\ Cardinality(graded.annotations) = Len(grade.said.annotations)
          /\ \A i \in DOMAIN grade.said.annotations :
                Parse(grade.said).annotations[i] \in graded.annotations
          /\ \A note \in graded.annotations : note.seq \in 1..spoken /\ note.type \in Types
    /\ \A scores \in mailed : scores = Parse(grade.said).scores
=============================================================================
