--------------------------- MODULE QuestionImages ---------------------------
(***************************************************************************)
(* The illustration of a question: the River job GenerateQuestionImage,    *)
(* the periodic SweepMissingImages that queues what is missing, and the    *)
(* object store.                                                           *)
(*                                                                         *)
(* An object is named by its question and its content (Key).  The unique   *)
(* states of the job exclude completed, so that imageJob[q] is the row in  *)
(* a live state, "none" when there is none.                                *)
(***************************************************************************)
EXTENDS Naturals, FiniteSets

CONSTANTS Questions,
          Pictures,         \* what Gemini may draw
          NoPicture,
          ImageAttempts,    \* 3 in GenerateQuestionImageInsertOpts
          MaxErasures       \* bound of the model: operators that null image_url

ASSUME PictureAssumption == NoPicture \notin Pictures
ASSUME ImagesAssumption == ImageAttempts \in Nat \ {0} /\ MaxErasures \in Nat

VARIABLES
    asked,          \* the questions that exist
    imageURL,       \* questions.image_url: a key of the store
    store,          \* the public bucket: the picture under each key
    logged,         \* the picture whose LLM calls are logged with the URL
    imageJob, imageTry, imageWork,  \* the job row and where its execution is
    drawn,          \* the picture in the hands of the execution
    sweepTodo,      \* questions that the running sweep has listed
    erasures

imageJobVars == <<imageJob, imageTry, imageWork, drawn>>
pictureVars  == <<imageURL, store, logged>>
imagesVars   == <<asked, pictureVars, imageJobVars, sweepTodo, erasures>>

\* Content-addressed, so that a regeneration does not overwrite.
Key(q, picture) == <<q, picture>>
Keys == Questions \X Pictures

ImagesInit ==
    /\ asked = {} /\ imageURL = [q \in Questions |-> NoPicture]
    /\ store = [k \in Keys |-> NoPicture] /\ logged = [q \in Questions |-> NoPicture]
    /\ imageJob = [q \in Questions |-> "none"] /\ imageTry = [q \in Questions |-> 0]
    /\ imageWork = [q \in Questions |-> "none"] /\ drawn = [q \in Questions |-> NoPicture]
    /\ sweepTodo = {} /\ erasures = 0
-----------------------------------------------------------------------------
\* GenerateQuestionImageInsertOpts: a duplicate of a live row is skipped.
QueueImage(q) ==
    /\ imageJob' = IF imageJob[q] = "none" THEN [imageJob EXCEPT ![q] = "available"] ELSE imageJob
    /\ imageTry' = IF imageJob[q] = "none" THEN [imageTry EXCEPT ![q] = 0] ELSE imageTry

\* CreateQuestion queues nothing: the sweep will find the question.
CreateQuestion(q) ==
    /\ q \notin asked /\ asked' = asked \cup {q}
    /\ UNCHANGED <<pictureVars, imageJobVars, sweepTodo, erasures>>

\* A question of the coach comes with its job (Coach).
CoachQuestion(q) ==
    /\ q \notin asked /\ asked' = asked \cup {q} /\ QueueImage(q)
    /\ UNCHANGED <<pictureVars, imageWork, drawn, sweepTodo, erasures>>

\* An operator wants a new picture ("nulling image_url and letting the sweep
\* re-queue is sufficient to trigger a regen").
Erase(q) ==
    /\ imageURL[q] # NoPicture /\ erasures < MaxErasures /\ erasures' = erasures + 1
    /\ imageURL' = [imageURL EXCEPT ![q] = NoPicture]
    /\ UNCHANGED <<asked, store, logged, imageJobVars, sweepTodo>>
-----------------------------------------------------------------------------
(***************************************************************************)
(* SweepMissingImagesWorker                                                *)
(***************************************************************************)
ListQuestionsWithoutImages == {q \in asked : imageURL[q] = NoPicture}

BeginSweep ==
    /\ sweepTodo = {} /\ ListQuestionsWithoutImages # {}
    /\ sweepTodo' = ListQuestionsWithoutImages
    /\ UNCHANGED <<asked, pictureVars, imageJobVars, erasures>>

\* One insert for each question listed; its error is logged and passed over.
SweepOne(q) ==
    /\ q \in sweepTodo /\ sweepTodo' = sweepTodo \ {q}
    /\ QueueImage(q) \/ UNCHANGED <<imageJob, imageTry>>
    /\ UNCHANGED <<asked, pictureVars, imageWork, drawn, erasures>>

SweepDies ==
    /\ sweepTodo # {} /\ sweepTodo' = {}
    /\ UNCHANGED <<asked, pictureVars, imageJobVars, erasures>>
-----------------------------------------------------------------------------
(***************************************************************************)
(* GenerateQuestionImageWorker                                             *)
(***************************************************************************)
ImageGoes(q, from, to) == imageWork[q] = from /\ imageWork' = [imageWork EXCEPT ![q] = to]

StartImage(q) ==
    /\ imageJob[q] \in {"available", "retryable"}
    /\ imageJob' = [imageJob EXCEPT ![q] = "running"]
    /\ imageTry' = [imageTry EXCEPT ![q] = @ + 1]
    /\ ImageGoes(q, "none", "checking")
    /\ UNCHANGED <<asked, pictureVars, drawn, sweepTodo, erasures>>

\* Mutant: without step 2.
CheckNoImage(q) ==
    /\ ImageGoes(q, "checking", "drawing")
    /\ UNCHANGED <<asked, pictureVars, imageJob, imageTry, drawn, sweepTodo, erasures>>

\* Steps 1 and 2: skip if the image is set.
CheckImage(q) ==
    /\ ImageGoes(q, "checking", IF imageURL[q] # NoPicture THEN "succeeded" ELSE "drawing")
    /\ UNCHANGED <<asked, pictureVars, imageJob, imageTry, drawn, sweepTodo, erasures>>

\* Steps 3 to 5, GenerateImage.  At the rate limit (429) the job is snoozed:
\* the attempt does not count.
Draw(q, picture) ==
    /\ ImageGoes(q, "drawing", "uploading")
    /\ drawn' = [drawn EXCEPT ![q] = picture]
    /\ UNCHANGED <<asked, pictureVars, imageJob, imageTry, sweepTodo, erasures>>

Snooze(q) ==
    /\ ImageGoes(q, "drawing", "none")
    /\ imageJob' = [imageJob EXCEPT ![q] = "available"]
    /\ imageTry' = [imageTry EXCEPT ![q] = @ - 1]
    /\ UNCHANGED <<asked, pictureVars, drawn, sweepTodo, erasures>>

\* Mutant: the error of closing the writer is ignored.
PutUnclosed(q) ==
    /\ ImageGoes(q, "uploading", "setting")
    /\ store' = [store EXCEPT ![Key(q, drawn[q])] = drawn[q]] \/ store' = store
    /\ UNCHANGED <<asked, imageURL, logged, imageJob, imageTry, drawn, sweepTodo, erasures>>

\* Step 6: Bucket.Put overwrites what is there.
Put(q) ==
    /\ ImageGoes(q, "uploading", "setting")
    /\ store' = [store EXCEPT ![Key(q, drawn[q])] = drawn[q]]
    /\ UNCHANGED <<asked, imageURL, logged, imageJob, imageTry, drawn, sweepTodo, erasures>>

\* Step 7: SetQuestionImageURL and both LLM calls, in one transaction whose
\* answer may be lost.
CommitImage(q) ==
    /\ \E next \in {"succeeded", "failed"} : ImageGoes(q, "setting", next)
    /\ imageURL' = [imageURL EXCEPT ![q] = Key(q, drawn[q])]
    /\ logged' = [logged EXCEPT ![q] = drawn[q]]
    /\ UNCHANGED <<asked, store, imageJob, imageTry, drawn, sweepTodo, erasures>>

ImageFails(q) ==
    /\ imageWork[q] \in {"checking", "drawing", "uploading", "setting"}
    /\ imageWork' = [imageWork EXCEPT ![q] = "failed"]
    /\ UNCHANGED <<asked, pictureVars, imageJob, imageTry, drawn, sweepTodo, erasures>>

\* River: an attempt that failed is retried or discarded; an instance that
\* died is rescued.  A completed row does not count.
FinishImage(q) ==
    /\ \/ ImageGoes(q, "succeeded", "none") /\ imageJob' = [imageJob EXCEPT ![q] = "none"]
       \/ /\ \E from \in {"failed", "dead"} : ImageGoes(q, from, "none")
          /\ imageJob' = [imageJob EXCEPT ![q] = IF imageTry[q] >= ImageAttempts THEN "none"
                                                 ELSE "retryable"]
    /\ drawn' = [drawn EXCEPT ![q] = NoPicture]
    /\ UNCHANGED <<asked, pictureVars, imageTry, sweepTodo, erasures>>

ImageCrash(q) ==
    /\ imageJob[q] = "running" /\ imageWork[q] # "dead"
    /\ imageWork' = [imageWork EXCEPT ![q] = "dead"]
    /\ UNCHANGED <<asked, pictureVars, imageJob, imageTry, drawn, sweepTodo, erasures>>
-----------------------------------------------------------------------------
ImageStep(q) ==
    \/ StartImage(q) \/ CheckImage(q) \/ (\E picture \in Pictures : Draw(q, picture))
    \/ Snooze(q) \/ Put(q) \/ CommitImage(q) \/ ImageFails(q) \/ FinishImage(q) \/ ImageCrash(q)

ImagesNext ==
    \/ \E q \in Questions : CreateQuestion(q) \/ CoachQuestion(q) \/ Erase(q)
                            \/ SweepOne(q) \/ ImageStep(q)
    \/ BeginSweep \/ SweepDies

ImagesSpec == ImagesInit /\ [][ImagesNext]_imagesVars
-----------------------------------------------------------------------------
(***************************************************************************)
(* What a question shows is in the store, and it is the picture whose      *)
(* calls are logged with it - although attempts upload and then fail, lose *)
(* their answers, and pictures are erased and drawn again                  *)
(* ("content-addressed so regenerations don't overwrite").                 *)
(***************************************************************************)
PictureMatchesLog ==
    \A q \in Questions : imageURL[q] # NoPicture => store[imageURL[q]] = logged[q]

(***************************************************************************)
(* A picture that is shown stays until an operator erases it: sweeps,      *)
(* retries and lost answers never replace it ("Idempotent: skip if image   *)
(* already set").                                                          *)
(***************************************************************************)
PictureStays ==
    [][\A q \in Questions :
          imageURL[q] # NoPicture => imageURL'[q] = imageURL[q] \/ erasures' > erasures]_imagesVars
=============================================================================
