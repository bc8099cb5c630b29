# drill: a TLA+ model of the interview service

drill is a web service in which a candidate holds a system design interview
with an LLM interviewer. One Go binary serves ConnectRPC, webhooks and the
React client; Postgres holds all shared state; River, a job queue kept in the
same Postgres, runs what happens after an interview. Several instances of the
binary run at once, so every rule that matters is kept by SQL statements,
transactions and unique jobs rather than by locks in memory. This directory
models those rules, checks them with TLC on small instances and proves the
safety properties with TLAPS for all instances.

Paths below are relative to `src/`. `PROJECT.json` maps every definition of
the modules to the lines it stands for.

## 1. The system

| component | state | operations | modules |
|---|---|---|---|
| Turn execution (`internal/backend/turn.go`, `internal/rpc/interview`) | the session's status and `generating_since`, its messages, the recordings | `SubmitTurn`: acquire, load, upload, transcribe, persist, stream, release; `CleanupStaleGenerating` | `TurnExecution`, `Conversation` |
| Session lifecycle (`internal/backend/session.go`, `internal/jobs/cleanup*.go`) | the `interview_sessions` row | `CreateSession`, `EndSession`, `CancelSession`, `FailSession`, the abandoned-session job, archiving, lists | `TurnExecution`, `EvaluationPipeline`, `MinuteLedger`, `Listings`, each from its side |
| Question bank (`internal/backend/question.go`, `internal/rpc/question`) | `questions` | `CreateQuestion`, `ListQuestions` | `Listings`, `QuestionImages` |
| Evaluation pipeline (`internal/jobs/evaluate.go`, `error_handler.go`, `internal/backend/evaluation.go`) | status, `river_job`, `evaluations`, `annotations` | the job's attempts, the ErrorHandler, `RetryEvaluation`, `GetEvaluation` | `EvaluationPipeline`, `Grading` |
| Minute ledger (`sql/queries/grants.sql`, `internal/billing`) | `grants`, `ledger_entries` | `ReserveMinutes`, `RefundSessionMinutes`, `FullRefundSessionMinutes`, the limits of `CreateSession` | `MinuteLedger` |
| Educator (`internal/backend/educator.go`, `internal/jobs/educator.go`) | `educator_analyses`, `free_full_educators_used` | request with free taste, job, ErrorHandler, what is shown | `Educator` |
| Coach (`internal/backend/coach.go`, `internal/jobs/coach.go`) | `coach_analyses`, suggested questions | request, unique job, `GetCoachAnalysis` | `Coach` |
| Speech (`internal/interview/observer`, `internal/rpc/interview/sink.go`) | the text buffer, a bounded channel, a synthesis goroutine | `OnToken`, `OnDone`, `OnError`, `Close`, the storing of the reply | `SentenceBuffer`, `ReplyStream` |
| Subscriptions and checkout (`internal/backend/billing.go`, `internal/handler/stripe.go`) | `plan`, `stripe_customer_id`, grants of events | `CreateCheckoutSession`, portal, four webhooks | `Subscriptions` |
| Accounts (`internal/backend/auth.go`, `oauth.go`, `user.go`) | `users`, `auth_sessions`, `oauth_accounts` | signup, both logins, logout, deletion, reactivation, reset, verification, profile | `Accounts` |
| Question images (`internal/jobs/generate_image.go`, `sweep_images.go`) | `image_url`, the public bucket | sweep, job, `CreateQuestion` | `QuestionImages` |
| Interview client (`web/src/hooks/use-interview.ts`) | the hook's state, the messages shown, the streams it reads | load, poll, opening turn, text, voice, end, cancel, the events of a stream | `InterviewClient` |
| Server process (`cmd/drill/main.go`, `internal/backend/backend.go`) | pool, River, listener, what is under way | start, failed start, shutdown | `Instance` |
| Email delivery | the job `send_email` | attempts, lost answers | partly, in `Grading` and `Accounts` |
| LLM, STT, TTS and image clients; storage; HTTP surface; prompts and parsers; events and telemetry; generated code; commands; sound in the browser | | | see section 7 |

How they meet: `CreateSession` reserves minutes and opens a session; turns
move it between `active` and `generating`; each streams its reply, which is
spoken meanwhile, to a page that follows along; `EndSession`, `CancelSession`
or the abandoned-session job end the session, settle the minutes and, if there
was an interview, insert the evaluation job in the same transaction; the job
moves the session to `evaluating` and `reviewed` and mails the candidate;
educator and coach content may be asked for then; the coach suggests a
question, whose image is queued with it. The webhooks of Stripe create grants
and set the plan.

What is hard here, and where the properties are aimed (`PROJECT.json` lists
the hazards with their lines):

- requests of one session on different instances, with nothing between them
  but the status column; a turn that outlives the recovery of dead turns;
- an instance that dies between two statements, a release that fails, a commit
  or an upload whose answer is lost;
- calls that end a session repeatedly, late or crossing each other;
- unique jobs, whose insert may silently do nothing, and the ErrorHandler that
  runs before River records the outcome it reports;
- sums of minutes over several grants, with rounding, minimum charges, refunds
  that may not exceed what was reserved, and idempotency of refunds;
- checks under READ COMMITTED that lock nothing, and rows inserted between a
  read and the statement that relies on it;
- webhooks that come late, twice and in the wrong order;
- two goroutines of one turn, a channel between them that fills up, and a
  Close that waits;
- a page that learns of the session by a stream that may break, a poll that
  reads two tables at two moments, and answers that come after it moved on;
- page tokens that are offsets into a changing result.

## 2. The modules

One SQL statement, or one transaction that takes its row locks with its first
write, is one action; whatever happens between two statements of a goroutine
may be anything other goroutines do. Each module's header says how it counts
time and what bounds it. Definitions keep the names of the functions or
queries they stand for. Definitions marked "Mutant" model plausible bugs; they
are used by no specification and serve to show that every property can fail.

**`TurnExecution`** is one session while it is conducted. `pc[t]` is where the
SubmitTurn request `t` is; `messages` is the transcript. `AcquireTurn` is the
conditional UPDATE to `generating`; `LoadTranscript` and `ReadMaxSeq` are the
two reads of ExecuteTurn's step 3, with everything that may happen between
them, and the dispatch to the opening question, the resumption after a crash,
text, voice or nothing; `Insert` is an INSERT under `UNIQUE (session_id,
seq)`; `Release` is the UPDATE guarded by `status = 'generating'`, and
`ReleaseFails` the same, lost. The upload runs beside the turn. `Crash` stops a
turn without its deferred calls. `CleanupStaleGenerating` and
`CleanupAbandonedSession` are the River jobs; the other actions are the calls
that end a session: EndSession and CancelSession wait until no turn is
generating, recover a stale one themselves, count the interviewer's messages
and commit whatever the status is by then. Nothing outside the tests calls
FailSession; it is modelled because it is there.

**`Conversation`** is what a session promises a reader of its transcript: one
turn at a time, begun only while the session is open; messages only within a
turn, numbered without gaps, nobody speaking twice running; a session closes
once. `TurnExecution` implements it with `open <- status \notin Ended`,
`busy <-` some request inside ExecuteTurn, `said <-` the messages without
their turns.

**`EvaluationPipeline`** is one session after its interview: how far that got is
`talk`, constant in a behaviour. The rows of `river_job` for the session
are `jobState`, `attempt` and, for the execution of a row, `work`. River is
external and modelled from how the code uses it: `UniqueOpts{ByArgs: true}`
makes an insert a no-op while a row is available, retryable, running *or
completed*; the ErrorHandler runs before the outcome is recorded; a job whose
instance died is rescued much later without asking the ErrorHandler; finished
rows are deleted after a day.

**`Grading`** takes one execution of that job apart: what the LLM hands to its
tool (JSON numbers, counted in halves), what `Parse` cuts and `Validate`
refuses, the rows inserted one by one in a transaction that may fail between
any two, the mail queued with the commit and sent at least once, and a
`GetEvaluation` that reads session, evaluation and annotations in three
statements.

**`MinuteLedger`** is one user's grants and sessions. A `SumFunction` over
`remaining` is the balance; `Walks` are the distributions the window functions
of `ReserveMinutes` and the refunds can produce, as a set because the reserve
entries of one statement share one timestamp and the refund's order over them
is the database's choice. `Creditable` is the guard that silently drops a
credit beyond `initial_minutes`. `CheckLimits` and `CreateSession` are the two
halves of CreateSession: reads that lock nothing, then the reservation, which
locks the grants and looks again. Ledger entries are kept as sums per session,
grant and reason.

**`Educator`** is one user's educator content: the statements of
RequestEducatorAnalysis, the job and the ErrorHandler. As
`EvaluationPipeline`'s theorems show that unique rows stay unique, `job[s]` is
simply the state of the one row that can block an insert. **`Coach`** is the
same kind of model for the coach: a request compares the reviewed sessions
with those of the latest analysis before it inserts, and the worker writes the
analysis, the question it suggests and that question's image job in the
transaction it opened before it called the LLM.

**`SentenceBuffer`** is the text of a reply, of three kinds of characters, in
tokens of one to three of them, and the sentences `OnToken` and `OnDone` cut
out of it, beside a declarative definition of what the sentences of a text
are. **`ReplyStream`** is the tail of a turn: the handler's goroutine with its
fan-out of observers, the channel `sentCh` with its non-blocking send, the
synthesis goroutine, the error path, and the transaction that stores the
reply and logs the LLM call: `written` are the rows it has inserted, `stored`
those that are committed. An SQL error aborts the transaction, an error of
`json.Marshal` between its statements does not. A write to the client's stream
has a beginning and an end, so that two of them can overlap.

**`Accounts`** has one row per normalised address, because addresses are UNIQUE
and no row is ever removed. RPCs are goroutines that stop between statements;
`lock` says who holds a row FOR UPDATE or has inserted it without having
committed. The OAuth login decides its path (existing, linked, reactivated,
new) by reads of which only one locks.

**`Subscriptions`** has checkouts, whose four steps lie outside any
transaction, and Stripe: subscriptions that become active, lapse and are
cancelled, each step sending events that are delivered in any order until they
are answered with 200, and at times once more. PostStripeWebhook either handles
an event (`AcknowledgeEvent`) or, without a webhook secret or a readable body,
answers 200 and forgets it (`SwallowEvent`); `unheard` are the events it has
only swallowed. `Leave` and `ComeBack` are the deletion
and the reactivation of an account as billing sees them.

**`QuestionImages`** has one live job row per question, attempts that draw,
upload and commit separately, the sweep, and operators who null a URL so that
it is drawn again. The store is addressed by content.

**`Listings`** has the rows of the two lists in the order of `created_at`, the
start of their transaction, which may commit after a later one. A reader
follows page tokens, which are offsets into what the SELECT returns by then.

**`InterviewClient`** is the hook `useInterview` and as much of the server as it
can tell: the stages of a turn, a queue of events per stream, a
GetSessionState that reads status and messages at two moments, an
`EndSession` or `CancelSession` under way, which waits for the turn and then
commits, or fails at either. Streams break, pages are loaded again, instances
die. A turn that resumes an unanswered message skips its own input and sends no
event about it (`SkipInput`); `dropped` remembers where the page shows that
text. `mishap` remembers what else a page has been through (`Mishaps`).

**`Instance`** is one process: the steps of its start, each of which may fail,
and the shutdown, with requests, jobs and the goroutines that requests leave
behind, all of which use the pool a statement at a time.

`*_proofs` and `FiniteSums` hold the proofs. `MCTurnExecution`, `MCEvaluationPipeline`,
`MCMinuteLedger`, `MCEducator`, `MCReplyStream` and `MCInterviewClient` name the
model values of runs about a single component.

**`MCProgress`** has the two components with something that must come to an
end, the pipeline and the reply, and **`MCServices`** eleven others. The
components of one module share no state that a step of one writes and a step of
another reads, so running them side by side would only multiply their states; a
behaviour therefore picks one component (`focus`) at the start and is a
behaviour of that one, the others staying in their initial state. One focus of
`MCProgress` is `Calm`, the pipeline without retries and faults. A property of
these runs is one of its component: for the components out of focus it holds
because they do not move, so what it says is said by the behaviours in focus.

Where components do interact, the module that depends on the other models
what it sees of it: the stages of a turn in `InterviewClient`, the reviewed
sessions in `Educator` and `Coach`, `CoachQuestion` in `QuestionImages`, the
calls that end a session in `TurnExecution`, `EvaluationPipeline` and
`MinuteLedger`, which see its transcript, its job and its minutes.

## 3. What TLC checks

| run | instance | shows |
|---|---|---|
| `turn_safety` | 3 turns, 1 call that ends the session, turns end within 5 minutes, symmetry | `OneTurnAtATime`, `RolesAlternate`, `DoneMeansAnswered`, `EvaluatedMeansAnswered`, `CleanupSparesRunningTurns`, `EndedIsFinal`, `ImplementsConversation` |
| `turn_slow` | 2 turns, 1 call, turns may take longer, fairness | `TranscriptContiguous`, `GenerationEnds`, `SessionEnds` |
| `turn_audio` | 2 turns, violated | `StoredAudioIsLinked` |
| `progress` | the pipeline and the reply of `MCProgress`, fairness | the table below |
| `pipeline_retry_lost` | 1 retry, no faults, fairness, violated | `EvaluatingEnds` |
| `pipeline_re_ended` | 1 call, no faults, violated | `CompletedHasJob` |
| `ledger_limit_generating` | 2 sessions under a limit of 1, violated | `AdmittedBelowLimit` |
| `educator_taste` | 2 requests, 1 session, 5 attempts, violated | `TasteShowsAll` |
| `reply_writes` | 2 sentences, a channel of 1, violated | `WritesExclude` |
| `reply_logging` | 1 sentence, violated | `LoggingIsNonFatal` |
| `client_end` | 2 turns, the page loaded once, violated | `EndedIsShown` |
| `services` | the eleven components of `MCServices` | the table below |

What `progress` and `services` check, and the instance of each focus, those of
`progress` first:

| focus | instance | properties |
|---|---|---|
| pipeline | 2 calls, 2 retries, 3 rows, 4 attempts, all faults | `OneEvaluator`, `NeverJudgedAgain`, `FailedCanBeRetried` |
| calm | the same without retries and faults, fairness | `CalmEvaluatingEnds`, and the three of the pipeline |
| reply | 5 sentences, a channel of 2, with and without speech, fairness | `HeardOrReported`, `QuietAfterReturn`, `DoneMeansStored`, `ReplyReturns` |
| ledger | a trial of 1 minute and a paid grant of 1 or 2, 2 sessions of 1 or 3 minutes, one of them talked in, ended or cancelled, 1 FailSession, a limit of 1, clock to 2, no grace | `TypeOK`, `LedgerExplainsBalance`, `FairSettlement`, `SettledOnce` |
| educator | 2 sessions, 2 requests, 1 taste, 2 attempts | `TastesBounded`, `NeverGeneratedOver` |
| accounts | 2 addresses, 1 identity, 3 calls of any kind | `AllOrNothing`, `IdentityStays`, `FirstLoginUsable` |
| subscriptions | 2 users, 2 checkouts, 3 events, each delivered any number of times in any order | `CreditedOnce`, `PaidIsCredited`, `ReplayKeepsPlan`, `PlanFollowsSubscription` |
| coach | 2 interviews, 2 requests, 2 attempts, 2 analyses | `SuggestionComplete`, `AcceptedIsAnalysed` |
| images | 1 question, 2 pictures, 3 attempts, 2 erasures, sweeps without bound | `PictureMatchesLog`, `PictureStays` |
| sentences | texts of up to 7 characters in any tokens of 1 to 3 | `ChoppingIsInvisible` |
| grading | 2 scores of three values, one of them out of range, 2 annotations at 3 raw positions, 2 messages, 2 attempts of the mail | `GradeIsWhole` |
| listings | 2 users, one of whom reads, 2 seed questions, 3 further rows, pages of 1 and 2 | `ListingComplete` |
| client | 2 turns, one of them voice, the page loaded twice | `InSync` |
| instance | 3 tasks of any kind | `ShutdownInOrder` |

*Why these bounds.* A turn that goes wrong needs a second one to suffer, and
the resumption of a resumed turn needs a third; all numbers of seq beyond two
messages per turn behave alike. What ends a session is one call or one job at
a time in `TurnExecution`, and two calls crossing are in the pipeline and
ledger instances. Two job rows would suffice for one insert too many; the
third leaves room for a row after a discarded one. A 3-minute session takes
both grants and a 1-minute session is at the minimum charge. Three calls are
what a deletion between two statements of a login takes, or two logins that
register one address and a third that meets the result.
Two checkouts are two customers of one user, or one each; three events
are a subscription, its invoice and one that overtakes it. Five sentences fill
a channel of two while one is being spoken, so that two more are dropped; a
boundary of the text takes two characters, and 7 of them hold three
boundaries, in every way of chopping. Three rows and pages of one and two put
rows before, at and behind an offset. The page is loaded a second time under a
turn of the first page. A third task sees a request, a job and a goroutine left
behind go on at once. Raw scores 1, 7 and 11 stand for 0.5, 3.5 and 5.5: below
the range once cut to 0, cut to 3, and above the range before it is cut but not
after.

The bounds are constants and are named as such where they are declared;
attempts have the bound the code gives them, sequence numbers that of the
turns.

*Deadlock* is not checked: users may stop submitting, and every request, row
and minute of an instance may be used up. What must not stop is stated as
liveness instead.

*Fairness.* `FairSpec` of `TurnExecution` assumes weak fairness of every live
request (a goroutine that is not killed goes on; stages either proceed or fail,
and any may crash), of the calls that end a session once they are made, of the
clock, and of the two periodic jobs, which River inserts every 60 seconds and 3
minutes and which any living instance runs. It assumes nothing of users: no
turn need be submitted, no EndSession called. `FairSpec` of
`EvaluationPipeline` assumes that River runs what is queued, that an attempt
ends (the code gives it a timeout) and that its outcome is recorded;
`ProgressSpec` assumes the same of the calm pipeline. For `ReplyReturns`,
`ProgressSpec` and `StreamFairSpec` assume that both goroutines of a reply run,
that a write to the stream ends, at the latest when the client is gone, that a
synthesis ends with the timeout of its sentence, and, the one strong fairness,
that the LLM's stream of tokens ends or fails, because a reply has at most
`max_tokens` tokens. The last would not be enough for a turn to end *in time*;
see the next paragraph.

*The five minutes.* `SlowTurns = FALSE` says that a turn that is still running
has not been generating for five minutes. The code does not enforce that: the
LLM stream of a turn has no deadline (`turn.go:278-281, 350-382`), while
`CleanupStaleGenerating` and `waitForGeneration` set a session back to
`active` five minutes after its turn began. With `SlowTurns = TRUE` a second
turn can run beside the first, `OneTurnAtATime`, `RolesAlternate` and
`Conversation` no longer hold, and what is left is what `turn_slow` checks:
the UNIQUE constraint keeps the numbering, and the session still ends. (That
guarded UPDATEs keep ended sessions ended is proved for slow turns too.) This
is the one assumption the turn properties rest on.

## 4. What TLAPS proves

Every invariant and every action property of the runs that pass is a theorem,
and so is the refinement of `Conversation`; what TLC shows on a small instance
holds for any number of requests, sessions, grants, rows, addresses, events,
sentences and attempts. The theorems assume only the named ASSUMEs of the
modules, which TLC evaluates on each instance: that bounds are numbers, that
unset values are none of the set ones, and, where minutes are added up, that
the rows of a table are finitely many (`RowsAssumption`). The theorems about
turns have "if turns end within five minutes" as a hypothesis, `~SlowTurns`;
section 3 says what that is about.

Few of these properties are inductive. Each proof states the invariant that
is, says in words what it adds, shows that the initial states have it and that
every action keeps it, one step per action, and concludes. TLC finds each
inductive invariant to hold on the instances of section 3.

- `TurnExecution_proofs`. `TypeCorrect`. `TranscriptIsContiguous`: contiguity
  is inductive once it is strengthened by `SeqIsTaken`: a turn that is about to
  insert holds in `seq` either 0 or a number some message has, because it read
  the maximum and no message is ever deleted. So an insert either meets a taken
  number and is refused or adds the number after one that is taken.
  `EndedStaysEnded`. `TurnsExcludeEachOther` rests on `LockHeld`: at most one
  turn runs; while one runs the session is not `active`; and a lock that is
  both `generating` and `stale` has no running turn. Hence neither recovery nor
  acquisition can happen beside a running turn, nor the abandoned-session job
  (`CleanupWaits`). `NobodySpeaksTwice` needs what the one running turn knows
  (`Knows`): what it has seen is the last message, a turn about to persist the
  candidate's answer follows the interviewer, one about to reply follows the
  candidate; that nobody else inserts meanwhile is `LockHeld`.
  `DoneTurnsAnswered` adds that the reply of a turn stays.
  `EvaluatedSessionsAnswered` is why a count read long before the commit is
  enough: two messages of the interviewer have one of the candidate between
  them, and messages only come. `IsAConversation` is the refinement: with the
  invariants above every action maps to a step of `Conversation` or a stutter
  (`AcquireTurn` to BeginTurn, the two inserts to Say, release and crash to
  EndTurn, every ending to Close).
- `EvaluationPipeline_proofs`: `TypesAreKept`, `EvaluatorsExcludeEachOther`,
  `JudgedOnce`, `RetryIsAccepted`, from `IInv`: only one row is in a unique
  state (`OneUniqueRow`); what executes is a running row, hence that one
  (`WorkIsRunning`); an execution past its idempotency check found no
  evaluation and only it can store one (`NothingJudgedYet`); a session with
  nothing to judge has no rows (`HadInterview`); while a session is shown as
  failed, a row that could block a retry is in the window between the
  ErrorHandler and River's record (`GivenUp`).
- `FiniteSums`: what the ledger's proofs need of `SumFunction`, for any finite
  set. A fold is defined by CHOOSE over functions that iterate, and the provers
  have no induction over data; the lemmas go by least counterexamples in the
  well-founded order of the natural numbers. `SumChanges` says what a change of
  one entry does to a sum, `SumByParts` how sums add, `SumRenamed` that the sum
  of what a bijection relates is the same.
- `MinuteLedger_proofs`. `GrantsInBounds`: no grant is overdrawn or exceeds
  its initial minutes, whatever is reserved, refunded, swept or failed in any
  order, the double refunds of FailSession included; `TypeOK` is inductive.
  `LedgerIsAudit`: every action moves the same minutes on a grant and in one
  entry of one session, or a grant begins (`StepMoves`); that needs
  `ReservedOnCreate` and `RefundsWithinReserve`: nothing is reserved for a session
  before its row is, the reservation is the duration in full, and no grant gets
  back more than it gave. `SettlementsAreFair` says what a session costs however
  the walks spread reservation and refund over the grants: since nothing was
  refunded of it before, every credit of the walk fits (`CreditFits`), none is
  dropped, and the sum of the walk is what was to be refunded.
  `SettlementsAreFinal` needs `NothingLeftToRefund`: the guard of a repeated
  refund is that refund rows exist, so a session that was settled without any
  must have lasted so long that a second settlement has nothing to give back.
- `Jobs_proofs`, the content that jobs make. Educator: `EducatorTypes`;
  `TastesAreBounded`, where the inductive part is that the requests that went
  on after a taste are at most as many as the user's row counts;
  `NeverGeneratesOver`, where it is that an execution past the check found
  neither content nor failure. Coach: `SuggestionsAreComplete`,
  `AcceptedAreAnalysed`, inductive with `HopesKept`: what an accepted request
  may count on is still to be read by the job, is what the execution has read,
  or is covered by an analysis. Images: `PicturesMatch`, `PicturesStay`. The
  store is addressed by content (`StoreIsAddressed`), an execution past its
  check works for a question that shows nothing (`WorkInOrder`), because a
  question has one live job, and what is shown is the object of the logged
  picture (`ShownIsLogged`). Grading: `GradesAreWhole`. The rows of an
  execution that is not committed are the first ones of its submission
  (`AttemptInOrder`), as many as were inserted, because a second row for the
  same message and type is refused; those of the evaluation are all of its
  submission (`GradeFollowsCall`); mails and views are copies of it
  (`CopiesFollowGrade`), as no evaluation is written twice.
- `Users_proofs`. Accounts: `AccountTypes`, `AccountsAreComplete`,
  `IdentitiesStay`, `FirstLoginsUsable`. The invariant adds to `AllOrNothing`
  that a call past its first statement is about an account that exists
  (`CallsInOrder`), which stays so because no row is removed, and that whoever
  inserts a row, or has found it FOR UPDATE, holds its lock (`LocksHeld`), so
  that no other signup inserts it and no deletion marks it before the commit.
  Subscriptions: `SubscriptionTypes`, `GrantsAreUnique`, `PaymentsAreCredited`,
  `PlansSurviveReplays`. What `PaymentsAreCredited` says is about events that
  were handled; those that were only swallowed it names as lost. A grant finds
  its payer because a stored customer was created by its user
  (`CustomersOwned`), a checkout that is open has billed one
  (`CheckoutInOrder`), which is the stored one unless it was overwritten
  (`StoredOrReplaced`). `PlansFollow` joins two histories: Stripe's last event
  about a subscription says what Stripe knows (`LastEventIsTrue`), and the plan
  is what the last of the events handled so far says (`PlanIsLastHandled`). An
  event that overtakes makes its customer `late`, and when all are handled the
  two are the same event.
- `Speech_proofs`. The reply: `StreamTypes`, `DoneRepliesStored`,
  `ReturnsQuietly`, `RepliesAreHeard`. Every sentence that was cut is in the
  channel, in the hands of the synthesis, dropped with the error that is being
  written, told, or lost to a cancellation (`Accounted`); the loop ends
  uncancelled only when the channel is closed and empty (`LoopInPlace`); the
  handler goes on only when the loop has ended, so that when the reply is
  stored only "told" is left (`HeardBeforeStored`). `OneVerdict` follows the
  verdict from the write that tells it. The commit is reached only by a
  transaction that has inserted the reply and its call (`StoredWithTheCall`),
  because an SQL error ends in a transaction that cannot be committed. The
  buffer: `ChoppingNeverShows`. The buffer is the text after the last cut,
  which is the boundary with as many boundaries up to it as there are sentences
  (`BufferInStep`); no boundary straddles a cut (`EndsAfterBase`), because a
  cut ends with white space and a boundary begins with a stop. One that
  straddles two tokens is seen because the buffer is searched from its start.
- `Serving_proofs`. The page: `PagesInSync`. A page has at most one stream, and
  at each stage of its turn the events under way are those that make it show
  what the transcript holds by then, or it is doomed to report a failure
  (`InStep`, `Doomed`). "Shows" is up to the one text the server has dropped,
  and there is no second one: it was dropped because an answer had no reply,
  and when the page takes input again that answer has one (`Shown`). A turn
  that may still write holds the status (`StatusIsHeld`), so that a page that
  read another status reads a transcript nobody is extending (`LoadInOrder`).
  The lists: `ListsAreComplete`. What is owed to the reader has been shown or
  is at a place behind the token (`PagesReach`). Rows that are inserted or
  committed late only push places back in the sessions, which are newest first,
  and the questions that are owed keep or raise theirs (`PlacesGrow`). The
  process: `ShutsDownInOrder`, from how far each part is at each step of the
  start and the shutdown (`PoolInOrder`, `RiverInOrder`, `HttpInOrder`) and
  what still runs then (`TasksInOrder`).

Only model-checked: what holds under fairness (`GenerationEnds`, `SessionEnds`,
`CalmEvaluatingEnds`, `ReplyReturns`), which is out of the prover's reach, and the
properties of section 5, which do not hold.

## 5. What disagrees with the code's own words

Each is a run that TLC ends with a counterexample; `PROJECT.json` quotes the
words.

- *Recordings are lost* (`turn_audio`). The upload starts before the message
  it belongs to is inserted; if it finishes first, `SetAudioURL` updates no row.
- *A retry can be swallowed* (`pipeline_retry_lost`). `evaluation_failed` is
  visible while River still holds the job's row; a RetryEvaluation in that
  window sets `evaluating` and inserts nothing. The ErrorHandler's single
  UPDATE failing leaves the same state; so can the retry of educator content.
- *An evaluated session loses its evaluation* (`pipeline_re_ended`). EndSession
  once more sets `completed`, and the completed job's row blocks another.
- *The session limit does not count turns* (`ledger_limit_generating`). A
  session that is `generating` is not active, so a second one is admitted.
- *A free taste is never shown* (`educator_taste`). Asking for it uses it up,
  and the answer is then shown as an excerpt.
- *A log entry takes the reply with it* (`reply_logging`). An error of
  `CloseWithTx` is called non-fatal, "we still persist the message"
  (`session.go:280`), and is only logged; but its inserts are statements of the
  transaction that holds the message, which Postgres aborts when one fails. The
  commit then fails, the reply is lost and the candidate told so.
  `DoneMeansStored` is about what the code does: no stored reply lacks its row in
  `llm_calls`, at this price.
- *Two goroutines send on one stream* (`reply_writes`). The observer's contract
  asks sinks to be safe for concurrent calls; the sink of the RPC is not.
- *The page comes back after the end* (`client_end`). Events of the turn under
  way overwrite the "ended" that was set when EndSession was called.

## 6. Further observations

Seen while modelling; they have no run of their own.

*Sessions and evaluation.* EndSession's turn count is read before its
transaction and misses a turn that starts in between. CreateSession's count of
sessions locks nothing (`session.go:67`), so two calls can both pass under a
limit of one. FullRefundSessionMinutes looks for `session_refund` while
FailSession writes `error_refund`, so two FailSession calls refund twice
(nothing calls it today). A partial refund may credit the first-debited grant
first. A session cancelled while its evaluation runs is evaluated all the same.

*Usage.* The comment on GetUsage speaks of snapshot consistency
(`billing.go:64-66`), but its transaction is READ COMMITTED: each of its three
statements sees what has been committed by then. `CheckLimits` likewise reads
balance and sessions at one moment, which is the case where nothing commits
between.

*Educator and coach.* A request consumes the taste before it is known whether
anything will be generated (`educator.go:124`): content that exists, or a
request that fails after it, costs the taste. A retry writes `generating`
whatever the row has become since it was read (`educator.go:141`); beside a job
row that has completed meanwhile nothing is inserted, and the row stays
`generating`. The scores in the educator's prompt are written out of 4 although
they go to 5. The rationale of a suggested question is cut after 500 bytes
(`jobs/coach.go:124-127`), which may split a character.

*Billing.* `customer.subscription.deleted` sets the plan to free although the
customer may have another subscription (`billing.go:394`), and
`customer.subscription.updated` takes every status but `past_due`, `canceled`
and `unpaid` for a paying one (`billing.go:422`); the design says that any
active subscription means pro. `Subscriptions` has one subscription per
checkout, and `PlanFollowsSubscription` is about users who have one. The events
of a customer that a racing checkout has overwritten match no user and are
acknowledged: `PaidIsCredited` names that exception and the one of deleted
accounts. It also names the payments that are lost on purpose: an instance
without a webhook secret, or one that cannot read the body, answers 200 and
handles nothing (`handler/stripe.go:15-19, 24-36`), which
`TestStripeWebhook_MissingSecret` requires and which tells Stripe not to come
again. A body of more than 64 KiB is cut, its signature no longer verifies, and
the answer is 400.

*Accounts.* A password reset changes the password and deletes the sessions in
two statements without a transaction (`auth.go:388`); the old sessions survive a
failure in between. A deletion ends the sessions it sees; a login whose checks
came before it may open one afterwards, which AuthenticateSession refuses, since
it looks at `deleted_at`.

*The page.* If the stream of the opening turn breaks, the page stays
"streaming" although the comment says "Log but don't block"
(`use-interview.ts:244-246`). `streamingTextRef` is not cleared on an error, so
the next reply begins with the beginning of the last. The input is enabled
during the opening turn, and a text that is refused stays in the chat. When an
answer is left without its reply, after a crash or a failed turn, the server
resumes that turn and drops the next text silently (`turn.go:131-152`), while
the page goes on showing it. A failed load leaves the page "connecting".
`knownMessageCount` is always 0. A TTS error sets the page to "waiting" in the
middle of the stream. The Cancel dialog says that one can return to the session
later, but cancelling is for good. `InSync` therefore allows for one text that
was dropped, and excepts pages that, since they were loaded, have had a call or
a stream fail, took input before the opening question was there, or saw a call
of the page before begin a turn when they had already read the status.

*Lists.* The seed questions share one `created_at`, so that their order may
change between two pages; `ListingComplete` excepts them. The pages of the
client read only the first 50 rows. The session service has no name for
`generating` and answers "unspecified", which Home does not count as active.

*The process.* The shutdown waits for requests and jobs and not for the uploads
and session touches that requests leave behind; they may be cut short. A start
that fails half way does not close the storage client.

## 7. What is not modelled, and why

- *LLM, STT, TTS and image clients, storage, the email provider.* Calls over
  HTTP that answer, fail or take long, which is how the modules that use them
  see them. Prices, token counts and retries inside a client are left out.
- *Prompts and parsers*, except `Parse` and `Validate` of an evaluation: the
  text of a prompt decides nothing here, and a parser that refuses is a failed
  attempt of the job.
- *The HTTP surface*: cookies, headers, static files, health checks, error
  pages. Stateless per request.
- *Sound in the browser* (`web/src/audio`): scheduling of clips and
  MediaRecorder, over browser APIs. The pages that only show what they load.
- *Events and telemetry*: written about what has been committed.
- *Generated code*: `internal/pb` and `internal/db` are about half of the lines
  of the implementation. The SQL in `internal/db` is what the modules translate,
  statement by statement; `internal/pb` is accessors and descriptors without a
  behaviour of its own.
- *Commands*: `drillctl`, the scripts and the reading of the environment keep
  no state.
- *Within the modelled parts*: wording, audio bytes, SSE framing, logging; Admin
  RPCs; the expiry of paid grants (only the trial expires in `MinuteLedger`);
  changes of plan under `MinuteLedger`, `Educator` and `Coach`, where limits are
  constants or inputs; several subscriptions of one checkout; page tokens that
  are not offsets the server has handed out; the turn that outlives the cleanup
  of its status, in `InterviewClient` (it is in `TurnExecution`).

## 8. What could be added

The composition of a session seen by turns, pipeline and ledger at once (each
module's calls that end a session are one call); a module for the queue of
clips in the browser's player; an abstract account of minutes, of which
`MinuteLedger` would be an implementation, as `TurnExecution` is one of
`Conversation`.
