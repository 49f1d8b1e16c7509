# A TLA+ verification of the LiveKit interview worker

The repository is a worker that holds AI voice interviews in LiveKit rooms. A
parent process (`src/main.ts`) registers with LiveKit, a child process per
interview (`src/agent.ts`) runs one job, and Redis holds what must outlive the
child: the job record, the interview state and the transcript. This directory
models the parts whose correctness depends on the order in which things happen,
checks them with TLC and proves theorems about the core with TLAPS. Paths below
are relative to the repository's own `src/` unless they say otherwise.

Contents: 1 inventory, 2 modules, 3 how code becomes actions, 4 runs and bounds,
5 fairness, 6 proofs, 7 disagreements found, 8 what is not modelled, 9 plan,
10 how to run.

## 1. Inventory

| Component | State it keeps | Operations | Talks to |
|---|---|---|---|
| Interview job, `agent.ts` `entry` | where it is in try/catch/finally, `finalEvent`, `activeSession`, `recordingError`, the chains `trackerWrites` and `writeChain`, the in-memory `state` | `updateJob`, `enqueueWrite`, `persistTurn`, the recording task, `onReconnect`, `buildSeed`, `createSession`, teardown | all of the below |
| Reconnect controller, `interview/contextManager.ts` | `attempt` | `run` | job (its dependencies), realtime session |
| Recording controller, `recording/recorder.ts` | none of its own; the Egress is LiveKit's | `start`, `stop` | S3 preflight, Egress gateway |
| Interview end watcher, `interview/roomEndWatcher.ts` | two timers, three room handlers, one promise | `watchInterviewEnd` and its callbacks | LiveKit room |
| Interview state, recovery source, `interview/interviewState.ts`, `recoverySource.ts` | ring buffer of turns, counters | `createInitialState`, `appendTurn`, `loadRecoverySource` | Redis store |
| Job tracker, `ops/jobTracker.ts` | none; a read-modify-write of the record | `create`, `update`, `get`, `list` | Redis store |
| Redis store, `state/redisStore.ts` | five keys per job and an index set | `saveJob`, `saveInterviewState`, `appendTranscript`, `finalize`, reads | Redis |
| Monitoring API, `ops/monitoring/` | none | health, readiness, list, get, `POST /jobs/:id/cancel` | job tracker, readiness |
| Worker launcher, `main.ts`, `ops/readiness.ts`, `ops/loadFunc.ts` | `draining`, the backstop timer, the load sample | `beginDrain`, `shutdown`, `loadFunc` | framework, monitoring |
| Final-state webhook, `ops/webhook.ts` | attempt counter | `sendWebhook` | the receiver |
| AI usage receipts, `ops/aiUsage.ts` | attempt counter | `buildUsageReceipt`, `deliverUsage` | the receiver |
| Reseed selection, `interview/reseed.ts` | none | `selectRecoveryTurns`, `buildSessionSeed` | job |
| Job configuration, `config/`, and `assertConfig` of `providers/` | none | `extractJobMetadata`, `resolveJobConfig`, `loadEnv`, `assertProviderAllowed` | job |
| Latency benchmarks, `scripts/bench/` | the open turn, its resolver, timers, the connection's epoch | `runTurnLoop`, `waitForTurnEnd`, the socket's and the plugin's callbacks | Gemini Live |
| Model options of the providers, recording adapters, telemetry, dispatch script, deployment | none that decides about an interview | option mapping, I/O, instruments | |

How they interact. `entry` starts two tasks without awaiting them, the recording
task and `ContextManager.run`, and races them. Both of them, `entry` itself and
the transcript handler write through two promise chains that serialise their
Redis calls. The watcher's promise ends every session's `done()`. The monitoring
API runs in the parent and writes the same job record as the child, with nothing
between them but Redis. At the end `entry` drains the chains, waits for both
tasks, stops the Egress, puts a TTL on the keys and sends one webhook.

Where it is hard, and what makes each part correct:

* *Job, reconnect, recording.* A required recording may fail at any await of the
  other two tasks; the session's start may be pending then, and cannot be
  closed. Correct means: no session starts after the abort, none is live when
  the job reports, a job reported as completed was not aborted and its record,
  state and transcript are whole, and the job always ends.
* *The two chains.* A Redis call fails, done or not done, between any two steps
  of a turn's three writes. Correct means: the record never counts what the
  state does not, nor the state what the transcript does not, and a reseed reads
  every turn said before it.
* *Job record.* Three writers of read-modify-writes, two of them in one process.
  Correct means: no patch of the child drops another's, none comes after the TTL of
  `finalize`, and every update settles. What cancels do to a finished record is in
  section 7.
* *End watcher.* Two timers race four kinds of room event, and the candidate may
  be in the room twice. Correct means: no interview exceeds its cap or is cut
  short, and absence ends it exactly when the candidate was away for the grace.
* *Worker.* Signals, the drain deadline and the framework's exit race each other.
* *Delivery.* An answer is lost after the request has been taken.
* *Start, crash, second dispatch.* A value may come under several keys of several
  sources, and the child may die between any two of the calls that create a job's
  keys. Correct means: a job is admitted exactly when its metadata describe an
  interview the environment can hold, a second dispatch obeys its own metadata and
  loses nothing of the transcript, and what is left behind can be found or expires.
* *Benchmarks.* Timers, callbacks and answers of one turn outlive it. Correct means:
  no timer or close of an earlier turn ends a later one, an undisturbed row is its own,
  and every turn ends. That a late answer may end a turn is in section 7.

`PROJECT.json` lists every hazard at its line, with the properties aimed at it.

## 2. Modules

| Module | Models |
|---|---|
| `JobPromise` | abstract specification: what one job promises to the outside |
| `InterviewJob` | `entry`, the recording task with `Recorder.start`/`stop`, `ContextManager.run` with the dependencies `entry` gives it, both promise chains, the job's keys in Redis |
| `MCInterviewJob` | the module TLC is given |
| `InterviewJobProofs` | the theorems about `InterviewJob` |
| `JobTracker`, `MCJobTracker`, `JobTrackerProofs` | one record, the child's two updating tasks, `finalize` and its TTL, cancel requests of the monitoring API; theorems |
| `RoomEndWatcher`, `MCRoomEndWatcher`, `RoomEndWatcherProofs` | `watchInterviewEnd`, with time; theorems |
| `UsageReceipt` | `buildUsageReceipt`: operators, and what a receipt must account for |
| `Delivery`, `MCDelivery` | `deliverUsage` per realtime response, the wait for it in the finally block, `sendWebhook`, and a receiver that loses answers; it extends `UsageReceipt` |
| `DeliveryProofs` | the theorems about `UsageReceipt` and `Delivery` |
| `RecoverySelection`, `MCRecoverySelection`, `RecoverySelectionProofs` | the loop of `selectRecoveryTurns` against the selection it is to make; theorems |
| `JobConfig` | the configuration as operators: sources, aliases, coercions, the schema, `loadEnv`, the providers' credentials |
| `JobStart`, `MCJobStart` | a job from dispatch to its keys' TTLs, with a crash at every await and a second dispatch; it extends `JobConfig` |
| `JobStartProofs` | the theorems about `JobStart` |
| `BenchTurns`, `MCBenchTurns`, `BenchTurnsProofs` | both latency harnesses: the loop, the end of a turn, watchdogs, grace timers, closes and the reconnect; theorems |
| `Worker`, `MCWorker`, `WorkerProofs` | the parent process: load sample and threshold, readiness, drain backstop, shutdown; theorems |

`InterviewJob` and the other modules meet at narrow places. It takes the watcher as
a promise that resolves once with a reason (`interviewEnd`); `RoomEndWatcher`
shows that it does resolve and when. It takes `updateJob` as one step per
update; `JobTracker` splits the update into its get and its set, which matters
only because a second process writes between them. Its `Report` is the moment
`sendWebhook` is called; `Delivery` has the attempts. What its reseed reads is the
transcript `RecoverySelection` selects from. `Worker` knows a job as a child
process that ends or hangs. `JobStart` begins where LiveKit starts the child, has
`SetUp` of `InterviewJob` in its five calls, and runs on over crashes; the
interview itself is sequential there, since its interleavings are `InterviewJob`'s.
`BenchTurns` stands alone: the benchmarks are programs of their own.

### InterviewJob, variable by variable

| Variable | Code |
|---|---|
| `main` | the await `entry` is at: `connecting` is `ctx.connect()`, `racing` the `Promise.race`, `awaiting_run`/`awaiting_recording` the awaits after it, `draining` `await writeChain`, `completing` and `failing` the awaited `updateJob` of either path, `final_drain` to `reporting` the finally block |
| `finalEvent`, `webhook` | `finalEvent`; what `sendWebhook` is called with |
| `policy`, `recorder`, `recording`, `recordingError` | `cfg.recording`; the await the recording task is at; `recording.status`; `recordingError !== undefined` |
| `run`, `attempt`, `outcome` | the await `ContextManager.run` is at, its counter, the settled outcome of `done()` or of a failed `start` |
| `session`, `seed` | `activeSession` and the transcript its `chatCtx` was built from |
| `interviewEnd`, `room`, `said` | the watcher's promise, the room, the conversation items the framework has emitted |
| `trackerWrites`, `reply` | the chain of `updateJob`s; what the awaiting caller got |
| `writeChain`, `writer` | the chain of `enqueueWrite`s (an `await writeChain` is an entry too, since it resolves in its place); the await inside `persistTurn` |
| `state`, `saved`, `transcript`, `job`, `expiring` | the in-memory state; the state, transcript and record in Redis; the keys that carry a TTL |

A turn is its position among the items said, so that what the transcript holds,
misses, repeats or reorders can be told; its text, role and time are left out,
except that a system message ("note") enters the transcript and not the state.

### JobTracker and RoomEndWatcher

`JobTracker` gives each of the child's two tasks a script of two patches of
different fields, which is what the session path and the recording path do.
`ChildReads`/`ChildSaves` are the two awaits of `RedisJobTracker.update`; `MyTurn`
is the chain. `Finalize` may fail, its EXPIRE done or not, which the job logs before it
goes on (`life` is "finalize_failed" then). `Lookup`, `CancelReads`, `CancelSaves` are
the three awaits of the cancel route, each of which Redis may fail: the server answers
500, and the record may have been overwritten by then. `cancelled` is history: a
cancel's SET was done. `RoomEndWatcher` has one action per callback and a `Tick`; a timer
fires in the tick it is due, in any order with that tick's room events. Both
clearing a timer and removing the handlers are part of `Finish`. Two connections
under one identity are why a leaving participant may stay in `remoteParticipants`.

### Delivery, RecoverySelection and Worker

In `Delivery` an item is a usage receipt or the webhook. `Posted` is a `fetch`
that settles: acknowledged, taken but the answer lost (or late, or not 2xx), or not
taken. `attempt` is the loop's counter, `TotalAttempts` its bound: three for a
receipt, `maxRetries + 1` for the webhook, which a negative setting makes none.
`awaited` is the list `Promise.allSettled` is given once, at the time of the call;
that is why it matters that the run has settled by then. `taken` and `unanswered`
are history of what the receiver saw.

`RecoverySelection` has one action per way through the loop's body: `Leave` (a
limit is reached or no turn is left), `Skip` (`continue`) and `Push`, which cuts.
The reference definition (`WithinLimits`, `RoomFor`) knows no loop.

In `Worker` the load is counted in halves of `1/Max`, so that `(max - 0.5) / max`
is an integer. `Signal` is both handlers of a signal, the code's and the
framework's. `BackstopFires`, `MonitoringCloses` and `TelemetryFlushed` are the
awaits of `shutdown`; the model admits a shutdown per signal, and that there is
never more than one is for the readiness flip to show. The `beforeExit` handler is
not modelled: the event loop does not run empty while the server listens.

### JobConfig and JobStart

A metadata document has a field per value, which lists what is found under each of
its keys in the order of the code: `doc.instruction` is `top.systemInstruction`,
then `top.system_instruction`. A text is itself; "absent", "blank" and "junk" are
what the coercions tell apart. `FirstString` skips what is no text, `Given` is
`??`, which a blank text stops; `StudentName` and `EnableRecording` look at the key
itself. `loadEnv` runs in the parent first, so that `Init` has loadable
environments only; the others are in the instance to show that they are refused.

In `JobStart`, `child` is the await `entry` is at: `Read` is everything before the
first of them, `CreateRecord` and `IndexRecord` the two calls of `saveJob`,
`SaveSnapshot` to `OpenFirstSession` the rest of the start, `CountTranscript` to
`SaveTurnRecord` one turn, `Reconnect` to `Reseed` one reconnect. `present`,
`expiring` and `listed` are Redis: SET takes a TTL off (`SetKey`), RPUSH leaves it
(`PushKey`), EXPIRE passes over a missing key. `Crash` clears what is the child's and
nothing else; `Dispatch` may find other metadata. `said` is history: which
dispatch said what, as long as Redis still holds it. `CountTranscript` and `AppendTurn`
are the LLEN and the RPUSH of `appendTranscript`: the transcript of an earlier dispatch
may expire between them, and the RPUSH may be done twice. `Finalize` sends five EXPIREs
at once; when one fails, any of the others may have been done and the child ends all
the same. `finalized` tells whether no dispatch has sent them yet, or the last one that
did saw all of them done ("whole") or not ("part").

### BenchTurns

`turn`, `waiter` (whose resolver `turnEnded` is), `watchdogs`, `graces`, `epoch` and
`sessionClosed` are the harness's variables and timers; a turn's record keeps
which turn's answer its content and its usage came from, which the code cannot
tell and the properties are about. A finished row has the `cause` of its end and, in
`of`, the turn that the cause belongs to: the turn a timer was set for, the turn during
which a closed connection was in use, or the turn whose answer has completed. Content
finishes no turn: only usage, the end of an answer and the plugin's grace timer look at
whether the turn is complete (`MaybeFinishTurn`). What runs after a resolver is called, up to the
loop's sleep, is in the step that calls it. The two harnesses differ in `Remaining`
(the plugin reads a generation's streams only if a turn was open when it began; of
two answers to one turn, each has streams of its own),
`Grace` (the raw one ends the turn, the plugin's sets a flag), and in that only
the raw one sees its socket close and reconnects.

## 3. How code becomes actions

JavaScript runs one callback at a time, so an action is the code from one await to the
next. A test of the code after an await is therefore in the action that follows it,
and what was read before is kept in a variable. Redis calls take effect when their
answer is due; a call that fails may have taken effect or not (a lost answer, or a SET
that went through before the SADD of the same method failed). A command whose
connection is lost before its answer is sent again by ioredis
(`maxRetriesPerRequest`); only for the RPUSH does it matter if it is done twice, and
that is a step of its own kind in `InterviewJob` and `JobStart`. SET, SADD and EXPIRE
done twice in a row leave what they leave once. A LiveKit or S3 call succeeds or
throws. Configuration is part of `Init`: all three recording policies are checked in
one run.

What the abstraction drops: texts, ids, timestamps, prompts, log lines and
metrics. What it keeps: every status the record goes through, every early
return and every rejection, and which `catch` each of them ends in.

## 4. Runs and bounds

| Run | Expected | Question |
|---|---|---|
| `job_data` | pass | While Redis answers: does a reseed see every turn, is a completed job's record, state and transcript whole, does every key expire? With a Redis call failing anywhere: no completion after an abort, quiet teardown, order of writes and of the transcript, the Egress stopped? |
| `job_ends` | pass | Is the promise kept whatever fails (`PromiseKept`), fulfilled while Redis answers (`PromiseFulfilled`), and does every job end (`JobSettles`)? |
| `failed_job_not_reconnecting` | violation | Can the record reported with `job_failed` still read `reconnecting`? |
| `optional_recording_never_aborts` | violation | Can a recording that is not required fail the job? |
| `job_tracker` | pass | Are the child's patches kept, is a finished record that stays one that a cancel has marked, are updates settled? |
| `room_end_watcher` | pass | Does an interview end by its duration or the ceiling, neither late nor early, for absence only after the whole grace, and always? |
| `delivery` | pass | Are receipts settled before the report, are items repeated only for a lost answer, are tokens accounted for, does the job end whatever the receiver does? |
| `recovery_selection` | pass | Does the loop select exactly the newest turns both limits leave room for? |
| `worker` | pass | Is the cap overshot by a stale sample only, and does a drain end without killing an interview within its time or cutting off a request? |
| `job_start` | pass | Is a job admitted exactly when it can be held, and what do crashes and a second dispatch leave to a session and to Redis? |
| `retry_reseeds` | violation | Does the first session after a crash know what was said before it? |
| `bench_turns` | pass | Is every turn of a benchmark ended, by no timer or close of another, and is an undisturbed row its own? |

What the passing properties say, and of which code:

* `ReseedSeesEverything`: `onReconnect` enqueues the bump and drains the chain
  before `buildSeed` reads, so the new session knows every item before it.
* `ReconnectOnRecord`: it starts only with the reconnect on the record, and in
  the state as well while Redis answers.
* `CompletedRecordIsWhole`, `CompletedKeysExpire`: nothing the interview wrote is
  missing from what is reported, and nothing is written after `finalize`.
* `NoCompletionAfterAbort`: the race cannot be won past a failed required recording.
* `QuietTeardown`: the finally block has waited for both tasks, the run's session
  included, before it stops the Egress and reports.
* `WriteThroughOrder`, `TranscriptInOrder`: whatever fails or is done twice, a later
  write of a turn is never ahead of an earlier one, and no turn stands behind one that
  was said after it. A resent RPUSH may write a turn twice; the copies are neighbours.
* `EgressStopAttempted`: a recording that was started is asked to stop, also when
  the interview ended before its id was known.
* `PromiseKept`, `PromiseFulfilled`: `InterviewJob` implements `JobPromise`: one
  session at a time, none after an abort, none alive at the report, one report,
  and completion only without an abort, whatever fails; and, while Redis answers,
  sessions end and the report is sent (the abstract specification's `Fairness`).
* `JobSettles`: whatever call fails, the job comes to its report.

* `ChildUpdatesKept`, `FinishedExpiresOrIsCancelled`, `UpdatesSettle`: the chain of
  `updateJob` keeps two tasks' patches from dropping each other and survives a
  rejection. Once `finalize` has gone through, the record is gone, or expires, or shows
  the mark of a cancel: no update of the child comes after it. A `finalize` that failed
  promises nothing, and the property says nothing of it.
* `LeaverEndsInterview`, `DurationBounds`, `AbsentForTheWholeGrace`:
  only the candidate's absence, for a whole grace, or the clamped duration ends an
  interview, the cap neither late nor early.
* `ReceiptsBeforeReport`: no receipt is on its way when the job reports and the
  child may exit, also none built while `allSettled` was waiting.
* `DuplicatesOnlyAfterLoss`: `deliverUsage` and `sendWebhook` repeat themselves only
  when an answer was missing, and what they return is the truth.
* `TokensAccountedFor`: units beside no "unknown" add up to the plugin's numbers,
  cached ones included, and no input is charged twice.
* `SelectsNewest`, `LimitsKept`: the reseed is a suffix of the usable turns, cut at
  its oldest, in order.
* `OvershootBySampleOnly`: the threshold means "full exactly at the cap"; what
  goes beyond it is the age of the sample.
* `KillsOnlyHungInterviews`, `ForcedExitIsClean`, `DrainEnds`: the backstop comes
  once, not before its budget, lets requests finish, and comes for certain.

* `AdmissionIsExact`: the code's order of looking (parse, alias, coerce, validate,
  check credentials) admits exactly the jobs a definition without order admits
  (`Unusable`), what it admits is whole, and a rejected job has written nothing.
* `SessionsObeyTheDispatch`, `ReseedSpansDispatches`: after a crash the new
  dispatch's instruction is used, every reseed from Redis reads the old dispatch's
  turns as long as they have not expired, and the transcript stays in the order of
  speech. How much of what was read the session is given is `RecoverySelection`'s.
* `CountersNeverAhead`: until a dispatch has sent its EXPIREs, a crash between the three
  writes of a turn leaves the record behind the state and the state behind the
  transcript, never ahead; afterwards keys expire one by one.
* `KeysExpireOrPersist`, `UnlistedLeftNothing`: what a job leaves whose EXPIREs were all
  done expires, what is left before any were sent stays, and a job missing from the
  index is a record at most. A partial `finalize` is a step of the model and outside the
  first claim; a cancel's SET after it is `JobTracker`'s.
* `EndedByItsOwn`, `RowsOfTheirOwn`, `BenchEnds`: no watchdog, grace timer or close of
  an earlier turn or connection ends a later one (an answer can, see section 7), rows are
  right as long as nothing goes wrong, and a silent server or a dead socket holds
  nothing up.

Bounds. `MaxReconnects` is 2, so that the counters are followed through repeated
reconnects; one attempt more adds another round of the same loop. `MaxItems` is 2 with
`RecentTurnsLimit` 1 in `job_data`, so that there are two turns to keep in order, the
ring buffer overflows, and a reseed from memory (the fallback) differs from one from
the transcript; it is 1 in `job_ends`, where liveness and refinement are about control
and not about the turns' order. `MaxFaults` is 1 with every call a candidate, a resent
RPUSH among them, and none failing is one of the behaviours: the properties about
whole data say "while `faults = 0`". A second fault finds the job in its failing path,
which awaits the same chains. An append is resent once, where ioredis may send it more
often: a further copy stands beside the first two and changes neither order nor what
the transcript holds. The `job_tracker` run has two requests, enough for two cancels
to race each other and the child, and two failing calls, so that a failed `finalize`
or cancel can follow a failed update. In `room_end_watcher` there are a duration below
the ceiling and one above it, a grace shorter than both, one bystander, and a watch
that begins at tick 0 or 1; two absences and returns fit into the longer interview.
Deadlock is checked in the job and tracker runs, where the end is an action of its own
(`Finished`); it is not in `room_end_watcher`, which stops in the tick in which the
promise settles, nor in `worker`, which stops at the exit. `delivery` has two
receipts, so that one can be built while the other is awaited, two sessions, and
webhook retries of -1 (no attempt), 0 and 2; the receipts' inputs are one consistent
response with cached and reasoning tokens and one with a cached token missing (the
theorem `ReceiptAccounts` is about all of them). `recovery_selection` covers all
transcripts of up to four turns of up to three characters with turns and notes mixed,
under limits of 1 to 3 turns and 1 to 6 characters: both limits are met at every place
of the loop. `worker` has a cap of two and three jobs, so that a stale sample
overshoots it, a drain budget of 3 against interviews of 2 (the manifests' relation of
the two), both signals in any number, and one request to the monitoring API; signals
come before tick 2. `job_start` admits every one of fourteen documents (whole, under
its other keys, and one for each way to be refused or to come close) from the last
source behind empty ones, and good, bad and invalid ones from the first and last
source together, under the environments that load; two jobs with different
instructions are followed further, over two dispatches, three turns and one reconnect
per dispatch: a third dispatch finds nothing the second cannot have left. It may stop,
since a job ends or is rejected (no deadlock check). `bench_turns` has two turns, so
that one can be disturbed by another, and a third on the second connection; one
barge-in, as the first thing that goes wrong, is enough to put a foreign answer into a
turn, and late, split and missing ones may follow. It stops when the bench is done.

## 5. Fairness

`InterviewJob` has weak fairness on the steps of `entry`, its tasks and the chains
together: while one of them can go on, one does. That is less than fairness to each,
and enough, since none of them runs for ever. Every await of theirs settles: ioredis
is configured with `maxRetriesPerRequest`, so that a command answers or rejects
(`state/redisClient.ts`), LiveKit, S3 and room deletion calls return or throw, and
callbacks that are ready are run. `InterviewEnds` is among them because the duration
timer of the watcher is always set; `room_end_watcher` shows that it fires
(`InterviewEnds` there). Conversation items and the session's own `Close` event have
no fairness: a silent session is ended by the watcher. In `JobTracker` the child's
steps are fair and requests are not; in `RoomEndWatcher` time and due timers are fair
and people are not. In `Delivery` a `fetch` settles (the receipts' by their
five-second signal, the webhook's by the client's own timeouts), a sleep ends, and the
run settles, which is `JobSettles`; the receiver owes nothing. In `Worker` time
passes, due timers fire, a request is answered (its handler awaits Redis calls that
answer or reject) and exporters give up; jobs, signals and the framework's exit owe
nothing, so that `DrainEnds` rests on the backstop. In `BenchTurns` the pacer comes to
the end of its queue, the loop goes on, a watchdog fires and an attempt to connect is
answered or refused; the server, its socket and the grace timers owe nothing, so that
`BenchEnds` rests on the watchdog. `JobStart` has safety properties only, and no
fairness.

## 6. Proofs

Every invariant and every action property that a passing run checks is a theorem
too, the refinement of `JobPromise` included; the liveness properties are not. The
pattern is one: the property is seldom inductive, so an inductive invariant is
stated in named parts, TLC checks it, one lemma per action or group of actions shows
that a step keeps it, and the theorem follows by PTL.

### InterviewJob

`InterviewJobProofs` proves eleven theorems for every number of reconnects (negative
ones included, as `intOr` admits them), every positive length of the ring buffer, and
every number of items and failing calls. They assume `ConstantsAssumption` only.

* `TypeCorrect`: `Spec => []TypeOK`. `TypeOK` is not inductive: `SaveTurnState`
  and `TurnPersisted` take the head of the chain without looking. `TypeInv` adds
  that the chain is not empty while its writer is at work.
* `AbortNeverCompletes`, `TeardownIsQuiet`, `KeepsPromise` (the refinement), from
  `TypeInv /\ ControlInv`. `ControlInv` has six parts: nothing runs before `entry`
  starts it (`NothingStartedYet`), nothing runs once it has waited (`AllSettled`), a
  session exists only within one attempt of the run (`SessionOfTheRun`), a recording
  task that has aborted the job cannot resolve (`AbortedNotResolved`), the success
  path has the recording resolved behind it (`RecordingFirst`), and the webhook is
  the last thing (`ReportedLast`). Each is needed by another: that teardown is quiet
  rests on sessions belonging to the run, and that an abort excludes completion rests
  on the recording task being over for good, which `NothingStartedYet` protects from
  being started again. The refinement lemmas map a session start to `StartTalking`,
  the catch block of the recording task to `Abort`, the webhook to `Report`, the end
  or closing of a session to `StopTalking`, and the rest to a stutter.
* The seven theorems about data, from `DataInv` on top of these two:
  * `UpdatesInv`: every update on the chain of `updateJob` is awaited by its actor,
    who has but one, and carries what that actor's place in the code says. So each
    field of the record has one writer, and a record after an update can be told
    (lemma `RecordAfter`).
  * `SpeechInv`: items wait on `writeChain` in the order of speech, behind all that
    the transcript has, or level with its last when a failed append left it there;
    `TurnsInv`: record, saved state, memory and the turns the transcript holds
    (counted as a set, since an append may be done twice) are in this order of age,
    the in-memory state included, which is what makes it inductive. Hence
    `TranscriptKeepsOrder` and `WrittenThroughInOrder`, whatever fails.
  * `ReconnectsInv`: the bump waits with the attempt's number before the run's await,
    so that the state has it before the record does and the record before a session is
    made. Hence `ReconnectsAreOnRecord`.
  * `EgressInv`: between `await recorder.stop` and the report the Egress was asked to
    stop, then the record says so. Hence `EgressIsStopped`.
  * `DrainsInv`: whoever awaits the chain while no session is live has every item
    before it; `CompletionInv`: what completes has its run behind it. With them
    `WholeInv`, which is about runs without a fault: nothing said is lost between
    transcript and chain, each copy of the count is behind only between two writes of
    the writer, a seed is the transcript. Hence `ReseedIsComplete`, `CompletedIsWhole`
    and `KeysOfCompletedExpire`.

### Job record and end of the interview

`JobTrackerProofs` assumes `RequestsAssumption`, that a cancel request is none of the
child's tasks; any number of requests and failing calls. `ChainInv` says that the
update being performed is the first of the chain, so that two tasks are never both
between their get and their set; `KeptInv` that what it has read is still what the
record is, from which `NoChildUpdateDropped`; `RecordInv` that before the child's
`create` nobody has read anything, and `FinalInv` that it finalizes with no update left,
so that afterwards only a cancel takes the TTL off, and leaves its mark when it does
(`FinishedRecordExpires`).

`RoomEndWatcherProofs` is about any durations, ceiling, grace and set of participants.
`DurationInv` ties the timer to the begin of the watch; time does not pass a timer that
is due. `AbsenceInv` says what a set absence timer means: the candidate left a whole
grace before it is due, or is in the room under the same identity, in which case it
does nothing when it fires. Hence `DurationIsBounded`, `LeaverIsGivenTheGrace` and
the action property `AbsenceIsWholeGrace`.

### Delivery and selection

`DeliveryProofs` assumes `DeliveryAssumption`: any set of responses, any retry
setting, any usage of natural numbers.

* `ReceiptAccounts`: whatever a plugin reports, the receipt accounts for it
  (`AccountsFor`, `NoOvercharge`); a case split on the code's three input checks and
  linear arithmetic over the three modalities.
* `TypeCorrect`, `TokensCorrect`: types and attempt bounds; every receipt built is one
  of `BuildReceipt`, to which the first theorem applies.
* `DuplicatesExplained`: strengthened by what holds of an item not yet sent
  (`NotYetSent`: nothing taken) and of one under way (`AnswersInv`: taken exactly as
  often as unanswered), since a retry is only as harmless as the count before it.
* `ReceiptsSettledFirst`: with `TeardownInv`, the run is over from `AwaitReceipts` on
  and every receipt in flight is among the awaited ones; no step can add one,
  because `MetricsCollected` needs a live session.

`RecoverySelectionProofs` proves `TypeCorrect`, `NeverBeyondLimits` and
`NewestAreSelected` for every transcript and all positive limits (`RecoveryAssumption`,
which is `positiveIntOr`). `PassedInv` compares the loop with the reference definition
half-way: what has been pushed is every usable turn passed so far, and `usedChars` is
their total. That total is a fold over a set; what the fold yields for every finite
set (it exists, it does not depend on the order, it grows by the turn added) is proved
first, in the lemmas up to `TotalGrows`.

### Worker

`WorkerProofs` assumes `WorkerAssumption`: a positive cap, finitely many jobs, a drain
budget beyond the longest interview.

* `FullExactlyAtCap` (lemma): load exceeds threshold exactly from the cap on.
* `CapOvershotBySampleOnly`: from `SampleInv`, the running jobs are no more than
  those sampled and those taken since.
* `DrainKillsOnlyHung`: from `DrainInv`, no job is taken once draining, so that any
  that is still running has run for the budget when a backstop fires.
* `ForcedExitCutsNobodyOff`: from `CloseInv`. Its part `DrainsOnce` says that one timer
  is set, or has fired and led to one shutdown, however many signals come; two
  shutdowns would let the second one exit while the first waits for a request.

### Start of a job

`JobStartProofs` assumes `JobStartAssumption` only: any well-formed documents (lists of
texts and numbers, which is what JSON and the coercions leave), environments and
contexts, any number of dispatches, crashes and turns.

* `AdmittedExactly`: lemmas say what each lookup returns (the first text, the first
  number, the first source that parses) without its order of looking, from them that a
  document is accepted unless `Unusable` and that the configuration is `Whole`.
  `AdmissionInv` carries this from `Read` through the rest of the dispatch.
* `UnlistedLeavesNothing`: from `IndexInv`, an unlisted job's child is not past the SADD.
* `FinishedKeysExpire`: from `TtlInv`, nothing is written between the EXPIREs and the
  end, so that what is there after a whole `finalize` carries the TTL; and nothing does
  before the first of them.
* `InstructionOfTheDispatch`: from `InstructionInv`, the snapshot this dispatch has
  saved is there, without a TTL an earlier one may have left on it, and no session's
  seed outlives its dispatch.
* `CountersFollow`: `CounterInv` knows at which await the state is behind the
  transcript and the record behind the state, and uses `TtlInv`: before the first
  finalize nothing expires. `OrderInv` (the transcript is in the order of speech, and
  none of it is newer than the turn last appended) shows that an append adds a turn
  that was not there, once or twice.
* `ReseedKnowsEarlierDispatches`: from `TranscriptInv` and `OrderInv`. A seed from Redis
  is the transcript at that time; what is appended later is this dispatch's own.

### Benchmarks

`BenchTurnsProofs` assumes `BenchAssumption`: any positive number of turns, either
harness or both.

* `WaitsEndByTheirOwn`: from `WaitInv`. A resolver and a watchdog are set only while the
  loop waits and are those of the open turn; grace timers of ended turns stay set, and
  the record they were set for is not the open one. The theorem is about timers and
  closes only: an answer has no owner in the code (section 7).
* `CalmRowsAreTheirOwn`: from `Calm`. Until something goes wrong, the one answer on its
  way is the open turn's, and what the turn has been given and what is still to come are
  together that answer (`Rests`); a connection left behind has nothing on its way.

### What is only model-checked

Liveness: `JobSettles`, `PromiseFulfilled`, `UpdatesSettle`, `InterviewEnds`,
`DeliverySettles`, `DrainEnds`, `BenchEnds`. The prover has no rule for weak fairness
with ENABLED. The runs that expect a violation are counterexamples, and TLC's.

The library's induction theorems take an operator as a parameter and cannot be
instantiated here. Where a proof needs an induction over data (the fold of a set, the
first index of a list), it goes by well-foundedness instead: among the sets or indices
that would be counterexamples there is a minimal one (`WFMin`), which is refuted. That is
enough for functions and folds defined from other functions; no module uses RECURSIVE.
`SelectSeq` has no facts the prover knows: `BenchTurns` removes a generation's unread end
from a queue with `RemoveFirstMatch`, whose definition can be expanded.

## 7. Disagreements found

Each is a finding in `PROJECT.json`, with the quoted line. 1 to 3 have a run. Of 4, 5,
7 and 9 to 11 the models have the steps; for the last three the claim is stated
(`CompletedByItsAnswer`, `NoPhantomRecord`, `SequenceRunsOn`), and TLC refutes it when it
takes the place of the invariants in `BenchTurns.cfg`, `JobTracker.cfg` and
`JobStart.cfg`. The rest is read from the code.

1. A failed job may be reported with status `reconnecting`: `onReconnect` queues
   its update behind the catch block's without looking at the abort.
2. A recording that is optional, or even disabled, fails the job if the write of
   its status fails: the `updateJob` stands in the recording task's try block.
3. A retry after a crash does not reseed: the state is overwritten, and the first
   session of the second dispatch is given an empty transcript.
4. When the interview ends between two sessions, the loop starts one more: it
   looks at the abort and never at the end.
5. A cancel answered 202 can be overwritten by the child at once, and a cancel of a
   finished job takes the TTL off its record.
6. The docs say 59 minutes, the code and its test 60.
7. After a finalize, a crash and a second dispatch, the transcript keeps the first
   dispatch's TTL, although a crashed child's data is said to persist.
8. `RECORDING_REQUIRED=TRUE` is true for `loadEnv` and false for the recording policy;
   a `SILENCE_DURATION_MS` that is no number is used as NaN.
9. A benchmark's turn is completed by whatever answer completes while it is open: the
   late one to a turn that has timed out, or the interrupted one after a barge-in. Its
   row then shows the other answer's times and tokens.
10. A cancel whose record expires between the update's read and its SET brings the
    record back, marked cancelled, without a TTL, and answers 202; a test's name
    promises "no phantom record".
11. Sequence numbers of the transcript may repeat (an RPUSH sent again after a lost
    answer) or leave a gap (the TTL of an earlier dispatch runs out between LLEN and
    RPUSH), although the phase 2 plan has them "1..N in order".

## 8. What is not modelled

The providers' model options, telemetry, logging and the recording adapters decide
nothing about the order of things: options are mapped, instruments record, files get
a name. `startTelemetry` keeps one promise per process and is awaited before the job
exists. The statistics of the benchmarks, the matrix of suites and the dispatch
script are sequential; deployment manifests are data. Rotation (`maybeRotate`) is an
empty function; `removeJob`, `getInterviewState` and `tracker.remove` have no caller.
The read-only routes of the monitoring API write nothing. The framework's own
behaviour inside a session (whether items come after `close`) is external: items
come from live sessions. `JobStart` has one child at a time: that LiveKit runs two
children for one job is not considered. It has no cancels, which are `JobTracker`'s,
and every job has a room with a name, without which `resolveAssignedRoomName`
(`agent.ts`) refuses it before its record exists.

## 9. Plan

Done, in this order: `InterviewJob` and its abstract specification, its theorems,
`JobTracker`, `RoomEndWatcher`, `Worker`, `UsageReceipt` and `Delivery`,
`RecoverySelection`, `JobConfig` and `JobStart` with crashes and the second dispatch,
`BenchTurns`.

Every safety property of a passing run has its theorem (section 6). Left: the
hazards without a property, of which the lost answer of an Egress start and the room kept
after a failed job have no promise in the code or the docs to hold it to; and the
benchmarks' statistics as operators.

## 10. How to run

```
tlc -workers 2 -config InterviewJobFaults.cfg MCInterviewJob.tla
tlapm InterviewJobProofs.tla
```

`PROJECT.json` names every run's module and configuration. The operators marked
"Mutation" in the modules are plausible bugs; `PROJECT.json` pairs each with the
property that catches it when it replaces the definition it stands above.
