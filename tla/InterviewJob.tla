---------------------------- MODULE InterviewJob ----------------------------
(***************************************************************************)
(* One interview job, as src/agent.ts runs it in a LiveKit child process:  *)
(* the entry function, the recording task it starts without awaiting, the  *)
(* reconnect loop of src/interview/contextManager.ts, and the two promise  *)
(* chains (updateJob and enqueueWrite) that put the job record and the     *)
(* interview state in Redis.                                               *)
(*                                                                         *)
(* JavaScript runs one callback at a time, so an action is the code from   *)
(* one await to the next.  The actors below interleave only there.         *)
(*                                                                         *)
(* Outside the code: LiveKit (rooms, realtime sessions, egress) and Redis. *)
(* A Redis call may fail, and then may or may not have taken effect (SET   *)
(* answered and SADD lost, or the answer itself lost).  A call whose       *)
(* connection is lost before the answer is sent again by the client: only  *)
(* RPUSH tells the difference, and may then be done twice.                 *)
(***************************************************************************)
EXTENDS Integers, Sequences, FiniteSets

CONSTANTS
    MaxReconnects,      \* env.reconnectMaxRetries
    RecentTurnsLimit,   \* RECENT_TURNS_LIMIT of interviewState.ts
    MaxItems,           \* bound: conversation items of the whole interview
    MaxFaults           \* bound: Redis calls that fail, or are sent twice

ASSUME ConstantsAssumption ==
    /\ MaxReconnects \in Int      \* intOr: any integer
    /\ RecentTurnsLimit \in Nat \ {0}
    /\ MaxItems \in Nat
    /\ MaxFaults \in Nat

VARIABLES
    main,            \* where entry() is
    finalEvent,      \* the event teardown will report
    webhook,         \* the final-state webhook handed to sendWebhook, or NoWebhook

    policy,          \* cfg.recording: "disabled", "optional" or "required"
    recorder,        \* where the recording task is
    recording,       \* recording.status; its egressId exists iff "active"
    recordingError,  \* recordingError !== undefined
    egress,          \* the Egress itself, in LiveKit

    run,             \* where ContextManager.run is
    attempt,         \* its reconnect counter
    outcome,         \* the settled outcome of the current session, or "none"
    session,         \* the realtime session activeSession stands for
    seed,            \* what was read to reseed the current session; how much of
                     \* it the session is given is RecoverySelection's

    interviewEnd,    \* the reason watchInterviewEnd resolved with, or "none"
    room,            \* the LiveKit room
    said,            \* conversation items emitted so far, oldest first

    trackerWrites,   \* updateJob calls not yet performed
    reply,           \* what the last updateJob of each actor came to
    job,             \* the job record in Redis

    writeChain,      \* enqueued state writes, and the actors awaiting the chain
    writer,          \* where the write at the head of the chain is
    state,           \* the in-memory InterviewState
    saved,           \* the InterviewState in Redis
    transcript,      \* the transcript list in Redis, as positions in said

    expiring,        \* keys that carry the completion TTL
    faults           \* Redis calls that failed or were sent twice so far

mainVars   == <<main, finalEvent, webhook>>
recordVars == <<policy, recorder, recording, recordingError, egress>>
runVars    == <<run, attempt, outcome, session, seed>>
roomVars   == <<interviewEnd, room, said>>
jobVars    == <<trackerWrites, reply, job>>
stateVars  == <<writeChain, writer, state, saved, transcript>>
vars == <<mainVars, recordVars, runVars, roomVars, jobVars, stateVars, expiring, faults>>

-----------------------------------------------------------------------------
(* Values *)

Actors == {"main", "run", "recorder", "writer"}

Statuses == {"absent", "starting", "connected", "in_progress", "reconnecting",
             "completed", "failed"}
RecordingStatuses == {"unset", "disabled", "active", "failed", "stopped"}
TrackerPatches == [status : Statuses] \cup [status : Statuses, reconnects : Nat]
                  \cup [turns : Nat] \cup [recording : RecordingStatuses]
JobRecords == [status : Statuses, reconnects : Nat, turns : Nat, recording : RecordingStatuses]
InterviewStates == [recentTurns : Seq(Nat), turns : Nat, reconnects : Nat]
ChainEntries == [op : {"turn", "note", "bump", "run", "main"}, n : Nat]

NoJob == [status |-> "absent", reconnects |-> 0, turns |-> 0, recording |-> "unset"]
NoWebhook == [event |-> "none", job |-> NoJob]

\* createInitialState
InitialState == [recentTurns |-> <<>>, turns |-> 0, reconnects |-> 0]

\* The keys whose TTL matters here: the two rewritten by SET, which drops a TTL,
\* and the list RPUSH creates.  The other two are written once, before the try.
Keys == {"job", "state", "transcript"}

\* Mutation: the ring buffer is never cut.
AppendTurnUncut(s, turn) ==
    [s EXCEPT !.recentTurns = Append(s.recentTurns, turn), !.turns = s.turns + 1]

\* appendTurn: the ring buffer keeps the last RecentTurnsLimit turns, the count all.
AppendTurn(s, turn) ==
    LET all == Append(s.recentTurns, turn) IN
    [recentTurns |-> SubSeq(all, IF Len(all) > RecentTurnsLimit
                                 THEN Len(all) - RecentTurnsLimit + 1 ELSE 1, Len(all)),
     turns |-> s.turns + 1, reconnects |-> s.reconnects]

\* Mutation: the patch is laid over a fresh record, and what was there is lost.
MergeIntoFresh(record, patch) ==
    [f \in DOMAIN record |-> IF f \in DOMAIN patch THEN patch[f] ELSE NoJob[f]]

\* { ...existing, ...patch } of RedisJobTracker.update
Merge(record, patch) ==
    [f \in DOMAIN record |-> IF f \in DOMAIN patch THEN patch[f] ELSE record[f]]

\* A Redis call fails, or its connection does.
Fault == faults < MaxFaults /\ faults' = faults + 1

\* updateJob(patch) issued by `actor`: queued behind the job updates already
\* pending; the actor goes on once UpdateSettled.
UpdateJob(actor, patch) ==
    /\ trackerWrites' = Append(trackerWrites, [by |-> actor, patch |-> patch])
    /\ reply' = [reply EXCEPT ![actor] = "pending"]
    /\ UNCHANGED job

\* Mutation: entry does not await its updates.
UpdateNotAwaited(actor) == actor = "main" \/ reply[actor] # "pending"

\* The actor's awaited updateJob has been performed or has rejected.
UpdateSettled(actor) == reply[actor] # "pending"

\* enqueueWrite and `await writeChain` both add to the chain's tail.
Enqueue(entries) == writeChain' = writeChain \o entries

-----------------------------------------------------------------------------
Init ==
    /\ main = "setup" /\ finalEvent = "job_failed" /\ webhook = NoWebhook
    /\ policy \in {"disabled", "optional", "required"}
    /\ recorder = "idle" /\ recording = "disabled" /\ recordingError = FALSE /\ egress = "none"
    /\ run = "idle" /\ attempt = 0 /\ outcome = "none" /\ session = "none" /\ seed = <<>>
    /\ interviewEnd = "none" /\ room = "open" /\ said = <<>>
    /\ trackerWrites = <<>> /\ reply = [a \in Actors |-> "ok"] /\ job = NoJob
    /\ writeChain = <<>> /\ writer = "idle"
    /\ state = InitialState /\ saved = InitialState /\ transcript = <<>>
    /\ expiring = {} /\ faults = 0

-----------------------------------------------------------------------------
(* The two promise chains *)

\* trackerWrites: get, merge, save, one update at a time.  A failed update
\* rejects for its caller only; the chain goes on.
PerformJobUpdate ==
    /\ trackerWrites # <<>>
    /\ LET w == Head(trackerWrites) IN
       \/ /\ job' = Merge(job, w.patch)
          /\ expiring' = expiring \ {"job"}
          /\ reply' = [reply EXCEPT ![w.by] = "ok"]
          /\ UNCHANGED faults
       \/ /\ Fault
          /\ \/ job' = Merge(job, w.patch) /\ expiring' = expiring \ {"job"}
             \/ UNCHANGED <<job, expiring>>
          /\ reply' = [reply EXCEPT ![w.by] = "error"]
    /\ trackerWrites' = Tail(trackerWrites)
    /\ UNCHANGED <<mainVars, recordVars, runVars, roomVars, stateVars>>

\* Mutation: a failed append is tried again, behind the writes that wait.
RetryItemLast ==
    writeChain' = Append(Tail(writeChain), Head(writeChain)) /\ UNCHANGED <<state, writer>>

\* Mutation: the in-memory state takes the turn although the append failed.
DropItemButCount ==
    /\ state' = AppendTurn(state, Head(writeChain).n) /\ writer' = "saving"
    /\ UNCHANGED writeChain

\* appendTranscript has rejected: persistTurn ends, enqueueWrite logs.
DropItem == writeChain' = Tail(writeChain) /\ UNCHANGED <<state, writer>>

\* RPUSH is done, loses its answer, and is sent once more.
Resent(n) == transcript \o <<n, n>>

\* persistTurn, first step: appendTranscript.  A turn of the interviewer or the
\* candidate then enters the in-memory state; a failure drops the item.
AppendTranscript ==
    /\ writer = "idle" /\ writeChain # <<>>
    /\ LET w == Head(writeChain) IN
       /\ w.op \in {"turn", "note"}
       /\ \/ /\ \/ transcript' = Append(transcript, w.n) /\ UNCHANGED faults
                \/ transcript' = Resent(w.n) /\ Fault
             /\ IF w.op = "turn"
                THEN /\ state' = AppendTurn(state, w.n)
                     /\ writer' = "saving"
                     /\ UNCHANGED writeChain
                ELSE /\ writeChain' = Tail(writeChain)
                     /\ UNCHANGED <<state, writer>>
          \/ /\ Fault
             /\ transcript' \in {transcript, Append(transcript, w.n), Resent(w.n)}
             /\ DropItem
    /\ UNCHANGED <<mainVars, recordVars, runVars, roomVars, jobVars, saved, expiring>>

\* persistTurn, second step: saveInterviewState, then updateJob({ turns }).
SaveTurnState ==
    /\ writer = "saving"
    /\ \/ /\ saved' = state
          /\ expiring' = expiring \ {"state"}
          /\ UpdateJob("writer", [turns |-> state.turns])
          /\ writer' = "updating"
          /\ UNCHANGED <<writeChain, faults>>
       \/ /\ Fault
          /\ \/ saved' = state /\ expiring' = expiring \ {"state"}
             \/ UNCHANGED <<saved, expiring>>
          /\ writeChain' = Tail(writeChain)
          /\ writer' = "idle"
          /\ UNCHANGED jobVars
    /\ UNCHANGED <<mainVars, recordVars, runVars, roomVars, state, transcript>>

\* persistTurn is over; enqueueWrite logs a rejection and goes on.
TurnPersisted ==
    /\ writer = "updating" /\ UpdateSettled("writer")
    /\ writer' = "idle"
    /\ writeChain' = Tail(writeChain)
    /\ UNCHANGED <<mainVars, recordVars, runVars, roomVars, jobVars, state, saved, transcript,
                   expiring, faults>>

\* The write onReconnect enqueues: stats.reconnects, in memory and in Redis.
BumpReconnects ==
    /\ writer = "idle" /\ writeChain # <<>> /\ Head(writeChain).op = "bump"
    /\ state' = [state EXCEPT !.reconnects = Head(writeChain).n]
    /\ writeChain' = Tail(writeChain)
    /\ \/ saved' = state' /\ expiring' = expiring \ {"state"} /\ UNCHANGED faults
       \/ /\ Fault
          /\ \/ saved' = state' /\ expiring' = expiring \ {"state"}
             \/ UNCHANGED <<saved, expiring>>
    /\ UNCHANGED <<mainVars, recordVars, runVars, roomVars, jobVars, writer, transcript>>

\* `actor` has awaited writeChain and everything enqueued before has been done.
ChainDrainedFor(actor) ==
    /\ writer = "idle" /\ writeChain # <<>> /\ Head(writeChain).op = actor
    /\ writeChain' = Tail(writeChain)
    /\ UNCHANGED <<writer, state, saved, transcript>>

Chains == PerformJobUpdate \/ AppendTranscript \/ SaveTurnState \/ TurnPersisted \/ BumpReconnects

-----------------------------------------------------------------------------
(* LiveKit: the realtime session and the room *)

\* Mutation: done() does not race the end of the interview.
SettleDoneOnError(kind) ==
    outcome' = IF run = "waiting" /\ outcome = "none" /\ kind = "failed" THEN kind ELSE outcome

\* session.done() is a race of `closed` and interviewEnded: while the run awaits
\* it, the first of the two decides.
SettleDone(kind) ==
    outcome' = IF run = "waiting" /\ outcome = "none" THEN kind ELSE outcome

\* ConversationItemAdded with text: an interviewer or candidate turn, or a system note.
ItemAdded ==
    /\ session = "live" /\ Len(said) < MaxItems
    /\ \E kind \in {"turn", "note"} :
         /\ said' = Append(said, kind)
         /\ Enqueue(<<[op |-> kind, n |-> Len(said) + 1]>>)
    /\ UNCHANGED <<mainVars, recordVars, runVars, interviewEnd, room, jobVars,
                   writer, state, saved, transcript, expiring, faults>>

\* The Close event of a live session: CloseReason.ERROR makes it "failed".
SessionClosed ==
    /\ session = "live"
    /\ \E kind \in {"failed", "ended"} : session' = kind /\ SettleDone(kind)
    /\ UNCHANGED <<mainVars, recordVars, run, attempt, seed, roomVars, jobVars, stateVars,
                   expiring, faults>>

\* watchInterviewEnd resolves: the duration cap, the candidate's absence, or the
\* room's disconnection.  It is registered when the run is started.  A timer or a
\* room event comes only when the run awaits I/O, not between two microtasks.
InterviewEnds ==
    /\ run \notin {"idle", "looping", "created"} /\ interviewEnd = "none"
    /\ \/ interviewEnd' = "left_open" /\ UNCHANGED room
       \/ interviewEnd' = "room_disconnected" /\ room' = "gone"
    /\ SettleDone("ended")
    /\ UNCHANGED <<mainVars, recordVars, run, attempt, session, seed, said, jobVars, stateVars,
                   expiring, faults>>

-----------------------------------------------------------------------------
(* The recording task (agent.ts) and Recorder.start *)

\* Its catch block: recordingError is set and activeSession, if live, is being
\* closed.  A session whose start is still pending is not: start goes on.
AbortRecording ==
    /\ recordingError' = TRUE
    /\ recorder' = IF session = "live" THEN "closing" ELSE "rejected"

\* Preflight and gateway.start succeed, or recording is disabled.
RecorderStarts ==
    /\ recorder = "starting"
    /\ recording' = IF policy = "disabled" THEN "disabled" ELSE "active"
    /\ egress' = IF policy = "disabled" THEN egress ELSE "running"
    /\ recorder' = "updating"
    /\ UpdateJob("recorder", [recording |-> recording'])
    /\ UNCHANGED <<mainVars, policy, recordingError, runVars, roomVars, stateVars, expiring, faults>>

\* They fail, with or without an Egress started on the server: "failed" when
\* optional, rethrown when required.
RecorderStartFails ==
    /\ recorder = "starting" /\ policy # "disabled"
    /\ egress' \in {"none", "running"}
    /\ IF policy = "required"
       THEN AbortRecording /\ UNCHANGED <<recording, jobVars>>
       ELSE /\ recording' = "failed" /\ recorder' = "updating"
            /\ UpdateJob("recorder", [recording |-> "failed"])
            /\ UNCHANGED recordingError
    /\ UNCHANGED <<mainVars, policy, runVars, roomVars, stateVars, expiring, faults>>

\* The awaited updateJob({ egressId, recording }) is done or has rejected.
RecorderUpdated ==
    /\ recorder = "updating" /\ UpdateSettled("recorder")
    /\ IF reply["recorder"] = "ok"
       THEN recorder' = "resolved" /\ UNCHANGED recordingError
       ELSE AbortRecording
    /\ UNCHANGED <<mainVars, policy, recording, egress, runVars, roomVars, jobVars, stateVars,
                   expiring, faults>>

\* activeSession.close() is done: the session's Close event, then the rethrow.
RecorderClosesSession ==
    /\ recorder = "closing"
    /\ recorder' = "rejected"
    /\ IF session = "live"
       THEN session' = "ended" /\ SettleDone("ended")
       ELSE UNCHANGED <<session, outcome>>
    /\ UNCHANGED <<mainVars, policy, recording, recordingError, egress, run, attempt, seed,
                   roomVars, jobVars, stateVars, expiring, faults>>

Recorder == RecorderStarts \/ RecorderStartFails \/ RecorderUpdated \/ RecorderClosesSession

-----------------------------------------------------------------------------
(* ContextManager.run, with the dependencies agent.ts gives it *)

\* Mutation: the abort is never looked at.
NeverAborted == FALSE

\* isAborted, and the check at the top of managed.start.
Aborted == recordingError

\* Mutation: the chain is awaited before the bump is enqueued.
AwaitThenBump == <<[op |-> "run", n |-> 0], [op |-> "bump", n |-> attempt]>>

\* What onReconnect adds to the chain: the bump, then its own await.
BumpThenAwait == <<[op |-> "bump", n |-> attempt], [op |-> "run", n |-> 0]>>

\* The top of the loop: throwIfAborted, then the first session is created with
\* no transcript, or onReconnect enqueues the bump and awaits the chain.  What
\* createSession throws, outside the loop's try, ends the run.
RunLoops ==
    /\ run = "looping"
    /\ \/ /\ Aborted \/ attempt = 0
          /\ run' = "rejected" /\ UNCHANGED <<session, writeChain>>
       \/ ~Aborted /\ attempt = 0 /\ run' = "created" /\ session' = "created" /\ UNCHANGED writeChain
       \/ ~Aborted /\ attempt > 0 /\ run' = "draining" /\ Enqueue(BumpThenAwait) /\ UNCHANGED session
    /\ UNCHANGED <<mainVars, recordVars, attempt, outcome, seed, roomVars, jobVars,
                   writer, state, saved, transcript, expiring, faults>>

\* onReconnect: the chain is drained; updateJob("reconnecting").
RunDrained ==
    /\ run = "draining" /\ ChainDrainedFor("run")
    /\ UpdateJob("run", [status |-> "reconnecting", reconnects |-> attempt])
    /\ run' = "reconnecting"
    /\ UNCHANGED <<mainVars, recordVars, attempt, outcome, session, seed, roomVars, expiring, faults>>

\* onReconnect returns, or its rejection ends the run.
RunReconnecting ==
    /\ run = "reconnecting" /\ UpdateSettled("run")
    /\ run' = IF reply["run"] = "ok" THEN "seeding" ELSE "rejected"
    /\ UNCHANGED <<mainVars, recordVars, attempt, outcome, session, seed, roomVars, jobVars,
                   stateVars, expiring, faults>>

\* Mutation: the reseed is built from the in-memory turns alone.
RecoveryFromMemory(readable) == state.recentTurns

\* loadRecoverySource: the persisted transcript, or the in-memory turns when it
\* is empty or cannot be read.
RecoveryTranscript(readable) ==
    IF readable /\ transcript # <<>> THEN transcript ELSE state.recentTurns

\* buildSeed of a reconnect, throwIfAborted, createSession, which may throw too.
RunSeeds ==
    /\ run = "seeding"
    /\ \/ seed' = RecoveryTranscript(TRUE) /\ UNCHANGED faults
       \/ seed' = RecoveryTranscript(FALSE) /\ Fault
    /\ \/ run' = "rejected" /\ UNCHANGED session
       \/ ~Aborted /\ run' = "created" /\ session' = "created"
    /\ UNCHANGED <<mainVars, recordVars, attempt, outcome, roomVars, jobVars, stateVars, expiring>>

\* managed.start: its check of recordingError, then session.start.
RunStarts ==
    /\ run = "created"
    /\ IF Aborted
       THEN run' = "closing" /\ outcome' = "failed" /\ UNCHANGED session
       ELSE run' = "starting" /\ session' = "starting" /\ UNCHANGED outcome
    /\ UNCHANGED <<mainVars, recordVars, attempt, seed, roomVars, jobVars, stateVars, expiring, faults>>

\* session.start returns; managed.start goes on to updateJob("in_progress").
RunStarted ==
    /\ run = "starting"
    /\ session' = "live" /\ run' = "announcing"
    /\ UpdateJob("run", [status |-> "in_progress"])
    /\ UNCHANGED <<mainVars, recordVars, attempt, outcome, seed, roomVars, stateVars, expiring, faults>>

\* session.start throws.
RunStartFails ==
    /\ run = "starting"
    /\ session' = "failed" /\ run' = "closing" /\ outcome' = "failed"
    /\ UNCHANGED <<mainVars, recordVars, attempt, seed, roomVars, jobVars, stateVars, expiring, faults>>

\* managed.start returns, and done() is called: `closed` goes first if both it
\* and interviewEnded have settled.  A rejected update counts as a failed start.
RunAnnounced ==
    /\ run = "announcing" /\ UpdateSettled("run")
    /\ IF reply["run"] = "ok"
       THEN /\ run' = "waiting"
            /\ outcome' = IF session \in {"failed", "ended"} THEN session
                          ELSE IF interviewEnd # "none" THEN "ended" ELSE "none"
       ELSE run' = "closing" /\ outcome' = "failed"
    /\ UNCHANGED <<mainVars, recordVars, attempt, session, seed, roomVars, jobVars, stateVars,
                   expiring, faults>>

\* done() has resolved.
RunDone ==
    /\ run = "waiting" /\ outcome # "none"
    /\ run' = "closing"
    /\ UNCHANGED <<mainVars, recordVars, attempt, outcome, session, seed, roomVars, jobVars,
                   stateVars, expiring, faults>>

\* session.close() is done, then the verdict on this attempt.
RunCloses ==
    /\ run = "closing"
    /\ session' = "none" /\ outcome' = "none"
    /\ \/ Aborted /\ run' = "rejected" /\ UNCHANGED attempt
       \/ ~Aborted /\ outcome = "ended" /\ run' = "resolved" /\ UNCHANGED attempt
       \/ /\ ~Aborted /\ outcome = "failed"
          /\ attempt' = attempt + 1
          /\ run' = IF attempt' > MaxReconnects THEN "rejected" ELSE "looping"
    /\ UNCHANGED <<mainVars, recordVars, seed, roomVars, jobVars, stateVars, expiring, faults>>

Run == \/ RunLoops \/ RunDrained \/ RunReconnecting \/ RunSeeds \/ RunStarts
       \/ RunStarted \/ RunStartFails \/ RunAnnounced \/ RunDone \/ RunCloses

-----------------------------------------------------------------------------
(* entry() *)

\* tracker.create, the recovery snapshot, the instruction and the first state.
SetUp ==
    /\ main = "setup"
    /\ job' = [NoJob EXCEPT !.status = "starting"]
    /\ main' = "connecting"
    /\ UNCHANGED <<finalEvent, webhook, recordVars, runVars, roomVars, trackerWrites, reply,
                   stateVars, expiring, faults>>

\* One of those four writes fails: entry rejects before its try block.
SetUpFails ==
    /\ main = "setup" /\ Fault
    /\ job' \in {job, [NoJob EXCEPT !.status = "starting"]}
    /\ main' = "rejected"
    /\ UNCHANGED <<finalEvent, webhook, recordVars, runVars, roomVars, trackerWrites, reply,
                   stateVars, expiring>>

\* ctx.connect returns.
Connect ==
    /\ main = "connecting"
    /\ main' = "connected" /\ UpdateJob("main", [status |-> "connected"])
    /\ UNCHANGED <<finalEvent, webhook, recordVars, runVars, roomVars, stateVars, expiring, faults>>

\* The catch block: updateJob("failed"), awaited.
Catch == main' = "failing" /\ UpdateJob("main", [status |-> "failed"])

\* ctx.connect throws.
ConnectFails ==
    /\ main = "connecting" /\ Catch
    /\ UNCHANGED <<finalEvent, webhook, recordVars, runVars, roomVars, stateVars, expiring, faults>>

\* The recording task, the room watcher and the reconnect loop are started.
Connected ==
    /\ main = "connected" /\ UpdateSettled("main")
    /\ IF reply["main"] = "ok"
       THEN /\ main' = "racing" /\ recorder' = "starting" /\ run' = "looping"
            /\ UNCHANGED jobVars
       ELSE Catch /\ UNCHANGED <<recorder, run>>
    /\ UNCHANGED <<finalEvent, webhook, policy, recording, recordingError, egress, attempt, outcome,
                   session, seed, roomVars, stateVars, expiring, faults>>

\* Mutation: entry() goes on while the recording is still starting.
RecordingNotAwaited == recorder # "rejected"

\* `await recordingTask` returns.
RecordingResolved == recorder = "resolved"

\* Promise.race of the run and the recording task, then the await of the one
\* that has not settled.  Either rejection goes to the catch block.
RaceSettles ==
    /\ \/ main = "racing" /\ run = "resolved" /\ main' = "awaiting_recording" /\ UNCHANGED jobVars
       \/ main = "racing" /\ RecordingResolved /\ main' = "awaiting_run" /\ UNCHANGED jobVars
       \/ main = "awaiting_run" /\ run = "resolved" /\ main' = "awaiting_recording"
          /\ UNCHANGED jobVars
       \/ main \in {"racing", "awaiting_run"} /\ run = "rejected" /\ Catch
       \/ main \in {"racing", "awaiting_recording"} /\ recorder = "rejected" /\ Catch
    /\ UNCHANGED <<finalEvent, webhook, recordVars, runVars, roomVars, stateVars, expiring, faults>>

\* `await writeChain` of entry().
AwaitChain == Enqueue(<<[op |-> "main", n |-> 0]>>) /\ UNCHANGED <<writer, state, saved, transcript>>

\* Both have resolved: deleteRoomBestEffort unless the room is gone already.
InterviewEnded ==
    /\ main = "awaiting_recording" /\ RecordingResolved
    /\ IF interviewEnd = "room_disconnected"
       THEN main' = "draining" /\ AwaitChain
       ELSE main' = "deleting_room" /\ UNCHANGED stateVars
    /\ UNCHANGED <<finalEvent, webhook, recordVars, runVars, roomVars, jobVars, expiring, faults>>

\* deleteRoomBestEffort returns, whatever came of it.
RoomTornDown ==
    /\ main = "deleting_room"
    /\ room' \in {room, "gone"}
    /\ main' = "draining" /\ AwaitChain
    /\ UNCHANGED <<finalEvent, webhook, recordVars, runVars, interviewEnd, said, jobVars, expiring, faults>>

\* The turns are drained: updateJob("completed").
Drained ==
    /\ main = "draining" /\ ChainDrainedFor("main")
    /\ main' = "completing" /\ UpdateJob("main", [status |-> "completed"])
    /\ UNCHANGED <<finalEvent, webhook, recordVars, runVars, roomVars, expiring, faults>>

\* finalEvent flips, and the finally block begins by awaiting the chain.
Completed ==
    /\ main = "completing" /\ UpdateSettled("main")
    /\ IF reply["main"] = "ok"
       THEN finalEvent' = "job_completed" /\ main' = "final_drain" /\ AwaitChain /\ UNCHANGED jobVars
       ELSE Catch /\ UNCHANGED <<finalEvent, stateVars>>
    /\ UNCHANGED <<webhook, recordVars, runVars, roomVars, expiring, faults>>

\* updateJob("failed") is done or has rejected: the catch block throws either way.
Failed ==
    /\ main = "failing" /\ UpdateSettled("main")
    /\ main' = "final_drain" /\ AwaitChain
    /\ UNCHANGED <<finalEvent, webhook, recordVars, runVars, roomVars, jobVars, expiring, faults>>

FinalDrained ==
    /\ main = "final_drain" /\ ChainDrainedFor("main")
    /\ main' = "settling"
    /\ UNCHANGED <<finalEvent, webhook, recordVars, runVars, roomVars, jobVars, expiring, faults>>

\* Mutations: teardown does not wait for the run, or for the recording task.
RunNotAwaited == TRUE
RecorderNotAwaited == TRUE

\* interviewRun and recordingTask have settled, or were never started.
RunSettled == run \in {"idle", "resolved", "rejected"}
RecorderSettled == recorder \in {"idle", "resolved", "rejected"}

Settled ==
    /\ main = "settling" /\ RecorderSettled /\ RunSettled
    /\ main' = IF recording = "active" THEN "stopping" ELSE "finalizing"
    /\ UNCHANGED <<finalEvent, webhook, recordVars, runVars, roomVars, jobVars, stateVars, expiring, faults>>

\* recorder.stop returns, whether or not the Egress could be stopped.
EgressStopped ==
    /\ main = "stopping"
    /\ egress' \in {"stopped", "stop_failed"}
    /\ main' = "marking_stopped" /\ UpdateJob("main", [recording |-> "stopped"])
    /\ UNCHANGED <<finalEvent, webhook, policy, recorder, recording, recordingError, runVars, roomVars,
                   stateVars, expiring, faults>>

StopRecorded ==
    /\ main = "marking_stopped" /\ UpdateSettled("main")
    /\ main' = "finalizing"
    /\ UNCHANGED <<finalEvent, webhook, recordVars, runVars, roomVars, jobVars, stateVars, expiring, faults>>

\* The keys that exist when finalize comes.
PresentKeys == {"job", "state"} \cup (IF transcript = <<>> THEN {} ELSE {"transcript"})

\* store.finalize: EXPIRE on the keys that exist, all sent at once; when one
\* fails, any of the others may have been done, and entry() goes on.  No key has
\* a TTL before.
Finalize ==
    /\ main = "finalizing"
    /\ \/ expiring' = PresentKeys /\ UNCHANGED faults
       \/ Fault /\ expiring' \in SUBSET PresentKeys
    /\ main' = "reporting"
    /\ UNCHANGED <<finalEvent, webhook, recordVars, runVars, roomVars, jobVars, stateVars>>

\* tracker.get, then sendWebhook; a failed read leaves the finally block.
Report ==
    /\ main = "reporting"
    /\ \/ webhook' = [event |-> finalEvent, job |-> job] /\ UNCHANGED faults
       \/ Fault /\ UNCHANGED webhook
    /\ main' = "done"
    /\ UNCHANGED <<finalEvent, recordVars, runVars, roomVars, jobVars, stateVars, expiring>>

Main == \/ SetUp \/ SetUpFails \/ Connect \/ ConnectFails \/ Connected \/ RaceSettles
        \/ InterviewEnded \/ RoomTornDown \/ Drained \/ Completed \/ Failed \/ FinalDrained
        \/ Settled \/ EgressStopped \/ StopRecorded \/ Finalize \/ Report

\* The job is over and both chains are empty: nothing is left to happen.
Finished ==
    /\ main \in {"done", "rejected"} /\ trackerWrites = <<>> /\ writeChain = <<>>
    /\ UNCHANGED vars

-----------------------------------------------------------------------------
Next == Main \/ Recorder \/ Run \/ Chains \/ ItemAdded \/ SessionClosed \/ InterviewEnds \/ Finished

\* Fairness.  Every await of the code is on a promise that settles: Redis commands
\* (maxRetriesPerRequest bounds them), LiveKit and S3 calls, timers.  Conversation
\* items and the session's own close need not happen; the duration timer fires.  No
\* actor runs for ever, so that it is enough if one that can go on does.
Fairness == WF_vars(Main \/ Recorder \/ Run \/ Chains \/ InterviewEnds)

Spec == Init /\ [][Next]_vars
FairSpec == Spec /\ Fairness

-----------------------------------------------------------------------------
(* Type invariant *)

TypeOK ==
    /\ main \in {"setup", "rejected", "connecting", "connected", "racing", "awaiting_run",
                 "awaiting_recording", "deleting_room", "draining", "completing", "failing",
                 "final_drain", "settling", "stopping", "marking_stopped", "finalizing",
                 "reporting", "done"}
    /\ finalEvent \in {"job_failed", "job_completed"}
    /\ webhook \in [event : {"none", "job_failed", "job_completed"}, job : JobRecords]
    /\ policy \in {"disabled", "optional", "required"}
    /\ recorder \in {"idle", "starting", "updating", "closing", "resolved", "rejected"}
    /\ recording \in {"disabled", "active", "failed"}
    /\ recordingError \in BOOLEAN
    /\ egress \in {"none", "running", "stopped", "stop_failed"}
    /\ run \in {"idle", "looping", "draining", "reconnecting", "seeding", "created", "starting",
                "announcing", "waiting", "closing", "resolved", "rejected"}
    /\ attempt \in Nat
    /\ outcome \in {"none", "failed", "ended"}
    /\ session \in {"none", "created", "starting", "live", "failed", "ended"}
    /\ seed \in Seq(Nat)
    /\ interviewEnd \in {"none", "left_open", "room_disconnected"}
    /\ room \in {"open", "gone"}
    /\ said \in Seq({"turn", "note"})
    /\ trackerWrites \in Seq([by : Actors, patch : TrackerPatches])
    /\ reply \in [Actors -> {"ok", "error", "pending"}]
    /\ job \in JobRecords
    /\ writeChain \in Seq(ChainEntries)
    /\ writer \in {"idle", "saving", "updating"}
    /\ state \in InterviewStates /\ Len(state.recentTurns) <= RecentTurnsLimit
    /\ saved \in InterviewStates
    /\ transcript \in Seq(Nat)
    /\ expiring \subseteq Keys
    /\ faults \in 0..MaxFaults

-----------------------------------------------------------------------------
(* Safety *)

\* A recording failure that must fail the job is never reported as a completed
\* interview, however late it arrives (agent.ts:455-458).
NoCompletionAfterAbort == finalEvent = "job_completed" => ~recordingError

\* When teardown stops the Egress, expires the keys and reports, no session is
\* live or starting and no task of the job is running (agent.ts:510-516).
QuietTeardown ==
    main \in {"stopping", "marking_stopped", "finalizing", "reporting", "done"} =>
        /\ session = "none"
        /\ run \in {"idle", "resolved", "rejected"}
        /\ recorder \in {"idle", "resolved", "rejected"}

\* While Redis answers, a reseeded session has every item said in the sessions
\* before it, in order: onReconnect drains the chain before the seed is read.
ReseedSeesEverything ==
    run = "created" /\ attempt > 0 /\ faults = 0 => seed = [i \in 1..Len(said) |-> i]

\* A reseeded session starts only when the job record, and while Redis answers
\* the saved state too, tell of the reconnect.
ReconnectOnRecord ==
    run \in {"created", "starting"} /\ attempt > 0 =>
        /\ job.reconnects = attempt
        /\ faults = 0 => saved.reconnects = attempt

\* The number of interviewer and candidate turns said.
TurnsSaid == Cardinality({i \in DOMAIN said : said[i] = "turn"})

\* A job reported as completed has a record that says so; while Redis answers,
\* record, state and transcript also hold every turn and reconnect.
CompletedRecordIsWhole ==
    webhook.event = "job_completed" =>
        /\ webhook.job.status = "completed"
        /\ faults = 0 =>
             /\ webhook.job.turns = TurnsSaid /\ webhook.job.reconnects = attempt
             /\ saved.turns = TurnsSaid
             /\ transcript = [i \in 1..Len(said) |-> i]

\* The items the transcript holds.
Held == {transcript[i] : i \in DOMAIN transcript}

\* Write-through order: the job record never counts a turn the saved state does
\* not, nor the saved state one the transcript does not hold, whatever fails.
WriteThroughOrder == job.turns <= saved.turns /\ saved.turns <= Cardinality(Held)

\* The persisted transcript keeps the order of speech, whatever fails: an item is
\* dropped or, when its RPUSH is sent twice, repeated beside itself, and no item
\* overtakes another (agent.ts:131-137).
TranscriptInOrder ==
    \A i, j \in DOMAIN transcript : i < j => transcript[i] <= transcript[j]

\* An Egress whose id is known is asked to stop before the job is over, and while
\* Redis answers the record says so (agent.ts:511-525).
EgressStopAttempted ==
    main = "done" /\ recording = "active" =>
        /\ egress \in {"stopped", "stop_failed"}
        /\ faults = 0 => job.recording = "stopped"

\* A completed interview leaves no key without the completion TTL
\* (redisStore.ts:101-105): nothing is written after finalize.
CompletedKeysExpire ==
    main = "done" /\ finalEvent = "job_completed" /\ faults = 0 =>
        expiring = PresentKeys

-----------------------------------------------------------------------------
(* Liveness, and the abstract specification *)

\* Every job comes to its end, whatever order sessions, recording, room events
\* and failing Redis calls come in.
JobSettles == <>(main \in {"done", "rejected"})

\* The mapping to the abstract specification: a session talks from the moment it
\* is started, and the report is what the webhook tells.
Promise == INSTANCE JobPromise WITH
    talking <- session \in {"starting", "live"},
    aborted <- recordingError,
    report <- webhook.event

\* The job keeps the abstract promise, also while Redis calls fail: no session is
\* started beside another one or after the abort, and none outlives the report.
PromiseKept == Promise!Spec

\* While Redis answers, every job also does what the promise is fair to: it reports,
\* and every session ends (agent.ts:471-541).
PromiseFulfilled == [](faults = 0) => Promise!Fairness

-----------------------------------------------------------------------------
(* Statements of the repository the code does not keep *)

\* agent.ts:535: the final-state webhook is sent from the durable record.  A job
\* reported as failed is not recorded as still reconnecting.
FailedJobNotReconnecting == webhook.event = "job_failed" => webhook.job.status # "reconnecting"

\* recorder.ts:50-53: a recording that is not required never stops the interview.
OptionalRecordingNeverAborts == recordingError => policy = "required"

=============================================================================
