------------------------------ MODULE JobStart ------------------------------
(***************************************************************************)
(* A job from its dispatch to the keys it leaves in Redis, and a second    *)
(* dispatch after a crash.  entry() reads its configuration (JobConfig),   *)
(* creates the job's record and its other keys (src/agent.ts:56-126,       *)
(* src/state/redisStore.ts), talks, reconnects, and at the end puts a TTL  *)
(* on what it has written.  The child may die between any two calls: what  *)
(* it had in memory is gone, what is in Redis stays, and the job may be    *)
(* dispatched again under the same id.                                     *)
(*                                                                         *)
(* Inside one dispatch the calls of a turn are taken as they come; how the *)
(* chains interleave and fail there is InterviewJob's matter.  A call that *)
(* fails before the try block ends the child as a crash does.              *)
(***************************************************************************)
EXTENDS JobConfig, FiniteSets

CONSTANTS
    Documents,     \* name -> metadata document
    Environments,  \* environments a worker may have been started with
    Contexts,      \* job contexts: what each metadata source holds
    Followed,      \* bound: the contexts of the jobs followed past admission
    MaxDispatches, \* bound: times a job is dispatched
    MaxTurns       \* bound: turns said in all

ASSUME JobStartAssumption ==
    /\ \A d \in DOMAIN Documents : d \notin {"absent", "invalid"} /\ WellFormed(Documents[d])
    /\ \A c \in Contexts : c \in Seq({"absent", "invalid"} \cup DOMAIN Documents)
    /\ Followed \subseteq Contexts
    /\ MaxDispatches \in Nat /\ MaxTurns \in Nat

VARIABLES
    child,      \* the await entry() is at, or "none", "rejected", "ended"
    dispatches, \* times the job has been dispatched
    env,        \* the environment of the worker
    context,    \* the metadata sources of the present dispatch
    document,   \* the document its configuration comes from, or "none"
    turns,      \* state.stats.turns in the child's memory
    sequence,   \* the number appendTranscript has computed, 0 if none
    attempt,    \* reconnects of this dispatch
    seed,       \* what was read for the present session, or NoSeed; how much of the
                \* turns it is given is RecoverySelection's matter
    present,    \* keys of the job that exist
    expiring,   \* those that carry the TTL
    listed,     \* the job's id is in the index set
    record,     \* the value of each key
    stateTurns,
    snapshot,
    transcript,
    said,       \* history: the turns written and not expired, oldest first
    finalized   \* history: no dispatch has sent the EXPIREs yet ("none"), or the last
                \* that did saw all of them done ("whole") or one fail ("part")

childVars == <<child, dispatches, env, context, document, turns, sequence, attempt, seed>>
values == <<record, stateTurns, snapshot, transcript>>
keyVars == <<present, expiring, listed, values, said, finalized>>
vars == <<childVars, keyVars>>

-----------------------------------------------------------------------------
(* Redis *)

Keys == {"job", "state", "recovery", "instruction", "transcript"}

\* SET: the key exists, without a TTL.
SetKey(k) == present' = present \cup {k} /\ expiring' = expiring \ {k}

\* RPUSH: the key exists, and keeps the TTL it has.
PushKey(k) == present' = present \cup {k} /\ UNCHANGED expiring

NoRecord == [status |-> "absent", turns |-> 0]

\* Mutation: update's SADD is left out, and create's is not waited for.
IndexLater(next) == child' = next /\ listed' \in {listed, TRUE}

\* The SADD of saveJob, after its SET.
Index(next) == child' = next /\ listed' = TRUE

\* RedisJobTracker.update: from create to finalize the record is there, without a
\* TTL.  Its SADD adds nothing new.
UpdateRecord(patch) ==
    /\ record' = [f \in DOMAIN record |-> IF f \in DOMAIN patch THEN patch[f] ELSE record[f]]
    /\ SetKey("job") /\ listed' = TRUE

-----------------------------------------------------------------------------
(* The child *)

Cfg == Config(Documents[document], env)

NoSeed == [instruction |-> "absent", turns |-> <<>>, from |-> "none"]

Init ==
    /\ child = "none" /\ dispatches = 0
    /\ env \in {e \in Environments : EnvLoads(e)}
    /\ context \in Contexts
    /\ document = "none" /\ turns = 0 /\ sequence = 0 /\ attempt = 0 /\ seed = NoSeed
    /\ present = {} /\ expiring = {} /\ listed = FALSE
    /\ record = NoRecord /\ stateTurns = 0 /\ snapshot = "absent" /\ transcript = <<>>
    /\ said = <<>> /\ finalized = "none"

\* LiveKit starts a child for the job; a room's metadata may have been changed
\* since it was dispatched before.
Dispatch ==
    /\ child = "none" /\ dispatches < MaxDispatches
    /\ child' = "reading" /\ dispatches' = dispatches + 1
    /\ \/ UNCHANGED context
       \/ dispatches > 0 /\ context' \in Followed
    /\ UNCHANGED <<env, document, turns, sequence, attempt, seed, keyVars>>

\* extractJobMetadata, resolveJobConfig and assertProviderAllowed.
Read ==
    /\ child = "reading"
    /\ LET w == Winner(context)
       IN  IF w # "absent" /\ Accepted(Documents[w], env)
           THEN child' = "creating" /\ document' = w
           ELSE child' = "rejected" /\ UNCHANGED document
    /\ UNCHANGED <<dispatches, env, context, sequence, turns, attempt, seed, keyVars>>

\* tracker.create: saveJob's SET.
CreateRecord ==
    /\ child = "creating" /\ context \in Followed
    /\ child' = "indexing"
    /\ record' = [status |-> "starting", turns |-> 0] /\ SetKey("job")
    /\ UNCHANGED <<dispatches, env, context, sequence, document, turns, attempt, seed,
                   listed, stateTurns, snapshot, transcript, said, finalized>>

IndexRecord ==
    /\ child = "indexing" /\ Index("saving_snapshot")
    /\ UNCHANGED <<dispatches, env, context, sequence, document, turns, attempt, seed,
                   present, expiring, values, said, finalized>>

\* Mutation: a snapshot that is there is kept.
KeepSnapshot == IF "recovery" \in present THEN snapshot ELSE Cfg.recovery_snapshot.system_instruction

SnapshotSaved == Cfg.recovery_snapshot.system_instruction

SaveSnapshot ==
    /\ child = "saving_snapshot" /\ child' = "saving_instruction"
    /\ snapshot' = SnapshotSaved /\ SetKey("recovery")
    /\ UNCHANGED <<dispatches, env, context, sequence, document, turns, attempt, seed,
                   listed, record, stateTurns, transcript, said, finalized>>

SaveInstruction ==
    /\ child = "saving_instruction" /\ child' = "saving_state"
    /\ SetKey("instruction")
    /\ UNCHANGED <<dispatches, env, context, sequence, document, turns, attempt, seed,
                   listed, values, said, finalized>>

\* saveInterviewState(createInitialState()): counting begins anew.
SaveInitialState ==
    /\ child = "saving_state" /\ child' = "opening"
    /\ turns' = 0 /\ stateTurns' = 0 /\ SetKey("state")
    /\ UNCHANGED <<dispatches, env, context, sequence, document, attempt, seed,
                   listed, record, snapshot, transcript, said, finalized>>

\* The first session of a dispatch: buildSeed(false), and in_progress.
OpenFirstSession ==
    /\ child = "opening" /\ child' = "talking"
    /\ seed' = [instruction |-> Cfg.system_instruction, turns |-> <<>>, from |-> "config"]
    /\ UpdateRecord([status |-> "in_progress"])
    /\ UNCHANGED <<dispatches, env, context, sequence, document, turns, attempt,
                   stateTurns, snapshot, transcript, said, finalized>>

\* persistTurn: appendTranscript, then the state, then the record.  The first call
\* of appendTranscript is LLEN.
CountTranscript ==
    /\ child = "talking" /\ Len(said) < MaxTurns
    /\ child' = "counted" /\ sequence' = Len(transcript) + 1
    /\ UNCHANGED <<dispatches, env, context, document, turns, attempt, seed, keyVars>>

\* Its second is RPUSH.  One that loses its answer is sent again by the client, and
\* may then be done twice.
AppendTurn ==
    /\ child = "counted" /\ child' = "appended" /\ sequence' = 0
    /\ LET turn == <<dispatches, turns + 1>>
           event == [turn |-> turn, sequence |-> sequence]
       IN  /\ transcript' \in {transcript \o <<event>>, transcript \o <<event, event>>}
           /\ said' = Append(said, turn)
    /\ PushKey("transcript")
    /\ UNCHANGED <<dispatches, env, context, document, turns, attempt, seed,
                   listed, record, stateTurns, snapshot, finalized>>

\* Mutation: the record takes the place of the state.
RecordFirst == UpdateRecord([turns |-> turns + 1]) /\ UNCHANGED stateTurns

\* The state is written with the turn counted.
StateFirst == stateTurns' = turns + 1 /\ SetKey("state") /\ UNCHANGED <<record, listed>>

SaveTurnState ==
    /\ child = "appended" /\ child' = "state_saved"
    /\ turns' = turns + 1
    /\ StateFirst
    /\ UNCHANGED <<dispatches, env, context, sequence, document, attempt, seed,
                   snapshot, transcript, said, finalized>>

SaveTurnRecord ==
    /\ child = "state_saved" /\ child' = "talking"
    /\ UpdateRecord([turns |-> turns])
    /\ UNCHANGED <<dispatches, env, context, sequence, document, turns, attempt, seed,
                   stateTurns, snapshot, transcript, said, finalized>>

\* onReconnect: the state, then the record.
Reconnect ==
    /\ child = "talking" /\ attempt < Knob(env, "RECONNECT_MAX_RETRIES")
    /\ child' = "reconnecting" /\ attempt' = attempt + 1 /\ seed' = NoSeed
    /\ stateTurns' = turns /\ SetKey("state")
    /\ UNCHANGED <<dispatches, env, context, sequence, document, turns,
                   listed, record, snapshot, transcript, said, finalized>>

AnnounceReconnect ==
    /\ child = "reconnecting" /\ child' = "reseeding"
    /\ UpdateRecord([status |-> "reconnecting"])
    /\ UNCHANGED <<dispatches, env, context, sequence, document, turns, attempt, seed,
                   stateTurns, snapshot, transcript, said, finalized>>

\* The child's own turns, for a reseed that cannot read Redis.
RecentTurns == [i \in 1..turns |-> <<dispatches, i>>]

\* Mutation: what the child remembers is preferred.
SourceFromMemory == [instruction |-> snapshot, turns |-> RecentTurns, from |-> "redis"]

\* loadRecoverySource when Redis answers: the transcript, if there is any.
SourceFromRedis ==
    [instruction |-> IF "recovery" \in present THEN snapshot
                     ELSE Cfg.recovery_snapshot.system_instruction,
     turns |-> IF Len(transcript) > 0 THEN [i \in DOMAIN transcript |-> transcript[i].turn]
               ELSE RecentTurns,
     from |-> "redis"]

Reseed ==
    /\ child = "reseeding" /\ child' = "talking"
    /\ seed' \in {SourceFromRedis,
                  [instruction |-> Cfg.recovery_snapshot.system_instruction,
                   turns |-> RecentTurns, from |-> "memory"]}
    /\ UpdateRecord([status |-> "in_progress"])
    /\ UNCHANGED <<dispatches, env, context, sequence, document, turns, attempt,
                   stateTurns, snapshot, transcript, said, finalized>>

\* updateJob of the outcome, after the sessions are over.  A session that cannot be
\* started fails the job.
Settle(status) ==
    /\ \/ child = "talking"
       \/ child \in {"opening", "reconnecting", "reseeding"} /\ status = "failed"
    /\ child' = "finalizing"
    /\ seed' = NoSeed
    /\ UpdateRecord([status |-> status])
    /\ UNCHANGED <<dispatches, env, context, sequence, document, turns, attempt,
                   stateTurns, snapshot, transcript, said, finalized>>

\* Mutation: the instruction, which is for debugging, gets no TTL.
ExpiredButInstruction == present \ {"instruction"}

\* The keys RedisStore.finalize names; EXPIRE passes over one that is not there.
ExpiredKeys == present \cap Keys

\* RedisStore.finalize sends its EXPIREs at once; when one fails, any of the others
\* may have been done, and entry() logs it and goes on.
Finalize ==
    /\ child = "finalizing" /\ child' = "reporting"
    /\ \/ expiring' = ExpiredKeys /\ finalized' = "whole"
       \/ expiring' \in {expiring \cup done : done \in SUBSET ExpiredKeys} /\ finalized' = "part"
    /\ UNCHANGED <<dispatches, env, context, sequence, document, turns, attempt, seed,
                   present, listed, values, said>>

\* The webhook has been sent, or given up.
Report ==
    /\ child = "reporting" /\ child' = "ended"
    /\ UNCHANGED <<dispatches, env, context, sequence, document, turns, attempt, seed, keyVars>>

Alive == child \notin {"none", "rejected", "ended"}

\* The child dies: its memory is gone, Redis is as it is.
Crash ==
    /\ Alive
    /\ child' = "none" /\ document' = "none" /\ turns' = 0 /\ sequence' = 0
    /\ attempt' = 0 /\ seed' = NoSeed
    /\ UNCHANGED <<dispatches, env, context, keyVars>>

\* The TTL of a key runs out: also under a later dispatch, if that has not written the
\* key again, or only pushed to it.  The index set keeps the id.
Expire(k) ==
    /\ k \in expiring
    /\ present' = present \ {k} /\ expiring' = expiring \ {k}
    /\ record' = IF k = "job" THEN NoRecord ELSE record
    /\ stateTurns' = IF k = "state" THEN 0 ELSE stateTurns
    /\ snapshot' = IF k = "recovery" THEN "absent" ELSE snapshot
    /\ transcript' = IF k = "transcript" THEN <<>> ELSE transcript
    /\ said' = IF k = "transcript" THEN <<>> ELSE said
    /\ UNCHANGED <<childVars, listed, finalized>>

Starting == Read \/ CreateRecord \/ IndexRecord \/ SaveSnapshot \/ SaveInstruction
            \/ SaveInitialState \/ OpenFirstSession
Talking == CountTranscript \/ AppendTurn \/ SaveTurnState \/ SaveTurnRecord
           \/ Reconnect \/ AnnounceReconnect \/ Reseed
Ending == (\E s \in {"completed", "failed"} : Settle(s)) \/ Finalize \/ Report

Next == Dispatch \/ Starting \/ Talking \/ Ending \/ Crash \/ \E k \in Keys : Expire(k)

Spec == Init /\ [][Next]_vars

-----------------------------------------------------------------------------
(* Properties *)

\* The sources' first document that is JSON.
FirstParsed(i) ==
    /\ context[i] \in DOMAIN Documents
    /\ \A j \in 1..(i - 1) : context[j] \notin DOMAIN Documents

NoText(aliases) == \A i \in DOMAIN aliases : ~IsText(aliases[i])

\* The causes for which a document is refused, whatever its aliases' order.
Unusable(doc) ==
    \/ NoText(doc.interviewId)
    \/ NoText(doc.instruction) /\ NoText(doc.dataInstruction)
    \/ \E i \in DOMAIN doc.duration :
          /\ doc.duration[i].kind = "number" /\ doc.duration[i].value <= 0
          /\ \A j \in 1..(i - 1) : doc.duration[j].kind # "number"
    \/ "junk" \in {doc.interviewData, doc.questions}
    \/ {doc.enableRecording, doc.audioOnly} \cap {"junk", "text true", "text false"} # {}
    \/ LET named == {i \in DOMAIN doc.provider : IsText(doc.provider[i])}
           google == \/ named = {}
                     \/ \E i \in named : /\ doc.provider[i] \in {"google", "gemini"}
                                         /\ \A j \in named : i <= j
           openai == \E i \in named : doc.provider[i] = "openai" /\ \A j \in named : i <= j
       IN  /\ ~(openai /\ IsText(env.openaiApiKey))
           /\ ~(google /\ IsText(env.googleApiKey))
           /\ ~(google /\ env.googleVertexai \in {"true", "TRUE"} /\ IsText(env.googleProject))

\* What every part of the program that is handed a configuration counts on.
Whole(cfg) ==
    /\ IsText(cfg.participant_id) /\ IsText(cfg.model)
    /\ cfg.student_id # "absent" => IsText(cfg.student_id)
    /\ cfg.duration_minutes > 0 /\ cfg.recovery_snapshot.candidate # "absent"
    /\ cfg.recording.required => BoolOr(env.recordingRequired, FALSE)

\* A job is admitted exactly when its first source that parses describes an
\* interview the environment can hold, and a rejected one has written nothing:
\* one good alias is enough, an invalid source does not hide a later one, and the
\* credentials are looked at before the record exists.  What it is admitted with
\* is whole, whatever the document leaves out (agent.ts:57-60).
AdmissionIsExact ==
    /\ child = "rejected" =>
          \A i \in DOMAIN context : FirstParsed(i) => Unusable(Documents[context[i]])
    /\ child \notin {"none", "reading", "rejected"} =>
          \E i \in DOMAIN context : /\ FirstParsed(i) /\ document = context[i]
                                    /\ ~Unusable(Documents[context[i]]) /\ Whole(Cfg)
    /\ child = "rejected" /\ dispatches = 1 => present = {} /\ ~listed

\* Whichever way a session came by its instruction, from the configuration, from
\* Redis or from memory, it is the one of this dispatch's metadata, also if an
\* earlier dispatch has left another in Redis (agent.ts:116).
SessionsObeyTheDispatch ==
    seed # NoSeed => seed.instruction = SystemInstruction(Documents[document])

\* a is not said after b.
NotAfter(a, b) == a[1] < b[1] \/ (a[1] = b[1] /\ a[2] <= b[2])

\* What is read for a reseed from Redis has every turn of earlier dispatches that has
\* not expired, those of one that crashed included, and the transcript keeps the order
\* of speech across dispatches, also where an append is done twice
\* (redisStore.ts:62-68).
ReseedSpansDispatches ==
    /\ seed.from = "redis" => \A i \in DOMAIN said :
          said[i][1] < dispatches => said[i] \in Range(seed.turns)
    /\ \A i, j \in DOMAIN transcript :
          i < j => NotAfter(transcript[i].turn, transcript[j].turn)

\* The turns the transcript holds.
Written == {transcript[i].turn : i \in DOMAIN transcript}

\* Wherever the child dies, the record counts no turn the state does not, and the
\* state none the transcript does not hold (agent.ts:139-154).  Keys that carry a TTL
\* expire each in its own time, so this is for a job that has not been finalized.
CountersNeverAhead ==
    finalized = "none" => record.turns <= stateTurns /\ stateTurns <= Cardinality(Written)

\* What a job leaves that ended and whose EXPIREs were all done expires, all of it,
\* whatever an earlier dispatch that died had left without a TTL; and what a crashed
\* one leaves stays: no key carries a TTL before some dispatch has come to its end
\* (redisStore.ts:101-105).  A cancel's SET after the EXPIREs is JobTracker's matter.
KeysExpireOrPersist ==
    /\ child = "ended" /\ finalized = "whole" => expiring = present
    /\ finalized = "none" => expiring = {}

\* A job that no listing shows has left nothing but the record itself, wherever
\* its child has died: saveJob's two calls are not one, but nothing else of a job
\* is written between them (redisStore.ts:77-80).
UnlistedLeftNothing == ~listed => present \subseteq {"job"}

-----------------------------------------------------------------------------
(* Statements of the repository the code does not keep *)

\* docs/plans/completed/2026-06-01-phase-2-durable-state.md:55: the transcript has its
\* "sequence 1..N in order".  In JobStart.cfg in place of the invariants, TLC refutes it.
SequenceRunsOn == \A i \in DOMAIN transcript : transcript[i].sequence = i

\* livekit_ai_interview_agent_design_v3.md:1048: "A retry reloads InterviewState by
\* jobId from Redis and reseeds": the retry's sessions know what was said before.
RetryReseeds ==
    seed # NoSeed /\ seed.from # "memory" =>
        \A i \in DOMAIN said : said[i][1] < dispatches => said[i] \in Range(seed.turns)

=============================================================================
