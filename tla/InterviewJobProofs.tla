------------------------- MODULE InterviewJobProofs -------------------------
(***************************************************************************)
(* Theorems about InterviewJob, for any reconnect cap, any number of       *)
(* conversation items and any number of failing Redis calls: its types, an *)
(* abort and the teardown, the promise it fulfils (JobPromise), and what   *)
(* it leaves in Redis, which the two promise chains write while entry(),   *)
(* the recording task and the reconnect loop go on.                        *)
(***************************************************************************)
EXTENDS InterviewJob, SequenceTheorems, FiniteSetTheorems, TLAPS

-----------------------------------------------------------------------------
(* The operators on records *)

\* Laying a tracker patch over a job record gives a job record.
LEMMA MergeType ==
    ASSUME NEW record \in JobRecords, NEW patch \in TrackerPatches
    PROVE  Merge(record, patch) \in JobRecords
<1>1. CASE patch \in [status : Statuses]
  BY <1>1 DEF JobRecords, Merge
<1>2. CASE patch \in [status : Statuses, reconnects : Nat]
  BY <1>2 DEF JobRecords, Merge
<1>3. CASE patch \in [turns : Nat]
  BY <1>3 DEF JobRecords, Merge
<1>4. CASE patch \in [recording : RecordingStatuses]
  BY <1>4 DEF JobRecords, Merge
<1> QED  BY <1>1, <1>2, <1>3, <1>4 DEF TrackerPatches

\* appendTurn gives an interview state, and never outgrows the ring buffer.
LEMMA AppendTurnType ==
    ASSUME NEW s \in InterviewStates, Len(s.recentTurns) <= RecentTurnsLimit, NEW turn \in Nat
    PROVE  /\ AppendTurn(s, turn) \in InterviewStates
           /\ Len(AppendTurn(s, turn).recentTurns) <= RecentTurnsLimit
<1> DEFINE all == Append(s.recentTurns, turn)
           first == IF Len(all) > RecentTurnsLimit THEN Len(all) - RecentTurnsLimit + 1 ELSE 1
           kept == SubSeq(all, first, Len(all))
<1>1. all \in Seq(Nat) /\ Len(all) = Len(s.recentTurns) + 1
  BY DEF InterviewStates
<1>2. first \in 1..Len(all) /\ Len(all) - first + 1 <= RecentTurnsLimit
  BY <1>1, ConstantsAssumption
<1>3. kept \in Seq(Nat) /\ Len(kept) = Len(all) - first + 1
  BY <1>1, <1>2, SubSeqProperties
<1>4. AppendTurn(s, turn) =
        [recentTurns |-> kept, turns |-> s.turns + 1, reconnects |-> s.reconnects]
  BY DEF AppendTurn
<1> HIDE DEF all, first, kept
<1>5. Len(kept) <= RecentTurnsLimit
  BY <1>2, <1>3
<1>6. s.turns + 1 \in Nat /\ s.reconnects \in Nat
  BY DEF InterviewStates
<1> QED  BY <1>3, <1>4, <1>5, <1>6 DEF InterviewStates

\* What a sequence is taken apart into.
LEMMA HeadTailType ==
    ASSUME NEW S, NEW s \in Seq(S), s # <<>>
    PROVE  Head(s) \in S /\ Tail(s) \in Seq(S)
OBVIOUS

-----------------------------------------------------------------------------
(* The steps several actions share *)

\* The patches the code lays over the record.
LEMMA PatchTypes ==
    /\ \A status \in Statuses : [status |-> status] \in TrackerPatches
    /\ \A status \in Statuses, n \in Nat : [status |-> status, reconnects |-> n] \in TrackerPatches
    /\ \A n \in Nat : [turns |-> n] \in TrackerPatches
    /\ \A r \in RecordingStatuses : [recording |-> r] \in TrackerPatches
BY DEF TrackerPatches

\* updateJob keeps the queue, the replies and the record well typed.
LEMMA UpdateJobType ==
    ASSUME TypeOK, NEW actor \in Actors, NEW patch \in TrackerPatches, UpdateJob(actor, patch)
    PROVE  /\ trackerWrites' \in Seq([by : Actors, patch : TrackerPatches])
           /\ reply' \in [Actors -> {"ok", "error", "pending"}]
           /\ job' = job
<1>1. [by |-> actor, patch |-> patch] \in [by : Actors, patch : TrackerPatches]
  OBVIOUS
<1> QED  BY <1>1 DEF TypeOK, UpdateJob

\* Awaiting the chain takes the head off it.
LEMMA DrainType ==
    ASSUME TypeOK, NEW actor, ChainDrainedFor(actor)
    PROVE  /\ writeChain' \in Seq(ChainEntries)
           /\ UNCHANGED <<writer, state, saved, transcript>>
BY DEF TypeOK, ChainDrainedFor

\* enqueueWrite puts entries on it.
LEMMA EnqueueType ==
    ASSUME TypeOK, NEW entries \in Seq(ChainEntries), Enqueue(entries)
    PROVE  writeChain' \in Seq(ChainEntries)
BY DEF TypeOK, Enqueue

\* A failing call stays within the bound.
LEMMA FaultType ==
    ASSUME TypeOK, Fault
    PROVE  faults' \in 0..MaxFaults
BY ConstantsAssumption DEF TypeOK, Fault

-----------------------------------------------------------------------------
(* Type correctness *)

\* A turn being persisted is still at the head of the chain.
WriterHasItem == writer # "idle" => writeChain # <<>>

\* TypeOK is inductive together with that: SaveTurnState and TurnPersisted take
\* the head off the chain without looking whether there is one.
TypeInv == TypeOK /\ WriterHasItem

\* The job begins with typed variables and empty chains.
LEMMA InitTypeInv == Init => TypeInv
<1>1. NoJob \in JobRecords /\ InitialState \in InterviewStates
  BY DEF NoJob, JobRecords, Statuses, RecordingStatuses, InitialState, InterviewStates
<1>2. Len(InitialState.recentTurns) <= RecentTurnsLimit
  BY ConstantsAssumption DEF InitialState
<1>3. Init => reply \in [Actors -> {"ok", "error", "pending"}]
  BY DEF Init
<1>4. NoWebhook \in [event : {"none", "job_failed", "job_completed"}, job : JobRecords]
  BY <1>1 DEF NoWebhook
<1>5. 0 \in 0..MaxFaults /\ {} \subseteq Keys
  BY ConstantsAssumption
<1>6. Init => WriterHasItem
  BY DEF Init, WriterHasItem
<1>7. \A S : <<>> \in Seq(S)
  OBVIOUS
<1>8. Init => TypeOK
  <2> SUFFICES ASSUME Init PROVE TypeOK
    OBVIOUS
  <2>1. /\ trackerWrites \in Seq([by : Actors, patch : TrackerPatches])
        /\ writeChain \in Seq(ChainEntries)
        /\ said \in Seq({"turn", "note"}) /\ seed \in Seq(Nat) /\ transcript \in Seq(Nat)
    BY <1>7 DEF Init
  <2>2. job \in JobRecords /\ webhook \in [event : {"none", "job_failed", "job_completed"}, job : JobRecords]
    BY <1>1, <1>4 DEF Init
  <2>3. /\ state \in InterviewStates /\ Len(state.recentTurns) <= RecentTurnsLimit
        /\ saved \in InterviewStates
    BY <1>1, <1>2 DEF Init
  <2> QED  BY <2>1, <2>2, <2>3, <1>3, <1>5 DEF Init, TypeOK
<1> QED  BY <1>6, <1>8 DEF TypeInv

\* The chains.
LEMMA ChainsTypeInv == TypeInv /\ Chains => TypeInv'
<1> SUFFICES ASSUME TypeOK, WriterHasItem, Chains
             PROVE  TypeOK' /\ WriterHasItem'
  BY DEF TypeInv
<1> USE DEF mainVars, recordVars, runVars, roomVars, jobVars, stateVars
<1>1. CASE PerformJobUpdate
  <2> DEFINE w == Head(trackerWrites)
  <2>1. w \in [by : Actors, patch : TrackerPatches]
        /\ trackerWrites' \in Seq([by : Actors, patch : TrackerPatches])
    BY <1>1, HeadTailType DEF TypeOK, PerformJobUpdate
  <2>2. Merge(job, w.patch) \in JobRecords
    BY <2>1, MergeType DEF TypeOK
  <2>3. job' \in JobRecords
    BY <1>1, <2>2 DEF TypeOK, PerformJobUpdate
  <2>4. expiring' \subseteq Keys
    BY <1>1 DEF TypeOK, PerformJobUpdate
  <2>5. reply' \in [Actors -> {"ok", "error", "pending"}]
    BY <1>1 DEF TypeOK, PerformJobUpdate
  <2>6. faults' \in 0..MaxFaults
    BY <1>1, FaultType DEF TypeOK, PerformJobUpdate
  <2>7. WriterHasItem'
    BY <1>1 DEF WriterHasItem, PerformJobUpdate
  <2> QED  BY <1>1, <2>1, <2>3, <2>4, <2>5, <2>6, <2>7 DEF TypeOK, PerformJobUpdate
<1>2. CASE AppendTranscript
  <2> DEFINE w == Head(writeChain)
  <2>1. w \in ChainEntries /\ Tail(writeChain) \in Seq(ChainEntries)
    BY <1>2, HeadTailType DEF TypeOK, AppendTranscript
  <2> w.n \in Nat
    BY <2>1 DEF ChainEntries
  <2>2. AppendTurn(state, w.n) \in InterviewStates
        /\ Len(AppendTurn(state, w.n).recentTurns) <= RecentTurnsLimit
    BY <2>1, AppendTurnType DEF TypeOK
  <2>3. state' \in InterviewStates /\ Len(state'.recentTurns) <= RecentTurnsLimit
    BY <1>2, <2>2 DEF TypeOK, AppendTranscript, DropItem
  <2>4. transcript' \in Seq(Nat)
    <3>1. Append(transcript, w.n) \in Seq(Nat) /\ Resent(w.n) \in Seq(Nat)
      BY DEF TypeOK, Resent
    <3>2. transcript' \in {transcript, Append(transcript, w.n), Resent(w.n)}
      BY <1>2 DEF AppendTranscript
    <3> QED  BY <3>1, <3>2 DEF TypeOK
  <2>5. writeChain' \in Seq(ChainEntries) /\ writer' \in {"idle", "saving", "updating"}
    BY <1>2, <2>1 DEF TypeOK, AppendTranscript, DropItem
  <2>6. faults' \in 0..MaxFaults
    BY <1>2, FaultType DEF TypeOK, AppendTranscript
  <2>7. WriterHasItem'
    BY <1>2 DEF WriterHasItem, AppendTranscript, DropItem
  <2> QED  BY <1>2, <2>3, <2>4, <2>5, <2>6, <2>7, SMTT(60) DEF TypeOK, AppendTranscript
<1>3. CASE SaveTurnState
  <2>1. [turns |-> state.turns] \in TrackerPatches
    BY PatchTypes DEF TypeOK, InterviewStates
  <2>2. /\ trackerWrites' \in Seq([by : Actors, patch : TrackerPatches])
        /\ reply' \in [Actors -> {"ok", "error", "pending"}]
        /\ job' \in JobRecords
    BY <1>3, <2>1, UpdateJobType DEF TypeOK, SaveTurnState, Actors
  <2>3. Tail(writeChain) \in Seq(ChainEntries)
    BY <1>3 DEF TypeOK, SaveTurnState, WriterHasItem
  <2>4. writeChain' \in Seq(ChainEntries) /\ writer' \in {"idle", "saving", "updating"}
    BY <1>3, <2>3 DEF TypeOK, SaveTurnState
  <2>5. faults' \in 0..MaxFaults
    BY <1>3, FaultType DEF TypeOK, SaveTurnState
  <2>6. WriterHasItem'
    BY <1>3 DEF WriterHasItem, SaveTurnState
  <2> QED  BY <1>3, <2>2, <2>4, <2>5, <2>6 DEF TypeOK, SaveTurnState
<1>4. CASE TurnPersisted
  BY <1>4 DEF TypeOK, WriterHasItem, TurnPersisted
<1>5. CASE BumpReconnects
  <2>1. Head(writeChain) \in ChainEntries /\ Tail(writeChain) \in Seq(ChainEntries)
    BY <1>5, HeadTailType DEF TypeOK, BumpReconnects
  <2>2. state' \in InterviewStates /\ Len(state'.recentTurns) <= RecentTurnsLimit
    BY <1>5, <2>1 DEF TypeOK, BumpReconnects, InterviewStates, ChainEntries
  <2>3. saved' \in InterviewStates /\ expiring' \subseteq Keys
    BY <1>5, <2>2 DEF TypeOK, BumpReconnects
  <2>4. faults' \in 0..MaxFaults
    BY <1>5, FaultType DEF TypeOK, BumpReconnects
  <2> QED  BY <1>5, <2>1, <2>2, <2>3, <2>4 DEF TypeOK, WriterHasItem, BumpReconnects
<1> QED  BY <1>1, <1>2, <1>3, <1>4, <1>5 DEF Chains

\* The room, and the sessions' own events.
LEMMA RoomTypeInv == TypeInv /\ (ItemAdded \/ SessionClosed \/ InterviewEnds) => TypeInv'
<1> SUFFICES ASSUME TypeOK, WriterHasItem, ItemAdded \/ SessionClosed \/ InterviewEnds
             PROVE  TypeOK' /\ WriterHasItem'
  BY DEF TypeInv
<1> USE DEF mainVars, recordVars, runVars, roomVars, jobVars, stateVars
<1>1. CASE ItemAdded
  <2>1. PICK kind \in {"turn", "note"} :
          /\ said' = Append(said, kind)
          /\ Enqueue(<<[op |-> kind, n |-> Len(said) + 1]>>)
    BY <1>1 DEF ItemAdded
  <2>2. [op |-> kind, n |-> Len(said) + 1] \in ChainEntries
    BY DEF TypeOK, ChainEntries
  <2>3. <<[op |-> kind, n |-> Len(said) + 1]>> \in Seq(ChainEntries)
    BY <2>2
  <2>4. writeChain' \in Seq(ChainEntries)
    BY <2>1, <2>3, EnqueueType
  <2>5. said' \in Seq({"turn", "note"})
    BY <2>1 DEF TypeOK
  <2>6. WriterHasItem'
    BY <1>1, <2>1, <2>2 DEF ItemAdded, TypeOK, WriterHasItem, Enqueue
  <2> QED  BY <1>1, <2>4, <2>5, <2>6 DEF TypeOK, ItemAdded
<1>2. CASE SessionClosed
  BY <1>2 DEF TypeOK, WriterHasItem, SessionClosed, SettleDone
<1>3. CASE InterviewEnds
  BY <1>3 DEF TypeOK, WriterHasItem, InterviewEnds, SettleDone
<1> QED  BY <1>1, <1>2, <1>3

\* The recording task.
LEMMA RecorderTypeInv == TypeInv /\ Recorder => TypeInv'
<1> SUFFICES ASSUME TypeOK, WriterHasItem, Recorder
             PROVE  TypeOK' /\ WriterHasItem'
  BY DEF TypeInv
<1> USE DEF mainVars, recordVars, runVars, roomVars, jobVars, stateVars
<1>1. "recorder" \in Actors
  BY DEF Actors
<1>2. \A r \in {"disabled", "active", "failed"} : [recording |-> r] \in TrackerPatches
  BY PatchTypes DEF RecordingStatuses
<1>3. CASE RecorderStarts
  <2>1. recording' \in {"disabled", "active", "failed"}
    BY <1>3 DEF RecorderStarts
  <2>2. /\ trackerWrites' \in Seq([by : Actors, patch : TrackerPatches])
        /\ reply' \in [Actors -> {"ok", "error", "pending"}]
        /\ job' \in JobRecords
    <3> DEFINE patch == [recording |-> recording']
    <3>1. patch \in TrackerPatches /\ UpdateJob("recorder", patch)
      BY <1>2, <1>3, <2>1 DEF RecorderStarts
    <3> HIDE DEF patch
    <3> QED  BY <1>1, <3>1, UpdateJobType DEF TypeOK
  <2> QED  BY <1>3, <2>1, <2>2 DEF TypeOK, WriterHasItem, RecorderStarts
<1>4. CASE RecorderStartFails
  <2>1. /\ trackerWrites' \in Seq([by : Actors, patch : TrackerPatches])
        /\ reply' \in [Actors -> {"ok", "error", "pending"}]
        /\ job' \in JobRecords
    BY <1>1, <1>2, <1>4, UpdateJobType DEF TypeOK, RecorderStartFails
  <2>2. recordingError' \in BOOLEAN
    BY <1>4 DEF TypeOK, RecorderStartFails, AbortRecording
  <2>3. recorder' \in {"updating", "closing", "rejected"} /\ recording' \in {recording, "failed"}
    BY <1>4 DEF RecorderStartFails, AbortRecording
  <2> QED  BY <1>4, <2>1, <2>2, <2>3 DEF TypeOK, WriterHasItem, RecorderStartFails
<1>5. CASE RecorderUpdated
  <2>1. recordingError' \in BOOLEAN
    BY <1>5 DEF TypeOK, RecorderUpdated, AbortRecording
  <2>2. recorder' \in {"resolved", "closing", "rejected"}
    BY <1>5 DEF RecorderUpdated, AbortRecording
  <2> QED  BY <1>5, <2>1, <2>2 DEF TypeOK, WriterHasItem, RecorderUpdated
<1>6. CASE RecorderClosesSession
  BY <1>6 DEF TypeOK, WriterHasItem, RecorderClosesSession, SettleDone
<1> QED  BY <1>3, <1>4, <1>5, <1>6 DEF Recorder

\* The reconnect loop.
LEMMA RunTypeInv == TypeInv /\ Run => TypeInv'
<1> SUFFICES ASSUME TypeOK, WriterHasItem, Run
             PROVE  TypeOK' /\ WriterHasItem'
  BY DEF TypeInv
<1> USE DEF mainVars, recordVars, runVars, roomVars, jobVars, stateVars
<1>1. "run" \in Actors
  BY DEF Actors
<1>2. CASE RunLoops
  <2>1. BumpThenAwait \in Seq(ChainEntries) /\ BumpThenAwait # <<>>
    BY DEF TypeOK, BumpThenAwait, ChainEntries
  <2>2. writeChain' \in Seq(ChainEntries)
    BY <1>2, <2>1, EnqueueType DEF TypeOK, RunLoops
  <2>3. WriterHasItem'
    BY <1>2, <2>1 DEF TypeOK, WriterHasItem, RunLoops, Enqueue
  <2> QED  BY <1>2, <2>2, <2>3 DEF TypeOK, RunLoops
<1>3. CASE RunDrained
  <2> DEFINE patch == [status |-> "reconnecting", reconnects |-> attempt]
  <2>1. patch \in TrackerPatches /\ UpdateJob("run", patch)
    BY <1>3, PatchTypes DEF TypeOK, RunDrained, Statuses
  <2> HIDE DEF patch
  <2>2. /\ trackerWrites' \in Seq([by : Actors, patch : TrackerPatches])
        /\ reply' \in [Actors -> {"ok", "error", "pending"}]
        /\ job' \in JobRecords
    BY <1>1, <2>1, UpdateJobType DEF TypeOK
  <2>3. writeChain' \in Seq(ChainEntries) /\ UNCHANGED <<writer, state, saved, transcript>>
        /\ writer = "idle"
    BY <1>3, DrainType DEF RunDrained, ChainDrainedFor
  <2> QED  BY <1>3, <2>2, <2>3 DEF TypeOK, WriterHasItem, RunDrained
<1>4. CASE RunReconnecting
  BY <1>4 DEF TypeOK, WriterHasItem, RunReconnecting
<1>5. CASE RunSeeds
  <2>1. seed' \in Seq(Nat)
    BY <1>5 DEF TypeOK, RunSeeds, RecoveryTranscript, InterviewStates
  <2>2. faults' \in 0..MaxFaults
    BY <1>5, FaultType DEF TypeOK, RunSeeds
  <2> QED  BY <1>5, <2>1, <2>2 DEF TypeOK, WriterHasItem, RunSeeds
<1>6. CASE RunStarts
  BY <1>6 DEF TypeOK, WriterHasItem, RunStarts
<1>7. CASE RunStarted
  <2>1. [status |-> "in_progress"] \in TrackerPatches
    BY PatchTypes DEF Statuses
  <2>2. /\ trackerWrites' \in Seq([by : Actors, patch : TrackerPatches])
        /\ reply' \in [Actors -> {"ok", "error", "pending"}]
        /\ job' \in JobRecords
    BY <1>1, <1>7, <2>1, UpdateJobType DEF TypeOK, RunStarted
  <2> QED  BY <1>7, <2>2 DEF TypeOK, WriterHasItem, RunStarted
<1>8. CASE RunStartFails
  BY <1>8 DEF TypeOK, WriterHasItem, RunStartFails
<1>9. CASE RunAnnounced
  BY <1>9 DEF TypeOK, WriterHasItem, RunAnnounced
<1>10. CASE RunDone
  BY <1>10 DEF TypeOK, WriterHasItem, RunDone
<1>11. CASE RunCloses
  BY <1>11 DEF TypeOK, WriterHasItem, RunCloses
<1> QED  BY <1>2, <1>3, <1>4, <1>5, <1>6, <1>7, <1>8, <1>9, <1>10, <1>11 DEF Run

\* Its own drain: the entry function has awaited the chain, or awaits it now.
LEMMA AwaitChainType ==
    ASSUME TypeOK, WriterHasItem, AwaitChain
    PROVE  /\ writeChain' \in Seq(ChainEntries)
           /\ UNCHANGED <<writer, state, saved, transcript>>
           /\ WriterHasItem'
<1> DEFINE entry == [op |-> "main", n |-> 0]
<1>1. <<entry>> \in Seq(ChainEntries) /\ Enqueue(<<entry>>)
  BY DEF AwaitChain, ChainEntries
<1>2. writeChain' # <<>>
  BY <1>1 DEF Enqueue, TypeOK
<1> HIDE DEF entry
<1>3. writeChain' \in Seq(ChainEntries)
  BY <1>1, EnqueueType
<1> QED  BY <1>2, <1>3 DEF AwaitChain, WriterHasItem

\* The entry function updates the record with a status, or with "stopped".
LEMMA MainUpdateType ==
    ASSUME TypeOK, \/ UpdateJob("main", [status |-> "connected"])
                   \/ UpdateJob("main", [status |-> "completed"])
                   \/ UpdateJob("main", [status |-> "failed"])
                   \/ UpdateJob("main", [recording |-> "stopped"])
    PROVE  /\ trackerWrites' \in Seq([by : Actors, patch : TrackerPatches])
           /\ reply' \in [Actors -> {"ok", "error", "pending"}]
           /\ job' \in JobRecords
<1>1. PICK patch \in TrackerPatches : UpdateJob("main", patch)
  BY PatchTypes DEF Statuses, RecordingStatuses
<1>2. "main" \in Actors
  BY DEF Actors
<1> QED  BY <1>1, <1>2, UpdateJobType DEF TypeOK

\* entry().
LEMMA MainTypeInv == TypeInv /\ Main => TypeInv'
<1> SUFFICES ASSUME TypeOK, WriterHasItem, Main
             PROVE  TypeOK' /\ WriterHasItem'
  BY DEF TypeInv
<1> USE DEF mainVars, recordVars, runVars, roomVars, jobVars, stateVars
<1>1. CASE SetUp
  <2>1. job' \in JobRecords
    BY <1>1 DEF SetUp, NoJob, JobRecords, Statuses, RecordingStatuses
  <2> QED  BY <1>1, <2>1 DEF TypeOK, WriterHasItem, SetUp
<1>2. CASE SetUpFails
  <2>1. [NoJob EXCEPT !.status = "starting"] \in JobRecords
    BY DEF NoJob, JobRecords, Statuses, RecordingStatuses
  <2>2. job' \in JobRecords /\ faults' \in 0..MaxFaults
    BY <1>2, <2>1, FaultType DEF TypeOK, SetUpFails
  <2> QED  BY <1>2, <2>2 DEF TypeOK, WriterHasItem, SetUpFails
<1>3. CASE Connect
  <2>1. /\ trackerWrites' \in Seq([by : Actors, patch : TrackerPatches])
        /\ reply' \in [Actors -> {"ok", "error", "pending"}]
        /\ job' \in JobRecords
    BY <1>3, MainUpdateType DEF Connect
  <2> QED  BY <1>3, <2>1 DEF TypeOK, WriterHasItem, Connect
<1>4. CASE ConnectFails
  <2>1. /\ trackerWrites' \in Seq([by : Actors, patch : TrackerPatches])
        /\ reply' \in [Actors -> {"ok", "error", "pending"}]
        /\ job' \in JobRecords
    BY <1>4, MainUpdateType DEF ConnectFails, Catch
  <2> QED  BY <1>4, <2>1 DEF TypeOK, WriterHasItem, ConnectFails, Catch
<1>5. CASE Connected
  <2>1. /\ trackerWrites' \in Seq([by : Actors, patch : TrackerPatches])
        /\ reply' \in [Actors -> {"ok", "error", "pending"}]
        /\ job' \in JobRecords
    BY <1>5, MainUpdateType DEF TypeOK, Connected, Catch
  <2> QED  BY <1>5, <2>1 DEF TypeOK, WriterHasItem, Connected, Catch
<1>6. CASE RaceSettles
  <2>1. /\ trackerWrites' \in Seq([by : Actors, patch : TrackerPatches])
        /\ reply' \in [Actors -> {"ok", "error", "pending"}]
        /\ job' \in JobRecords
    BY <1>6, MainUpdateType DEF TypeOK, RaceSettles, Catch
  <2>2. main' \in {"awaiting_recording", "awaiting_run", "failing"}
    BY <1>6 DEF RaceSettles, Catch
  <2> QED  BY <1>6, <2>1, <2>2 DEF TypeOK, WriterHasItem, RaceSettles
<1>7. CASE InterviewEnded
  <2>1. /\ writeChain' \in Seq(ChainEntries) /\ WriterHasItem'
        /\ UNCHANGED <<writer, state, saved, transcript>>
    BY <1>7, AwaitChainType DEF TypeOK, WriterHasItem, InterviewEnded
  <2>2. main' \in {"draining", "deleting_room"}
    BY <1>7 DEF InterviewEnded
  <2> QED  BY <1>7, <2>1, <2>2 DEF TypeOK, InterviewEnded
<1>8. CASE RoomTornDown
  <2>1. /\ writeChain' \in Seq(ChainEntries) /\ WriterHasItem'
        /\ UNCHANGED <<writer, state, saved, transcript>>
    BY <1>8, AwaitChainType DEF RoomTornDown
  <2> QED  BY <1>8, <2>1 DEF TypeOK, RoomTornDown
<1>9. CASE Drained
  <2>1. /\ trackerWrites' \in Seq([by : Actors, patch : TrackerPatches])
        /\ reply' \in [Actors -> {"ok", "error", "pending"}]
        /\ job' \in JobRecords
    BY <1>9, MainUpdateType DEF Drained
  <2>2. /\ writeChain' \in Seq(ChainEntries) /\ writer = "idle"
        /\ UNCHANGED <<writer, state, saved, transcript>>
    BY <1>9, DrainType DEF Drained, ChainDrainedFor
  <2> QED  BY <1>9, <2>1, <2>2 DEF TypeOK, WriterHasItem, Drained
<1>10. CASE Completed
  <2>1. /\ trackerWrites' \in Seq([by : Actors, patch : TrackerPatches])
        /\ reply' \in [Actors -> {"ok", "error", "pending"}]
        /\ job' \in JobRecords
    BY <1>10, MainUpdateType DEF TypeOK, Completed, Catch
  <2>2. /\ writeChain' \in Seq(ChainEntries) /\ WriterHasItem'
        /\ UNCHANGED <<writer, state, saved, transcript>>
    BY <1>10, AwaitChainType DEF TypeOK, WriterHasItem, Completed
  <2>3. /\ main' \in {"final_drain", "failing"} /\ finalEvent' \in {finalEvent, "job_completed"}
    BY <1>10 DEF Completed, Catch
  <2> QED  BY <1>10, <2>1, <2>2, <2>3 DEF TypeOK, Completed
<1>11. CASE Failed
  <2>1. /\ writeChain' \in Seq(ChainEntries) /\ WriterHasItem'
        /\ UNCHANGED <<writer, state, saved, transcript>>
    BY <1>11, AwaitChainType DEF Failed
  <2> QED  BY <1>11, <2>1 DEF TypeOK, Failed
<1>12. CASE FinalDrained
  <2>1. /\ writeChain' \in Seq(ChainEntries) /\ writer = "idle"
        /\ UNCHANGED <<writer, state, saved, transcript>>
    BY <1>12, DrainType DEF FinalDrained, ChainDrainedFor
  <2> QED  BY <1>12, <2>1 DEF TypeOK, WriterHasItem, FinalDrained
<1>13. CASE Settled
  BY <1>13 DEF TypeOK, WriterHasItem, Settled
<1>14. CASE EgressStopped
  <2>1. /\ trackerWrites' \in Seq([by : Actors, patch : TrackerPatches])
        /\ reply' \in [Actors -> {"ok", "error", "pending"}]
        /\ job' \in JobRecords
    BY <1>14, MainUpdateType DEF EgressStopped
  <2> QED  BY <1>14, <2>1 DEF TypeOK, WriterHasItem, EgressStopped
<1>15. CASE StopRecorded
  BY <1>15 DEF TypeOK, WriterHasItem, StopRecorded
<1>16. CASE Finalize
  <2>1. expiring' \subseteq Keys
    BY <1>16 DEF TypeOK, Finalize, PresentKeys, Keys
  <2>2. faults' \in 0..MaxFaults
    BY <1>16, FaultType DEF TypeOK, Finalize
  <2> QED  BY <1>16, <2>1, <2>2 DEF TypeOK, WriterHasItem, Finalize
<1>17. CASE Report
  <2>1. webhook' \in [event : {"none", "job_failed", "job_completed"}, job : JobRecords]
    BY <1>17 DEF TypeOK, Report
  <2>2. faults' \in 0..MaxFaults
    BY <1>17, FaultType DEF TypeOK, Report
  <2> QED  BY <1>17, <2>1, <2>2 DEF TypeOK, WriterHasItem, Report
<1> QED  BY <1>1, <1>2, <1>3, <1>4, <1>5, <1>6, <1>7, <1>8, <1>9, <1>10, <1>11, <1>12, <1>13,
            <1>14, <1>15, <1>16, <1>17 DEF Main

\* Every step keeps TypeInv.
LEMMA NextTypeInv == TypeInv /\ [Next]_vars => TypeInv'
<1>1. TypeInv /\ UNCHANGED vars => TypeInv'
  BY DEF TypeInv, TypeOK, WriterHasItem, vars, mainVars, recordVars, runVars, roomVars, jobVars,
         stateVars
<1> QED  BY <1>1, MainTypeInv, RecorderTypeInv, RunTypeInv, ChainsTypeInv, RoomTypeInv
         DEF Next, Finished

\* In every behaviour of the job, with or without failing Redis calls, every
\* variable keeps its type and the ring buffer of turns its limit
\* (interviewState.ts:53-63, agent.ts:139-155).
THEOREM TypeCorrect == Spec => []TypeOK
<1>1. Spec => []TypeInv
  BY InitTypeInv, NextTypeInv, PTL DEF Spec
<1> QED  BY <1>1, PTL DEF TypeInv

-----------------------------------------------------------------------------
(* Control: where the entry function is, and what the other tasks may be doing *)

Early == {"setup", "connecting", "connected", "rejected"}
Late == {"stopping", "marking_stopped", "finalizing", "reporting", "done"}

\* Before ctx.connect nothing else has been started.
NothingStartedYet == main \in Early => run = "idle" /\ recorder = "idle"

\* Past its own awaits, entry() has nothing running beside it.
AllSettled == main \in Late => RunSettled /\ RecorderSettled

\* A session belongs to one attempt of the run: there is none before it is
\* created and none after it is closed.
SessionOfTheRun ==
    /\ run \in {"idle", "looping", "draining", "reconnecting", "seeding", "resolved", "rejected"}
           => session = "none"
    /\ run = "created" => session = "created"
    /\ run = "starting" => session = "starting"

\* The recording task has aborted the job only where it can no longer resolve.
AbortedNotResolved == recordingError => recorder \in {"closing", "rejected"}

\* The success path goes past its await of the recording only when that resolved.
RecordingFirst ==
    main \in {"deleting_room", "draining", "completing"} \/ finalEvent = "job_completed"
        => recorder = "resolved"

\* The webhook is the last thing entry() does.
ReportedLast == webhook.event # "none" => main = "done"

\* The inductive invariant.  No part of it is inductive alone: AllSettled needs
\* SessionOfTheRun to exclude a live session, and RecordingFirst needs
\* NothingStartedYet so that nothing starts the recording task again.
ControlInv ==
    /\ NothingStartedYet /\ AllSettled /\ SessionOfTheRun
    /\ AbortedNotResolved /\ RecordingFirst /\ ReportedLast

\* At the start nothing runs, and nothing has been reported.
LEMMA InitControlInv == Init => ControlInv
BY DEF Init, ControlInv, NothingStartedYet, AllSettled, SessionOfTheRun, AbortedNotResolved,
       RecordingFirst, ReportedLast, Early, Late, RunSettled, RecorderSettled, NoWebhook

\* The steps of entry() keep the order of its start, its awaits and its report.
LEMMA MainControlInv == TypeInv /\ ControlInv /\ Main => ControlInv'
<1> SUFFICES ASSUME TypeInv, ControlInv, Main PROVE ControlInv'
  OBVIOUS
<1> USE DEF ControlInv, NothingStartedYet, AllSettled, SessionOfTheRun, AbortedNotResolved,
            RecordingFirst, ReportedLast, Early, Late, RunSettled, RecorderSettled,
            mainVars, recordVars, runVars
<1>1. CASE SetUp
  BY <1>1 DEF SetUp
<1>2. CASE SetUpFails
  BY <1>2 DEF SetUpFails
<1>3. CASE Connect
  BY <1>3 DEF Connect
<1>4. CASE ConnectFails
  BY <1>4 DEF ConnectFails, Catch
<1>5. CASE Connected
  BY <1>5 DEF Connected, Catch
<1>6. CASE RaceSettles
  BY <1>6 DEF RaceSettles, Catch
<1>7. CASE InterviewEnded
  BY <1>7 DEF InterviewEnded, RecordingResolved
<1>8. CASE RoomTornDown
  BY <1>8 DEF RoomTornDown
<1>9. CASE Drained
  BY <1>9 DEF Drained
<1>10. CASE Completed
  BY <1>10 DEF Completed, Catch
<1>11. CASE Failed
  BY <1>11 DEF Failed
<1>12. CASE FinalDrained
  BY <1>12 DEF FinalDrained
<1>13. CASE Settled
  BY <1>13 DEF Settled
<1>14. CASE EgressStopped
  BY <1>14 DEF EgressStopped
<1>15. CASE StopRecorded
  BY <1>15 DEF StopRecorded
<1>16. CASE Finalize
  BY <1>16 DEF Finalize
<1>17. CASE Report
  BY <1>17 DEF Report
<1> QED  BY <1>1, <1>2, <1>3, <1>4, <1>5, <1>6, <1>7, <1>8, <1>9, <1>10, <1>11, <1>12, <1>13,
            <1>14, <1>15, <1>16, <1>17 DEF Main

\* The recording task aborts or resolves, never both.
LEMMA RecorderControlInv == TypeInv /\ ControlInv /\ Recorder => ControlInv'
<1> SUFFICES ASSUME TypeInv, ControlInv, Recorder PROVE ControlInv'
  OBVIOUS
<1> USE DEF ControlInv, NothingStartedYet, AllSettled, SessionOfTheRun, AbortedNotResolved,
            RecordingFirst, ReportedLast, Early, Late, RunSettled, RecorderSettled,
            mainVars, recordVars, runVars
<1>1. CASE RecorderStarts
  BY <1>1 DEF RecorderStarts
<1>2. CASE RecorderStartFails
  BY <1>2 DEF RecorderStartFails, AbortRecording
<1>3. CASE RecorderUpdated
  BY <1>3 DEF RecorderUpdated, AbortRecording
<1>4. CASE RecorderClosesSession
  BY <1>4 DEF RecorderClosesSession
<1> QED  BY <1>1, <1>2, <1>3, <1>4 DEF Recorder

\* The reconnect loop owns its session: it has none between attempts and when it settles.
LEMMA RunControlInv == TypeInv /\ ControlInv /\ Run => ControlInv'
<1> SUFFICES ASSUME TypeInv, ControlInv, Run PROVE ControlInv'
  OBVIOUS
<1> USE DEF ControlInv, NothingStartedYet, AllSettled, SessionOfTheRun, AbortedNotResolved,
            RecordingFirst, ReportedLast, Early, Late, RunSettled, RecorderSettled,
            mainVars, recordVars, runVars
<1>1. CASE RunLoops
  BY <1>1 DEF RunLoops
<1>2. CASE RunDrained
  BY <1>2 DEF RunDrained
<1>3. CASE RunReconnecting
  BY <1>3 DEF RunReconnecting
<1>4. CASE RunSeeds
  BY <1>4 DEF RunSeeds
<1>5. CASE RunStarts
  BY <1>5 DEF RunStarts
<1>6. CASE RunStarted
  BY <1>6 DEF RunStarted
<1>7. CASE RunStartFails
  BY <1>7 DEF RunStartFails
<1>8. CASE RunAnnounced
  BY <1>8 DEF RunAnnounced
<1>9. CASE RunDone
  BY <1>9 DEF RunDone
<1>10. CASE RunCloses
  BY <1>10 DEF RunCloses
<1> QED  BY <1>1, <1>2, <1>3, <1>4, <1>5, <1>6, <1>7, <1>8, <1>9, <1>10 DEF Run

\* The chains leave control alone; the room and the sessions' own events end a
\* session only while the run is awaiting it.
LEMMA EventsControlInv ==
    TypeInv /\ ControlInv /\ (Chains \/ ItemAdded \/ SessionClosed \/ InterviewEnds \/ UNCHANGED vars)
        => ControlInv'
<1> USE DEF ControlInv, NothingStartedYet, AllSettled, SessionOfTheRun, AbortedNotResolved,
            RecordingFirst, ReportedLast, Early, Late, RunSettled, RecorderSettled,
            mainVars, recordVars, runVars
<1>1. ControlInv /\ Chains => ControlInv'
  BY DEF Chains, PerformJobUpdate, AppendTranscript, SaveTurnState, TurnPersisted, BumpReconnects
<1>2. ControlInv /\ (ItemAdded \/ SessionClosed \/ InterviewEnds) => ControlInv'
  BY DEF ItemAdded, SessionClosed, InterviewEnds
<1>3. ControlInv /\ UNCHANGED vars => ControlInv'
  BY DEF vars
<1> QED  BY <1>1, <1>2, <1>3

\* The inductive invariant holds in every state the job reaches.
LEMMA ControlCorrect == Spec => [](TypeInv /\ ControlInv)
<1>1. TypeInv /\ ControlInv /\ [Next]_vars => ControlInv'
  BY MainControlInv, RecorderControlInv, RunControlInv, EventsControlInv DEF Next, Finished
<1> QED  BY <1>1, InitTypeInv, InitControlInv, NextTypeInv, PTL DEF Spec

-----------------------------------------------------------------------------
(* The theorems *)

\* A job whose recording failed it is never turned into a completed one, at
\* whatever point of the teardown the failure arrives (agent.ts:455-458).
THEOREM AbortNeverCompletes == Spec => []NoCompletionAfterAbort
<1>1. ControlInv => NoCompletionAfterAbort
  BY DEF ControlInv, RecordingFirst, AbortedNotResolved, NoCompletionAfterAbort
<1> QED  BY <1>1, ControlCorrect, PTL

\* Egress, keys and report are dealt with when no session and no task is left
\* (agent.ts:510-516).
THEOREM TeardownIsQuiet == Spec => []QuietTeardown
<1>1. ControlInv => QuietTeardown
  BY DEF ControlInv, AllSettled, SessionOfTheRun, QuietTeardown, Late, RunSettled, RecorderSettled
<1> QED  BY <1>1, ControlCorrect, PTL

-----------------------------------------------------------------------------
(* Refinement: every step of the job is a step of the promise, or none *)

\* Before entry() starts, nothing that was promised has happened.
LEMMA InitRefines == Init => Promise!Init
BY DEF Init, Promise!Init, NoWebhook

\* A step that touches none of what the promise speaks of.
LEMMA StutterRefines ==
    UNCHANGED <<session, recordingError, webhook>> => UNCHANGED Promise!vars
BY DEF Promise!vars

\* entry() takes a step the promise knows in Report only: by then no session is
\* left, and the event is job_completed only if the recording did not abort.
LEMMA MainRefines ==
    TypeInv /\ ControlInv /\ Main => [Promise!Next]_(Promise!vars)
<1> SUFFICES ASSUME TypeInv, ControlInv, Main PROVE [Promise!Next]_(Promise!vars)
  OBVIOUS
<1>1. CASE Report
  <2>1. webhook.event = "none" /\ session = "none"
    BY <1>1 DEF Report, ControlInv, ReportedLast, AllSettled, SessionOfTheRun, Late, RunSettled
  <2>2. finalEvent = "job_completed" => ~recordingError
    BY DEF ControlInv, RecordingFirst, AbortedNotResolved
  <2>3. UNCHANGED <<session, recordingError>>
    BY <1>1 DEF Report, recordVars, runVars
  <2>4. CASE webhook' = [event |-> finalEvent, job |-> job]
    <3>1. webhook'.event = finalEvent /\ finalEvent \in {"job_failed", "job_completed"}
      BY <2>4 DEF TypeInv, TypeOK
    <3> QED  BY <2>1, <2>2, <2>3, <3>1 DEF Promise!Next, Promise!Report
  <2>5. CASE UNCHANGED webhook
    BY <2>3, <2>5, StutterRefines
  <2> QED  BY <1>1, <2>4, <2>5 DEF Report
<1>2. CASE ~Report
  <2>1. UNCHANGED <<session, recordingError, webhook>>
    BY <1>2 DEF Main, SetUp, SetUpFails, Connect, ConnectFails, Connected, RaceSettles,
       InterviewEnded, RoomTornDown, Drained, Completed, Failed, FinalDrained, Settled,
       EgressStopped, StopRecorded, Finalize, mainVars, recordVars, runVars, Catch
  <2> QED  BY <2>1, StutterRefines
<1> QED  BY <1>1, <1>2

\* The recording task aborts, or ends a session.
LEMMA RecorderRefines ==
    TypeInv /\ ControlInv /\ Recorder => [Promise!Next]_(Promise!vars)
<1> SUFFICES ASSUME TypeInv, ControlInv, Recorder PROVE [Promise!Next]_(Promise!vars)
  OBVIOUS
<1> USE DEF mainVars, recordVars, runVars
<1>1. recorder \in {"starting", "updating"} => ~recordingError /\ webhook.event = "none"
  BY DEF ControlInv, AbortedNotResolved, ReportedLast, AllSettled, Late, RecorderSettled
<1>2. CASE RecorderStarts
  BY <1>2, StutterRefines DEF RecorderStarts
<1>3. CASE RecorderStartFails \/ RecorderUpdated
  <2>1. UNCHANGED <<session, webhook>> /\ (recordingError' = TRUE \/ UNCHANGED recordingError)
    BY <1>3 DEF RecorderStartFails, RecorderUpdated, AbortRecording
  <2>2. ~recordingError /\ webhook.event = "none"
    BY <1>1, <1>3 DEF RecorderStartFails, RecorderUpdated
  <2>3. CASE recordingError' = TRUE
    BY <2>1, <2>2, <2>3 DEF Promise!Next, Promise!Abort
  <2>4. CASE UNCHANGED recordingError
    BY <2>1, <2>4, StutterRefines
  <2> QED  BY <2>1, <2>3, <2>4
<1>4. CASE RecorderClosesSession
  <2>1. CASE session = "live"
    BY <1>4, <2>1 DEF RecorderClosesSession, Promise!Next, Promise!StopTalking
  <2>2. CASE session # "live"
    BY <1>4, <2>2, StutterRefines DEF RecorderClosesSession
  <2> QED  BY <2>1, <2>2
<1> QED  BY <1>2, <1>3, <1>4 DEF Recorder

\* The run starts a session only when none is left of the attempt before, and
\* never after the abort.
LEMMA RunRefines ==
    TypeInv /\ ControlInv /\ Run => [Promise!Next]_(Promise!vars)
<1> SUFFICES ASSUME TypeInv, ControlInv, Run PROVE [Promise!Next]_(Promise!vars)
  OBVIOUS
<1> USE DEF mainVars, recordVars, runVars
<1>1. UNCHANGED <<recordingError, webhook>>
  BY DEF Run, RunLoops, RunDrained, RunReconnecting, RunSeeds, RunStarts, RunStarted,
     RunStartFails, RunAnnounced, RunDone, RunCloses
<1>2. CASE RunStarts
  <2>1. CASE Aborted
    BY <1>1, <1>2, <2>1, StutterRefines DEF RunStarts
  <2>2. CASE ~Aborted
    <3>1. session = "created" /\ session' = "starting" /\ ~recordingError
      BY <1>2, <2>2 DEF RunStarts, Aborted, ControlInv, SessionOfTheRun
    <3>2. webhook.event = "none"
      BY <1>2 DEF RunStarts, ControlInv, ReportedLast, AllSettled, Late, RunSettled
    <3> QED  BY <1>1, <3>1, <3>2 DEF Promise!Next, Promise!StartTalking
  <2> QED  BY <2>1, <2>2
<1>3. CASE RunStarted
  <2>1. session = "starting" /\ session' = "live"
    BY <1>3 DEF RunStarted, ControlInv, SessionOfTheRun
  <2> QED  BY <1>1, <2>1 DEF Promise!vars
<1>4. CASE RunLoops \/ RunSeeds \/ RunStartFails \/ RunCloses
  <2>1. session' \in {session, "created", "failed", "none"}
    BY <1>4 DEF RunLoops, RunSeeds, RunStartFails, RunCloses
  <2>2. CASE session \in {"starting", "live"} /\ session' # session
    BY <1>1, <2>1, <2>2 DEF Promise!Next, Promise!StopTalking
  <2>3. CASE session \notin {"starting", "live"} \/ session' = session
    BY <1>1, <2>1, <2>3 DEF Promise!vars
  <2> QED  BY <2>2, <2>3
<1>5. CASE RunDrained \/ RunReconnecting \/ RunAnnounced \/ RunDone
  BY <1>1, <1>5, StutterRefines DEF RunDrained, RunReconnecting, RunAnnounced, RunDone
<1> QED  BY <1>2, <1>3, <1>4, <1>5 DEF Run

\* The rest stutters, but for the session's own end.
LEMMA EventsRefine ==
    TypeInv /\ ControlInv /\ (Chains \/ ItemAdded \/ SessionClosed \/ InterviewEnds \/ UNCHANGED vars)
        => [Promise!Next]_(Promise!vars)
<1> USE DEF mainVars, recordVars, runVars
<1>1. Chains => UNCHANGED <<session, recordingError, webhook>>
  BY DEF Chains, PerformJobUpdate, AppendTranscript, SaveTurnState, TurnPersisted, BumpReconnects
<1>2. ItemAdded \/ InterviewEnds \/ UNCHANGED vars => UNCHANGED <<session, recordingError, webhook>>
  BY DEF ItemAdded, InterviewEnds, vars
<1>3. SessionClosed => Promise!Next
  BY DEF SessionClosed, Promise!Next, Promise!StopTalking
<1> QED  BY <1>1, <1>2, <1>3, StutterRefines

\* The job keeps its promise: one session at a time, none after the recording has
\* failed the job, one report, made when no session is left, and of a completed
\* job only if the recording did not fail it (agent.ts:189-196, 437-438).
THEOREM KeepsPromise == Spec => PromiseKept
<1>1. TypeInv /\ ControlInv /\ [Next]_vars => [Promise!Next]_(Promise!vars)
  BY MainRefines, RecorderRefines, RunRefines, EventsRefine DEF Next, Finished
<1> QED  BY <1>1, InitRefines, ControlCorrect, PTL DEF Spec, PromiseKept, Promise!Spec

-----------------------------------------------------------------------------
(* The updates of the job record *)

\* The queued update w is the one its actor awaits where the actor is.
Awaited(w) ==
    \/ /\ w.by = "main"
       /\ \/ main = "connected" /\ w.patch = [status |-> "connected"]
          \/ main = "completing" /\ w.patch = [status |-> "completed"]
          \/ main = "failing" /\ w.patch = [status |-> "failed"]
          \/ main = "marking_stopped" /\ w.patch = [recording |-> "stopped"]
    \/ /\ w.by = "run"
       /\ \/ run = "reconnecting" /\ w.patch = [status |-> "reconnecting", reconnects |-> attempt]
          \/ run = "announcing" /\ w.patch = [status |-> "in_progress"]
    \/ w.by = "recorder" /\ recorder = "updating" /\ w.patch = [recording |-> recording]
    \/ w.by = "writer" /\ writer = "updating" /\ w.patch = [turns |-> saved.turns]

\* Every queued update is awaited, and no actor has two.
UpdatesInv ==
    /\ \A i \in DOMAIN trackerWrites :
          reply[trackerWrites[i].by] = "pending" /\ Awaited(trackerWrites[i])
    /\ \A i, j \in DOMAIN trackerWrites : i # j => trackerWrites[i].by # trackerWrites[j].by
    /\ faults = 0 => \A a \in Actors : reply[a] # "error"

-----------------------------------------------------------------------------
(* What is said, what waits on the chain and what the transcript holds *)

Item(entry) == entry.op \in {"turn", "note"}

\* Items wait in the order they were said in, behind what the transcript has of
\* them; the one a write is under way for is the exception.
SpeechInv ==
    /\ \A k \in DOMAIN writeChain : Item(writeChain[k]) =>
          writeChain[k].n \in DOMAIN said /\ said[writeChain[k].n] = writeChain[k].op
    /\ \A k, l \in DOMAIN writeChain :
          k < l /\ Item(writeChain[k]) /\ Item(writeChain[l]) => writeChain[k].n < writeChain[l].n
    /\ \A i \in DOMAIN transcript : transcript[i] \in DOMAIN said
    /\ \A i \in DOMAIN transcript, k \in DOMAIN writeChain :
          Item(writeChain[k]) /\ (writer = "idle" \/ k > 1) => transcript[i] < writeChain[k].n
    /\ TranscriptInOrder
    /\ writer # "idle" => Head(writeChain).op = "turn"
    /\ run = "idle" => said = <<>>

\* The write-through order, with the in-memory state between what is saved and
\* the transcript.
TurnsInv ==
    /\ job.turns <= saved.turns /\ saved.turns <= state.turns /\ state.turns <= Cardinality(Held)
    /\ Len(state.recentTurns) <= state.turns

-----------------------------------------------------------------------------
(* Reconnects *)

AttemptUnderWay == {"created", "starting", "announcing", "waiting", "closing", "resolved"}

\* The run awaits the chain behind its bump, and nothing else of it is there.
BumpsInv ==
    /\ \A k \in DOMAIN writeChain : writeChain[k].op \in {"bump", "run"} => run = "draining"
    /\ \A k \in DOMAIN writeChain : writeChain[k].op = "bump" => writeChain[k].n = attempt
    /\ \A k, l \in DOMAIN writeChain :
          writeChain[k].op = "run" /\ writeChain[l].op \in {"bump", "run"} => l <= k

NoBumpWaits == \A k \in DOMAIN writeChain : writeChain[k].op # "bump"

\* The update follows the bump: first the state, then the record have the
\* attempt's number, and no session is made before.
ReconnectsInv ==
    /\ BumpsInv
    /\ run = "idle" => attempt = 0
    /\ run \in {"draining", "reconnecting", "seeding"} => attempt > 0
    /\ attempt = 0 => job.reconnects = 0 /\ state.reconnects = 0
    /\ run = "draining" /\ NoBumpWaits => state.reconnects = attempt
    /\ run \in AttemptUnderWay \cup {"reconnecting", "seeding"} => state.reconnects = attempt
    /\ run \in AttemptUnderWay \cup {"seeding"} \/ (run = "reconnecting" /\ reply["run"] = "ok")
          => job.reconnects = attempt
    /\ faults = 0 => saved.reconnects = state.reconnects

-----------------------------------------------------------------------------
(* The end of the job *)

\* Nothing said is still on its way to Redis.
NoItemWaits == \A k \in DOMAIN writeChain : ~Item(writeChain[k])

\* Every item waits before the actor's await.
AwaitsBehindItems(actor) ==
    \A k, l \in DOMAIN writeChain : writeChain[k].op = actor /\ Item(writeChain[l]) => l < k

BeforeDrain == {"setup", "connecting", "connected", "racing", "awaiting_run",
                "awaiting_recording", "deleting_room"}

\* Whoever awaits the chain while no session is live awaits every item.
DrainsInv ==
    /\ run = "draining" => AwaitsBehindItems("run")
    /\ run \in {"reconnecting", "seeding"} \/ (run = "created" /\ attempt > 0) => NoItemWaits
    /\ main \in BeforeDrain => \A k \in DOMAIN writeChain : writeChain[k].op # "main"
    /\ main = "draining" => AwaitsBehindItems("main")
    /\ main = "completing" \/ finalEvent = "job_completed" => NoItemWaits

\* A job that completes does so after its run has, and its record says so.
CompletionInv ==
    /\ main \in {"awaiting_recording", "deleting_room", "draining", "completing"}
          \/ finalEvent = "job_completed" => run = "resolved"
    /\ finalEvent = "job_completed" => main \in {"final_drain", "settling"} \cup Late
    /\ (main = "completing" /\ reply["main"] = "ok") \/ finalEvent = "job_completed"
          => job.status = "completed"
    /\ webhook.event = "job_completed" => finalEvent = "job_completed" /\ webhook.job = job

\* An Egress that was running when entry() had settled is stopped, then recorded.
EgressInv ==
    /\ main \in Late \ {"stopping"} /\ recording = "active" => egress \in {"stopped", "stop_failed"}
    /\ main = "marking_stopped" /\ reply["main"] = "ok" => job.recording = "stopped"
    /\ faults = 0 /\ main \in {"finalizing", "reporting", "done"} /\ recording = "active"
          => job.recording = "stopped"

-----------------------------------------------------------------------------
(* While Redis answers *)

\* The transcript holds what has been said so far, and the rest is on the chain;
\* a turn whose write goes on is the last the transcript has.
NothingLost ==
    /\ \A i \in DOMAIN transcript : transcript[i] = i
    /\ \A m \in (Len(transcript) + 1)..Len(said) :
          \E k \in DOMAIN writeChain : Item(writeChain[k]) /\ writeChain[k].n = m
    /\ writer # "idle" => Head(writeChain).n = Len(transcript)

\* Each of memory, saved state and record is behind only while the writer is
\* between their writes.
TurnsCounted ==
    /\ state.turns = Cardinality({i \in DOMAIN transcript : said[i] = "turn"})
    /\ writer # "saving" => saved = state
    /\ writer = "idle" \/ (writer = "updating" /\ reply["writer"] = "ok")
          => job.turns = saved.turns

\* What a session is seeded with is the transcript, and nothing is written to the
\* keys between finalize and the end of a completed job.
SeedWhole == run = "created" /\ attempt > 0 => seed = transcript
KeysExpire ==
    main \in {"reporting", "done"} /\ finalEvent = "job_completed" =>
        expiring = PresentKeys

WholeInv == faults = 0 => NothingLost /\ TurnsCounted /\ SeedWhole /\ KeysExpire

DataInv == /\ UpdatesInv /\ SpeechInv /\ TurnsInv /\ ReconnectsInv
           /\ DrainsInv /\ CompletionInv /\ EgressInv /\ WholeInv

-----------------------------------------------------------------------------
(* Sequences *)

\* A sequence without its head.
LEMMA TailElements ==
    ASSUME NEW S, NEW s \in Seq(S), s # <<>>
    PROVE  /\ Tail(s) \in Seq(S) /\ Len(s) > 0 /\ Len(Tail(s)) = Len(s) - 1
           /\ DOMAIN Tail(s) = 1..(Len(s) - 1) /\ DOMAIN s = 1..Len(s)
           /\ Head(s) = s[1] /\ s[1] \in S
           /\ \A k \in DOMAIN Tail(s) : k + 1 \in DOMAIN s /\ Tail(s)[k] = s[k + 1]
OBVIOUS

\* A sequence with others behind it.
LEMMA ConcatElements ==
    ASSUME NEW S, NEW s \in Seq(S), NEW t \in Seq(S)
    PROVE  /\ s \o t \in Seq(S) /\ Len(s \o t) = Len(s) + Len(t)
           /\ DOMAIN (s \o t) = 1..(Len(s) + Len(t)) /\ DOMAIN s = 1..Len(s) /\ DOMAIN t = 1..Len(t)
           /\ \A k \in DOMAIN s : (s \o t)[k] = s[k]
           /\ \A k \in DOMAIN t : (s \o t)[Len(s) + k] = t[k]
           /\ \A k \in DOMAIN (s \o t) : k \notin DOMAIN s =>
                 k - Len(s) \in DOMAIN t /\ (s \o t)[k] = t[k - Len(s)]
OBVIOUS

\* A sequence with one more element.
LEMMA AppendElements ==
    ASSUME NEW S, NEW s \in Seq(S), NEW e \in S
    PROVE  /\ Append(s, e) \in Seq(S) /\ Len(Append(s, e)) = Len(s) + 1
           /\ DOMAIN Append(s, e) = 1..(Len(s) + 1) /\ DOMAIN s = 1..Len(s)
           /\ \A k \in DOMAIN s : Append(s, e)[k] = s[k]
           /\ Append(s, e)[Len(s) + 1] = e
OBVIOUS

\* A sequence with two more elements.
LEMMA TwoMoreElements ==
    ASSUME NEW S, NEW s \in Seq(S), NEW a \in S, NEW b \in S
    PROVE  /\ DOMAIN (s \o <<a, b>>) = 1..(Len(s) + 2) /\ DOMAIN s = 1..Len(s) /\ Len(s) \in Nat
           /\ \A k \in DOMAIN s : (s \o <<a, b>>)[k] = s[k]
           /\ (s \o <<a, b>>)[Len(s) + 1] = a /\ (s \o <<a, b>>)[Len(s) + 2] = b
OBVIOUS

-----------------------------------------------------------------------------
(* The updates of the record, and what performing one does *)

Updates == [by : Actors, patch : TrackerPatches]

\* No step takes an actor away from where it awaits an update.
KeepsAwaited ==
    \A w \in Updates : reply[w.by] = "pending" /\ Awaited(w) => Awaited(w)'

\* A patch replaces the fields it has and no others.
LEMMA MergeFields ==
    ASSUME NEW record \in JobRecords, NEW patch
    PROVE  /\ Merge(record, patch).status
                = IF "status" \in DOMAIN patch THEN patch.status ELSE record.status
           /\ Merge(record, patch).reconnects
                = IF "reconnects" \in DOMAIN patch THEN patch.reconnects ELSE record.reconnects
           /\ Merge(record, patch).turns
                = IF "turns" \in DOMAIN patch THEN patch.turns ELSE record.turns
           /\ Merge(record, patch).recording
                = IF "recording" \in DOMAIN patch THEN patch.recording ELSE record.recording
BY DEF JobRecords, Merge

\* The record after the update w: each field is its one writer's.
LEMMA RecordAfter ==
    ASSUME TypeOK, NEW w \in Updates, Awaited(w)
    PROVE  LET after == Merge(job, w.patch) IN
           /\ after \in JobRecords
           /\ after.turns = IF w.by = "writer" THEN saved.turns ELSE job.turns
           /\ after.reconnects = IF w.by = "run" /\ run = "reconnecting" THEN attempt
                                 ELSE job.reconnects
           /\ w.by = "main" /\ main = "completing" => after.status = "completed"
           /\ w.by \in {"recorder", "writer"} \/ (w.by = "main" /\ main = "marking_stopped")
                 => after.status = job.status
           /\ w.by = "main" /\ main = "marking_stopped" => after.recording = "stopped"
           /\ w.by \in {"run", "writer"} => after.recording = job.recording
<1>1. Merge(job, w.patch) \in JobRecords /\ job \in JobRecords
  BY MergeType DEF Updates, TypeOK
<1>2. CASE w.by = "main"
  BY <1>1, <1>2, MergeFields DEF Awaited
<1>3. CASE w.by = "run"
  BY <1>1, <1>3, MergeFields DEF Awaited
<1>4. CASE w.by = "recorder"
  BY <1>1, <1>4, MergeFields DEF Awaited
<1>5. CASE w.by = "writer"
  BY <1>1, <1>5, MergeFields DEF Awaited
<1> QED  BY <1>2, <1>3, <1>4, <1>5 DEF Updates, Actors

\* PerformJobUpdate performs an update its actor awaits, or fails with or without
\* having performed it.
LEMMA Performs ==
    ASSUME TypeOK, UpdatesInv, PerformJobUpdate
    PROVE  \E w \in Updates :
              /\ w = Head(trackerWrites) /\ reply[w.by] = "pending" /\ Awaited(w)
              /\ \/ /\ job' = Merge(job, w.patch) /\ reply' = [reply EXCEPT ![w.by] = "ok"]
                    /\ faults' = faults
                 \/ /\ job' \in {job, Merge(job, w.patch)}
                    /\ reply' = [reply EXCEPT ![w.by] = "error"] /\ faults' = faults + 1
<1>1. trackerWrites # <<>> /\ trackerWrites \in Seq(Updates)
  BY DEF PerformJobUpdate, TypeOK, Updates
<1>2. Head(trackerWrites) \in Updates /\ 1 \in DOMAIN trackerWrites
      /\ Head(trackerWrites) = trackerWrites[1]
  BY <1>1, TailElements
<1>3. reply[Head(trackerWrites).by] = "pending" /\ Awaited(Head(trackerWrites))
  BY <1>2 DEF UpdatesInv
<1> QED  BY <1>2, <1>3 DEF PerformJobUpdate, Fault

\* Nothing awaited is left behind by the steps of entry(), which await their own.
LEMMA MainKeepsAwaited == TypeOK /\ ControlInv /\ Main => KeepsAwaited
<1> SUFFICES ASSUME TypeOK, ControlInv, Main, NEW w \in Updates, reply[w.by] = "pending", Awaited(w)
             PROVE  Awaited(w)'
  BY DEF KeepsAwaited
<1> USE DEF Awaited, mainVars, recordVars, runVars, roomVars, jobVars, stateVars, UpdateSettled,
            UpdateJob, Catch, AwaitChain, ChainDrainedFor, ControlInv, NothingStartedYet, Early
<1>1. CASE SetUp
  BY <1>1 DEF SetUp
<1>2. CASE SetUpFails
  BY <1>2 DEF SetUpFails
<1>3. CASE Connect
  BY <1>3 DEF Connect
<1>4. CASE ConnectFails
  BY <1>4 DEF ConnectFails
<1>5. CASE Connected
  BY <1>5 DEF Connected
<1>6. CASE RaceSettles
  BY <1>6 DEF RaceSettles
<1>7. CASE InterviewEnded
  BY <1>7 DEF InterviewEnded
<1>8. CASE RoomTornDown
  BY <1>8 DEF RoomTornDown
<1>9. CASE Drained
  BY <1>9 DEF Drained
<1>10. CASE Completed
  BY <1>10 DEF Completed
<1>11. CASE Failed
  BY <1>11 DEF Failed
<1>12. CASE FinalDrained
  BY <1>12 DEF FinalDrained
<1>13. CASE Settled
  BY <1>13 DEF Settled
<1>14. CASE EgressStopped
  BY <1>14 DEF EgressStopped
<1>15. CASE StopRecorded
  BY <1>15 DEF StopRecorded
<1>16. CASE Finalize
  BY <1>16 DEF Finalize
<1>17. CASE Report
  BY <1>17 DEF Report
<1> QED  BY <1>1, <1>2, <1>3, <1>4, <1>5, <1>6, <1>7, <1>8, <1>9, <1>10, <1>11, <1>12, <1>13, <1>14, <1>15, <1>16, <1>17 DEF Main

\* Nor by the steps of the other tasks, of the chains and of the room.
LEMMA TasksKeepAwaited == TypeOK /\ (Recorder \/ Run) => KeepsAwaited
<1> SUFFICES ASSUME TypeOK, Recorder \/ Run, NEW w \in Updates, reply[w.by] = "pending", Awaited(w)
             PROVE  Awaited(w)'
  BY DEF KeepsAwaited
<1> USE DEF Awaited, mainVars, recordVars, runVars, roomVars, jobVars, stateVars, UpdateSettled,
            UpdateJob, AbortRecording, ChainDrainedFor
<1>1. CASE RecorderStarts
  BY <1>1 DEF RecorderStarts
<1>2. CASE RecorderStartFails
  BY <1>2 DEF RecorderStartFails
<1>3. CASE RecorderUpdated
  BY <1>3 DEF RecorderUpdated
<1>4. CASE RecorderClosesSession
  BY <1>4 DEF RecorderClosesSession
<1>5. CASE RunLoops
  BY <1>5 DEF RunLoops
<1>6. CASE RunDrained
  BY <1>6 DEF RunDrained
<1>7. CASE RunReconnecting
  BY <1>7 DEF RunReconnecting
<1>8. CASE RunSeeds
  BY <1>8 DEF RunSeeds
<1>9. CASE RunStarts
  BY <1>9 DEF RunStarts
<1>10. CASE RunStarted
  BY <1>10 DEF RunStarted
<1>11. CASE RunStartFails
  BY <1>11 DEF RunStartFails
<1>12. CASE RunAnnounced
  BY <1>12 DEF RunAnnounced
<1>13. CASE RunDone
  BY <1>13 DEF RunDone
<1>14. CASE RunCloses
  BY <1>14 DEF RunCloses
<1> QED  BY <1>1, <1>2, <1>3, <1>4, <1>5, <1>6, <1>7, <1>8, <1>9, <1>10, <1>11, <1>12, <1>13, <1>14 DEF Recorder, Run

LEMMA OthersKeepAwaited ==
    TypeOK /\ (Chains \/ ItemAdded \/ SessionClosed \/ InterviewEnds \/ UNCHANGED vars) => KeepsAwaited
<1> SUFFICES ASSUME TypeOK, NEW w \in Updates, reply[w.by] = "pending", Awaited(w),
                    Chains \/ ItemAdded \/ SessionClosed \/ InterviewEnds \/ UNCHANGED vars
             PROVE  Awaited(w)'
  BY DEF KeepsAwaited
<1> USE DEF Awaited, mainVars, recordVars, runVars, roomVars, jobVars, stateVars, UpdateSettled,
            UpdateJob
<1>1. CASE PerformJobUpdate
  BY <1>1 DEF PerformJobUpdate
<1>2. CASE AppendTranscript
  BY <1>2 DEF AppendTranscript
<1>3. CASE SaveTurnState
  BY <1>3 DEF SaveTurnState
<1>4. CASE TurnPersisted
  BY <1>4 DEF TurnPersisted
<1>5. CASE BumpReconnects
  BY <1>5 DEF BumpReconnects
<1>6. CASE ItemAdded
  BY <1>6 DEF ItemAdded
<1>7. CASE SessionClosed
  BY <1>7 DEF SessionClosed
<1>8. CASE InterviewEnds
  BY <1>8 DEF InterviewEnds
<1>9. CASE UNCHANGED vars
  BY <1>9 DEF vars
<1> QED  BY <1>1, <1>2, <1>3, <1>4, <1>5, <1>6, <1>7, <1>8, <1>9 DEF Chains

\* An actor that awaits nothing issues an update, and awaits it.
Issues ==
    \E actor \in Actors, patch \in TrackerPatches :
        /\ UpdateJob(actor, patch)
        /\ \A w \in Updates : w.by = actor /\ reply[actor] = "pending" => ~Awaited(w)
        /\ Awaited([by |-> actor, patch |-> patch])'

\* What there is to say of a step that performs no update.
LEMMA QueueStep ==
    ASSUME TypeOK, UpdatesInv, KeepsAwaited, faults' = 0 => faults = 0,
           Issues \/ UNCHANGED <<trackerWrites, reply>>
    PROVE  UpdatesInv'
<1>1. trackerWrites \in Seq(Updates) /\ reply \in [Actors -> {"ok", "error", "pending"}]
  BY DEF TypeOK, Updates
<1>2. \A i \in DOMAIN trackerWrites : trackerWrites[i] \in Updates /\ Awaited(trackerWrites[i])
        /\ reply[trackerWrites[i].by] = "pending"
  BY <1>1 DEF UpdatesInv
<1>3. CASE UNCHANGED <<trackerWrites, reply>>
  BY <1>2, <1>3 DEF UpdatesInv, KeepsAwaited
<1>4. CASE Issues
  <2>1. PICK actor \in Actors, patch \in TrackerPatches :
          /\ UpdateJob(actor, patch)
          /\ \A w \in Updates : w.by = actor /\ reply[actor] = "pending" => ~Awaited(w)
          /\ Awaited([by |-> actor, patch |-> patch])'
    BY <1>4 DEF Issues
  <2> DEFINE e == [by |-> actor, patch |-> patch]
  <2>2. e \in Updates /\ e.by = actor
    BY DEF Updates
  <2>3. Awaited(e)'
    BY <2>1
  <2>4. trackerWrites' = Append(trackerWrites, e) /\ reply' = [reply EXCEPT ![actor] = "pending"]
    BY <2>1 DEF UpdateJob
  <2> HIDE DEF e
  <2>5. \A w \in Updates : reply[w.by] = "pending" /\ Awaited(w) => w.by # actor
    BY <2>1
  <2>6. /\ \A i \in DOMAIN trackerWrites' : \/ i \in DOMAIN trackerWrites /\ trackerWrites'[i] = trackerWrites[i]
                                            \/ i = Len(trackerWrites) + 1 /\ trackerWrites'[i] = e
        /\ Len(trackerWrites) + 1 \notin DOMAIN trackerWrites
    BY <1>1, <2>2, <2>4, AppendElements
  <2>7. /\ reply'[actor] = "pending"
        /\ \A a \in Actors : a # actor => reply'[a] = reply[a]
    BY <1>1, <2>4
  <2>8. \A i \in DOMAIN trackerWrites' : reply'[trackerWrites'[i].by] = "pending"
    BY <1>2, <2>2, <2>5, <2>6, <2>7 DEF Updates
  <2>9. ASSUME NEW i \in DOMAIN trackerWrites' PROVE Awaited(trackerWrites[i])'
    <3>1. CASE trackerWrites'[i] = e
      BY <2>3, <3>1 DEF Awaited
    <3>2. CASE i \in DOMAIN trackerWrites /\ trackerWrites'[i] = trackerWrites[i]
      <4>1. PICK w \in Updates : w = trackerWrites[i]
        BY <1>2, <3>2
      <4>2. Awaited(w)'
        BY <1>2, <3>2, <4>1 DEF KeepsAwaited
      <4> QED  BY <3>2, <4>1, <4>2
    <3> QED  BY <2>6, <3>1, <3>2
  <2>10. \A i, j \in DOMAIN trackerWrites' : i # j => trackerWrites'[i].by # trackerWrites'[j].by
    BY <1>2, <2>2, <2>5, <2>6 DEF UpdatesInv
  <2>11. faults' = 0 => \A a \in Actors : reply'[a] # "error"
    BY <2>7 DEF UpdatesInv
  <2> QED  BY <2>8, <2>9, <2>10, <2>11 DEF UpdatesInv
<1> QED  BY <1>3, <1>4

\* Performing one takes it off the queue and answers its actor, who has no other.
LEMMA PerformStep == TypeOK /\ UpdatesInv /\ KeepsAwaited /\ PerformJobUpdate => UpdatesInv'
<1> SUFFICES ASSUME TypeOK, UpdatesInv, KeepsAwaited, PerformJobUpdate PROVE UpdatesInv'
  OBVIOUS
<1>1. trackerWrites \in Seq(Updates) /\ reply \in [Actors -> {"ok", "error", "pending"}]
      /\ faults \in Nat /\ trackerWrites # <<>> /\ trackerWrites' = Tail(trackerWrites)
  BY ConstantsAssumption DEF TypeOK, Updates, PerformJobUpdate
<1>2. PICK w \in Updates :
        /\ w = trackerWrites[1]
        /\ \/ reply' = [reply EXCEPT ![w.by] = "ok"] /\ faults' = faults
           \/ reply' = [reply EXCEPT ![w.by] = "error"] /\ faults' = faults + 1
  BY <1>1, Performs, TailElements
<1>3. \A i \in DOMAIN trackerWrites' :
        i + 1 \in DOMAIN trackerWrites /\ trackerWrites'[i] = trackerWrites[i + 1] /\ i \in Nat \ {0}
  BY <1>1, TailElements
<1>4. ASSUME NEW i \in DOMAIN trackerWrites'
      PROVE  reply'[trackerWrites'[i].by] = "pending" /\ Awaited(trackerWrites[i])'
  <2>1. PICK v \in Updates : v = trackerWrites[i + 1]
    BY <1>1, <1>3
  <2>2. reply[v.by] = "pending" /\ Awaited(v) /\ v.by # w.by
    BY <1>1, <1>2, <1>3, <2>1, TailElements DEF UpdatesInv
  <2>3. Awaited(v)' /\ reply'[v.by] = "pending"
    BY <1>1, <1>2, <2>2 DEF KeepsAwaited, Updates
  <2> QED  BY <1>3, <2>1, <2>3
<1>5. \A i, j \in DOMAIN trackerWrites' : i # j => trackerWrites'[i].by # trackerWrites'[j].by
  BY <1>1, <1>3 DEF UpdatesInv
<1>6. faults' = 0 => \A a \in Actors : reply'[a] # "error"
  BY <1>1, <1>2 DEF UpdatesInv, Updates
<1> QED  BY <1>4, <1>5, <1>6 DEF UpdatesInv

\* entry() issues its updates one at a time.
LEMMA MainIssues ==
    TypeOK /\ ControlInv /\ Main =>
        (Issues \/ UNCHANGED <<trackerWrites, reply>>) /\ (faults' = 0 => faults = 0)
<1> SUFFICES ASSUME TypeOK, ControlInv, Main
             PROVE  (Issues \/ UNCHANGED <<trackerWrites, reply>>) /\ (faults' = 0 => faults = 0)
  OBVIOUS
<1>1. faults' = 0 => faults = 0
  BY ConstantsAssumption DEF TypeOK, Main, SetUp, SetUpFails, Connect, ConnectFails, Connected,
     RaceSettles, InterviewEnded, RoomTornDown, Drained, Completed, Failed, FinalDrained, Settled,
     EgressStopped, StopRecorded, Finalize, Report, Fault
<1>2. ASSUME main \notin {"connected", "completing", "failing", "marking_stopped"}
               \/ reply["main"] # "pending",
             NEW patch \in TrackerPatches, UpdateJob("main", patch),
             Awaited([by |-> "main", patch |-> patch])'
      PROVE  Issues
  BY <1>2 DEF Issues, Awaited, Actors
<1>3. \A s \in Statuses : [status |-> s] \in TrackerPatches
  BY PatchTypes
<1>4. [recording |-> "stopped"] \in TrackerPatches
  BY PatchTypes DEF RecordingStatuses
<1>5. ASSUME main \notin {"connected", "completing", "failing", "marking_stopped"}
               \/ reply["main"] # "pending",
             Catch
      PROVE  Issues
  BY <1>2, <1>3, <1>5 DEF Catch, Awaited, Statuses
<1>6. CASE Connect
  BY <1>2, <1>3, <1>6 DEF Connect, Awaited, Statuses
<1>7. CASE ConnectFails
  BY <1>5, <1>7 DEF ConnectFails
<1>8. CASE Connected
  BY <1>5, <1>8 DEF Connected, UpdateSettled, jobVars
<1>9. CASE RaceSettles
  BY <1>5, <1>9 DEF RaceSettles, jobVars
<1>10. CASE Drained
  BY <1>2, <1>3, <1>10 DEF Drained, Awaited, Statuses
<1>11. CASE Completed
  BY <1>5, <1>11 DEF Completed, UpdateSettled, jobVars
<1>12. CASE EgressStopped
  BY <1>2, <1>4, <1>12 DEF EgressStopped, Awaited
<1>13. CASE SetUp \/ SetUpFails \/ InterviewEnded \/ RoomTornDown \/ Failed \/ FinalDrained \/ Settled
            \/ StopRecorded \/ Finalize \/ Report
  BY <1>1, <1>13 DEF SetUp, SetUpFails, InterviewEnded, RoomTornDown, Failed, FinalDrained, Settled,
     StopRecorded, Finalize, Report, jobVars
<1> QED  BY <1>1, <1>6, <1>7, <1>8, <1>9, <1>10, <1>11, <1>12, <1>13 DEF Main

\* So do the recording task and the reconnect loop.
LEMMA TasksIssue ==
    TypeOK /\ (Recorder \/ Run) =>
        (Issues \/ UNCHANGED <<trackerWrites, reply>>) /\ (faults' = 0 => faults = 0)
<1> SUFFICES ASSUME TypeOK, Recorder \/ Run
             PROVE  (Issues \/ UNCHANGED <<trackerWrites, reply>>) /\ (faults' = 0 => faults = 0)
  OBVIOUS
<1>1. faults' = 0 => faults = 0
  <2>1. Recorder => faults' = faults
    BY DEF Recorder, RecorderStarts, RecorderStartFails, RecorderUpdated, RecorderClosesSession
  <2>2. CASE RunSeeds
    <3>1. faults \in Nat
      BY ConstantsAssumption DEF TypeOK
    <3>2. faults' = faults \/ faults' = faults + 1
      BY <2>2 DEF RunSeeds, Fault
    <3> QED  BY <3>1, <3>2
  <2>3. Run /\ ~RunSeeds => faults' = faults
    BY DEF Run, RunLoops, RunDrained, RunReconnecting, RunStarts, RunStarted, RunStartFails,
           RunAnnounced, RunDone, RunCloses
  <2> QED  BY <2>1, <2>2, <2>3
<1>2. ASSUME recorder # "updating", NEW r \in {"disabled", "active", "failed"},
             UpdateJob("recorder", [recording |-> r]), recorder' = "updating", recording' = r
      PROVE  Issues
  <2> DEFINE patch == [recording |-> r]
  <2>1. patch \in TrackerPatches
    BY PatchTypes DEF RecordingStatuses
  <2>2. Awaited([by |-> "recorder", patch |-> patch])'
    BY <1>2 DEF Awaited
  <2>3. \A w \in Updates : w.by = "recorder" => ~Awaited(w)
    BY <1>2 DEF Awaited
  <2> HIDE DEF patch
  <2> QED  BY <1>2, <2>1, <2>2, <2>3 DEF Issues, Actors, patch
<1>3. ASSUME run \notin {"reconnecting", "announcing"}, NEW patch \in TrackerPatches,
             UpdateJob("run", patch), Awaited([by |-> "run", patch |-> patch])'
      PROVE  Issues
  BY <1>3 DEF Issues, Awaited, Actors
<1>4. CASE RecorderStarts
  BY <1>2, <1>4 DEF RecorderStarts
<1>5. CASE RecorderStartFails
  BY <1>2, <1>5 DEF RecorderStartFails, jobVars
<1>6. CASE RunDrained
  <2>1. PICK patch \in TrackerPatches :
          patch = [status |-> "reconnecting", reconnects |-> attempt]
    BY PatchTypes DEF TypeOK, Statuses
  <2> QED  BY <1>3, <1>6, <2>1 DEF RunDrained, Awaited
<1>7. CASE RunStarted
  <2>1. PICK patch \in TrackerPatches : patch = [status |-> "in_progress"]
    BY PatchTypes DEF Statuses
  <2> QED  BY <1>3, <1>7, <2>1 DEF RunStarted, Awaited
<1>8. CASE RecorderUpdated \/ RecorderClosesSession
  BY <1>8 DEF RecorderUpdated, RecorderClosesSession, jobVars
<1>9. CASE RunLoops \/ RunReconnecting \/ RunSeeds \/ RunStarts \/ RunStartFails \/ RunAnnounced
           \/ RunDone \/ RunCloses
  BY <1>1, <1>9 DEF RunLoops, RunReconnecting, RunSeeds, RunStarts, RunStartFails, RunAnnounced, RunDone,
     RunCloses, jobVars
<1> QED  BY <1>1, <1>4, <1>5, <1>6, <1>7, <1>8, <1>9 DEF Recorder, Run

\* And the writer of the chain, of the turns it has just saved.
LEMMA OthersIssue ==
    TypeOK /\ (Chains \/ ItemAdded \/ SessionClosed \/ InterviewEnds \/ UNCHANGED vars)
        /\ ~PerformJobUpdate =>
        (Issues \/ UNCHANGED <<trackerWrites, reply>>) /\ (faults' = 0 => faults = 0)
<1> SUFFICES ASSUME TypeOK, ~PerformJobUpdate,
                    Chains \/ ItemAdded \/ SessionClosed \/ InterviewEnds \/ UNCHANGED vars
             PROVE  (Issues \/ UNCHANGED <<trackerWrites, reply>>) /\ (faults' = 0 => faults = 0)
  OBVIOUS
<1>1. faults' = 0 => faults = 0
  BY ConstantsAssumption DEF TypeOK, Chains, AppendTranscript, SaveTurnState, TurnPersisted,
     BumpReconnects, ItemAdded, SessionClosed, InterviewEnds, Fault, vars
<1>2. CASE SaveTurnState
  <2>1. PICK patch \in TrackerPatches : patch = [turns |-> state.turns]
    BY PatchTypes DEF TypeOK, InterviewStates
  <2>2. CASE UpdateJob("writer", [turns |-> state.turns]) /\ saved' = state /\ writer' = "updating"
    BY <1>2, <2>1, <2>2 DEF SaveTurnState, Issues, Awaited, Actors
  <2> QED  BY <1>1, <1>2, <2>2 DEF SaveTurnState, jobVars
<1>3. CASE AppendTranscript \/ TurnPersisted \/ BumpReconnects \/ ItemAdded \/ SessionClosed
           \/ InterviewEnds \/ UNCHANGED vars
  BY <1>1, <1>3 DEF AppendTranscript, TurnPersisted, BumpReconnects, ItemAdded, SessionClosed,
     InterviewEnds, vars, jobVars
<1> QED  BY <1>1, <1>2, <1>3 DEF Chains

\* The queue keeps to what its actors await.
LEMMA UpdatesPreserved == TypeOK /\ ControlInv /\ UpdatesInv /\ [Next]_vars => UpdatesInv'
<1> SUFFICES ASSUME TypeOK, ControlInv, UpdatesInv, [Next]_vars PROVE UpdatesInv'
  OBVIOUS
<1>1. KeepsAwaited
  BY MainKeepsAwaited, TasksKeepAwaited, OthersKeepAwaited DEF Next, Finished
<1>2. CASE PerformJobUpdate
  BY <1>1, <1>2, PerformStep
<1>3. CASE ~PerformJobUpdate
  <2>1. (Issues \/ UNCHANGED <<trackerWrites, reply>>) /\ (faults' = 0 => faults = 0)
    BY <1>3, MainIssues, TasksIssue, OthersIssue DEF Next, Finished
  <2> QED  BY <1>1, <2>1, QueueStep
<1> QED  BY <1>2, <1>3

-----------------------------------------------------------------------------
(* The order of speech *)

\* The types the proofs about the chain use.
LEMMA ChainTypes ==
    ASSUME TypeOK
    PROVE  /\ writeChain \in Seq(ChainEntries) /\ transcript \in Seq(Nat)
           /\ said \in Seq({"turn", "note"}) /\ DOMAIN said = 1..Len(said) /\ Len(said) \in Nat
           /\ DOMAIN writeChain = 1..Len(writeChain) /\ Len(writeChain) \in Nat
           /\ DOMAIN transcript = 1..Len(transcript) /\ Len(transcript) \in Nat
           /\ \A k \in DOMAIN writeChain : writeChain[k] \in ChainEntries /\ writeChain[k].n \in Nat
           /\ \A i \in DOMAIN transcript : transcript[i] \in Nat
<1>1. /\ writeChain \in Seq(ChainEntries) /\ transcript \in Seq(Nat)
      /\ said \in Seq({"turn", "note"})
  BY DEF TypeOK
<1>2. \A e \in ChainEntries : e.n \in Nat
  BY DEF ChainEntries
<1>3. \A S : \A s \in Seq(S) : /\ DOMAIN s = 1..Len(s) /\ Len(s) \in Nat
                             /\ \A k \in DOMAIN s : s[k] \in S
  OBVIOUS
<1> QED  BY <1>1, <1>2, <1>3

\* Entries that are no items, such as an await of the chain or the bump, come last.
LEMMA SpeechEnqueue ==
    ASSUME TypeInv, SpeechInv, NEW entries \in Seq(ChainEntries),
           \A k \in DOMAIN entries : ~Item(entries[k]), Enqueue(entries),
           UNCHANGED <<writer, transcript, said>>, run' = "idle" => run = "idle"
    PROVE  SpeechInv'
<1>1. /\ writeChain' = writeChain \o entries
      /\ \A k \in DOMAIN writeChain' : Item(writeChain'[k]) =>
            k \in DOMAIN writeChain /\ writeChain'[k] = writeChain[k] /\ k \in Nat
  BY ChainTypes, ConcatElements DEF TypeInv, Enqueue
<1>2. writer # "idle" => Head(writeChain') = Head(writeChain)
  BY <1>1, ChainTypes DEF TypeInv, WriterHasItem
<1>3. (\A k \in DOMAIN writeChain : Item(writeChain[k]) =>
         writeChain[k].n \in DOMAIN said /\ said[writeChain[k].n] = writeChain[k].op)'
  BY <1>1 DEF SpeechInv, Item
<1>4. (\A k, l \in DOMAIN writeChain :
         k < l /\ Item(writeChain[k]) /\ Item(writeChain[l]) => writeChain[k].n < writeChain[l].n)'
  BY <1>1 DEF SpeechInv, Item
<1>5. (\A i \in DOMAIN transcript, k \in DOMAIN writeChain :
          Item(writeChain[k]) /\ (writer = "idle" \/ k > 1) => transcript[i] < writeChain[k].n)'
  BY <1>1 DEF SpeechInv, Item
<1>6. (/\ \A i \in DOMAIN transcript : transcript[i] \in DOMAIN said
       /\ TranscriptInOrder /\ (writer # "idle" => Head(writeChain).op = "turn")
       /\ (run = "idle" => said = <<>>))'
  BY <1>2 DEF SpeechInv, TranscriptInOrder
<1> QED  BY <1>3, <1>4, <1>5, <1>6 DEF SpeechInv

\* An item reaches the transcript, once or twice.
LEMMA TranscriptGrows ==
    ASSUME transcript \in Seq(Nat), NEW n \in Nat,
           transcript' \in {Append(transcript, n), Resent(n)}
    PROVE  /\ \A i \in DOMAIN transcript' :
                 \/ i \in DOMAIN transcript /\ transcript'[i] = transcript[i] /\ i <= Len(transcript)
                 \/ i > Len(transcript) /\ transcript'[i] = n
           /\ \A i \in DOMAIN transcript' : i \in Nat
           /\ Len(transcript) \in Nat /\ DOMAIN transcript = 1..Len(transcript)
           /\ Held' = Held \cup {n}
<1>1. /\ \A i \in DOMAIN transcript' :
            \/ i \in DOMAIN transcript /\ transcript'[i] = transcript[i] /\ i <= Len(transcript)
            \/ i > Len(transcript) /\ transcript'[i] = n
      /\ \A i \in DOMAIN transcript' : i \in Nat
      /\ Len(transcript) \in Nat /\ DOMAIN transcript = 1..Len(transcript)
      /\ \A i \in DOMAIN transcript : i \in DOMAIN transcript' /\ transcript'[i] = transcript[i]
      /\ \E i \in DOMAIN transcript' : transcript'[i] = n
  <2>1. CASE transcript' = Append(transcript, n)
    BY <2>1
  <2>2. CASE transcript' = Resent(n)
    <3>1. /\ transcript' = transcript \o <<n, n>>
          /\ DOMAIN transcript' = 1..(Len(transcript) + 2)
          /\ DOMAIN transcript = 1..Len(transcript) /\ Len(transcript) \in Nat
          /\ \A k \in DOMAIN transcript : transcript'[k] = transcript[k]
          /\ transcript'[Len(transcript) + 1] = n /\ transcript'[Len(transcript) + 2] = n
      BY <2>2, TwoMoreElements DEF Resent
    <3>2. /\ Len(transcript) + 1 \in DOMAIN transcript'
          /\ \A i \in DOMAIN transcript' : i \in Nat
          /\ \A i \in DOMAIN transcript : i <= Len(transcript) /\ i \in DOMAIN transcript'
      BY <3>1
    <3>3. \A i \in DOMAIN transcript' :
            i \in DOMAIN transcript \/ i = Len(transcript) + 1 \/ i = Len(transcript) + 2
      BY <3>1
    <3>4. \A i \in DOMAIN transcript' :
            \/ i \in DOMAIN transcript /\ transcript'[i] = transcript[i] /\ i <= Len(transcript)
            \/ i > Len(transcript) /\ transcript'[i] = n
      BY <3>1, <3>2, <3>3
    <3> QED  BY <3>1, <3>2, <3>4
  <2> QED  BY <2>1, <2>2
<1>2. Held' = {transcript'[i] : i \in DOMAIN transcript'}
  BY DEF Held
<1> QED  BY <1>1, <1>2 DEF Held

\* The head leaves the chain, with or without its item having reached the
\* transcript.
LEMMA SpeechPop ==
    ASSUME TypeInv, SpeechInv, writeChain # <<>>, writeChain' = Tail(writeChain),
           \/ UNCHANGED transcript
           \/ /\ writer = "idle" /\ Item(Head(writeChain))
              /\ transcript' \in {Append(transcript, Head(writeChain).n),
                                   Resent(Head(writeChain).n)},
           writer' = "idle", UNCHANGED said, run' = "idle" => run = "idle"
    PROVE  SpeechInv'
<1>1. /\ Head(writeChain) = writeChain[1] /\ 1 \in DOMAIN writeChain
      /\ \A k \in DOMAIN writeChain' :
            /\ k \in Nat \ {0} /\ k + 1 \in DOMAIN writeChain /\ k + 1 > 1
            /\ writeChain'[k] = writeChain[k + 1]
  BY ChainTypes, TailElements DEF TypeInv
<1>2. CASE UNCHANGED transcript
  BY <1>1, <1>2 DEF SpeechInv, TranscriptInOrder, Item
<1>3. CASE /\ writer = "idle" /\ Item(Head(writeChain))
           /\ transcript' \in {Append(transcript, Head(writeChain).n), Resent(Head(writeChain).n)}
  <2> DEFINE n == writeChain[1].n
  <2>0. n \in Nat /\ transcript' \in {Append(transcript, n), Resent(n)} /\ transcript \in Seq(Nat)
    BY <1>1, <1>3, ChainTypes DEF TypeInv
  <2>1. /\ \A i \in DOMAIN transcript' :
              \/ i \in DOMAIN transcript /\ transcript'[i] = transcript[i] /\ i <= Len(transcript)
              \/ i > Len(transcript) /\ transcript'[i] = n
        /\ \A i \in DOMAIN transcript' : i \in Nat
        /\ Len(transcript) \in Nat /\ DOMAIN transcript = 1..Len(transcript)
    <3> HIDE DEF n
    <3> QED  BY <2>0, TranscriptGrows
  <2>2. n \in DOMAIN said /\ n \in Nat
    BY <1>1, <1>3, ChainTypes DEF SpeechInv, TypeInv
  <2>3. \A i \in DOMAIN transcript : transcript[i] < n /\ transcript[i] \in Nat
    BY <1>1, <1>3, ChainTypes DEF SpeechInv, TypeInv
  <2>4. \A k \in DOMAIN writeChain' : Item(writeChain'[k]) => n < writeChain'[k].n
    BY <1>1, <1>3 DEF SpeechInv
  <2> HIDE DEF n
  <2>5. (\A i \in DOMAIN transcript : transcript[i] \in DOMAIN said)'
    BY <2>1, <2>2 DEF SpeechInv
  <2>6. TranscriptInOrder'
    <3>1. \A i, j \in DOMAIN transcript : i < j => transcript[i] <= transcript[j]
      BY DEF SpeechInv, TranscriptInOrder
    <3> QED  BY <2>1, <2>2, <2>3, <3>1 DEF TranscriptInOrder
  <2>7. (\A i \in DOMAIN transcript, k \in DOMAIN writeChain :
           Item(writeChain[k]) /\ (writer = "idle" \/ k > 1) => transcript[i] < writeChain[k].n)'
    BY <1>1, <2>1, <2>4 DEF SpeechInv, Item
  <2> QED  BY <1>1, <2>5, <2>6, <2>7 DEF SpeechInv, Item
<1> QED  BY <1>2, <1>3

\* A turn reaches the transcript and its write goes on.
LEMMA SpeechTurn ==
    ASSUME TypeInv, SpeechInv, writeChain # <<>>, writer = "idle", Head(writeChain).op = "turn",
           transcript' \in {Append(transcript, Head(writeChain).n), Resent(Head(writeChain).n)},
           writer' = "saving",
           UNCHANGED <<writeChain, said, run>>
    PROVE  SpeechInv'
<1> DEFINE n == writeChain[1].n
<1>1. Head(writeChain) = writeChain[1] /\ 1 \in DOMAIN writeChain
      /\ \A k \in DOMAIN writeChain : k \in Nat
  BY ChainTypes DEF TypeInv
<1>2. /\ \A i \in DOMAIN transcript' :
            \/ i \in DOMAIN transcript /\ transcript'[i] = transcript[i] /\ i <= Len(transcript)
            \/ i > Len(transcript) /\ transcript'[i] = n
      /\ \A i \in DOMAIN transcript' : i \in Nat
  <2>1. n \in Nat /\ transcript' \in {Append(transcript, n), Resent(n)} /\ transcript \in Seq(Nat)
    BY <1>1, ChainTypes DEF TypeInv
  <2> HIDE DEF n
  <2> QED  BY <2>1, TranscriptGrows
<1>3. n \in DOMAIN said /\ n \in Nat /\ \A i \in DOMAIN transcript : transcript[i] < n
  BY <1>1, ChainTypes DEF SpeechInv, TypeInv, Item
<1>4. \A k \in DOMAIN writeChain : Item(writeChain[k]) /\ k > 1 => n < writeChain[k].n
  BY <1>1 DEF SpeechInv, Item
<1> HIDE DEF n
<1>5. TranscriptInOrder'
  <2>1. \A i, j \in DOMAIN transcript : i < j => transcript[i] <= transcript[j]
    BY DEF SpeechInv, TranscriptInOrder
  <2>2. /\ \A i \in DOMAIN transcript : transcript[i] \in Nat /\ i \in Nat
        /\ Len(transcript) \in Nat /\ DOMAIN transcript = 1..Len(transcript)
    BY ChainTypes DEF TypeInv
  <2> QED  BY <1>2, <1>3, <2>1, <2>2 DEF TranscriptInOrder
<1>6. (\A i \in DOMAIN transcript : transcript[i] \in DOMAIN said)'
  BY <1>2, <1>3 DEF SpeechInv
<1> QED  BY <1>1, <1>2, <1>4, <1>5, <1>6 DEF SpeechInv, Item

\* What is said next comes behind everything said before.
LEMMA SpeechItem == TypeInv /\ ControlInv /\ SpeechInv /\ ItemAdded => SpeechInv'
<1> SUFFICES ASSUME TypeInv, ControlInv, SpeechInv, ItemAdded PROVE SpeechInv'
  OBVIOUS
<1>1. PICK kind \in {"turn", "note"} :
        /\ said' = Append(said, kind)
        /\ writeChain' = writeChain \o <<[op |-> kind, n |-> Len(said) + 1]>>
  BY DEF ItemAdded, Enqueue
<1> DEFINE e == [op |-> kind, n |-> Len(said) + 1]
<1>2. e \in ChainEntries /\ e.op = kind /\ e.n = Len(said) + 1 /\ <<e>> \in Seq(ChainEntries)
  BY ChainTypes DEF ChainEntries, TypeInv
<1>3. /\ \A k \in DOMAIN writeChain' :
            \/ k \in DOMAIN writeChain /\ writeChain'[k] = writeChain[k] /\ k <= Len(writeChain)
            \/ k = Len(writeChain) + 1 /\ writeChain'[k] = e
      /\ \A k \in DOMAIN writeChain' : k \in Nat
  <2>1. DOMAIN <<e>> = {1} /\ <<e>>[1] = e
    OBVIOUS
  <2> HIDE DEF e
  <2> QED  BY <1>1, <1>2, <2>1, ChainTypes, ConcatElements DEF TypeInv, e
<1>4. /\ DOMAIN said' = 1..(Len(said) + 1) /\ said'[Len(said) + 1] = kind
      /\ \A i \in DOMAIN said : said'[i] = said[i]
  BY <1>1, ChainTypes, AppendElements DEF TypeInv
<1>5. UNCHANGED <<transcript, writer, run>> /\ run # "idle"
  BY DEF ItemAdded, ControlInv, SessionOfTheRun, runVars
<1>6. writer # "idle" => Head(writeChain') = Head(writeChain)
  BY <1>1, ChainTypes DEF TypeInv, WriterHasItem
<1> HIDE DEF e
<1>7. (\A k \in DOMAIN writeChain : Item(writeChain[k]) =>
         writeChain[k].n \in DOMAIN said /\ said[writeChain[k].n] = writeChain[k].op)'
  BY <1>2, <1>3, <1>4, ChainTypes, SMTT(60) DEF SpeechInv, Item, TypeInv
<1>8. (\A k, l \in DOMAIN writeChain :
         k < l /\ Item(writeChain[k]) /\ Item(writeChain[l]) => writeChain[k].n < writeChain[l].n)'
  BY <1>2, <1>3, ChainTypes, SMTT(60) DEF SpeechInv, Item, TypeInv
<1>9. (\A i \in DOMAIN transcript : transcript[i] \in DOMAIN said)'
  BY <1>4, <1>5, ChainTypes DEF SpeechInv, TypeInv
<1>10. (\A i \in DOMAIN transcript, k \in DOMAIN writeChain :
          Item(writeChain[k]) /\ (writer = "idle" \/ k > 1) => transcript[i] < writeChain[k].n)'
  BY <1>2, <1>3, <1>5, ChainTypes, SMTT(60) DEF SpeechInv, Item, TypeInv
<1> QED  BY <1>5, <1>6, <1>7, <1>8, <1>9, <1>10 DEF SpeechInv, TranscriptInOrder

\* The chain is left alone.
LEMMA SpeechFrame ==
    ASSUME SpeechInv, UNCHANGED <<writeChain, writer, transcript, said>>,
           run' = "idle" => run = "idle"
    PROVE  SpeechInv'
BY DEF SpeechInv, TranscriptInOrder

\* entry() only awaits the chain.
LEMMA MainSpeech == TypeInv /\ SpeechInv /\ Main => SpeechInv'
<1> SUFFICES ASSUME TypeInv, SpeechInv, Main PROVE SpeechInv'
  OBVIOUS
<1>1. UNCHANGED said /\ (run' = "idle" => run = "idle")
  BY DEF Main, SetUp, SetUpFails, Connect, ConnectFails, Connected, RaceSettles, InterviewEnded,
     RoomTornDown, Drained, Completed, Failed, FinalDrained, Settled, EgressStopped, StopRecorded,
     Finalize, Report, roomVars, runVars
<1>2. ASSUME AwaitChain PROVE SpeechInv'
  <2> DEFINE entries == <<[op |-> "main", n |-> 0]>>
  <2>1. entries \in Seq(ChainEntries) /\ \A k \in DOMAIN entries : ~Item(entries[k])
    BY DEF ChainEntries, Item
  <2>2. Enqueue(entries) /\ UNCHANGED <<writer, transcript>>
    BY <1>2 DEF AwaitChain
  <2> HIDE DEF entries
  <2> QED  BY <1>1, <2>1, <2>2, SpeechEnqueue
<1>3. ASSUME ChainDrainedFor("main") PROVE SpeechInv'
  BY <1>1, <1>3, SpeechPop DEF ChainDrainedFor
<1>4. ASSUME UNCHANGED stateVars PROVE SpeechInv'
  BY <1>1, <1>4, SpeechFrame DEF stateVars
<1>5. AwaitChain \/ ChainDrainedFor("main") \/ UNCHANGED stateVars
  BY DEF Main, SetUp, SetUpFails, Connect, ConnectFails, Connected, RaceSettles, InterviewEnded,
     RoomTornDown, Drained, Completed, Failed, FinalDrained, Settled, EgressStopped, StopRecorded,
     Finalize, Report
<1> QED  BY <1>2, <1>3, <1>4, <1>5

\* The reconnect loop puts the bump and its await on the chain.
LEMMA TasksSpeech == TypeInv /\ SpeechInv /\ (Recorder \/ Run) => SpeechInv'
<1> SUFFICES ASSUME TypeInv, SpeechInv, Recorder \/ Run PROVE SpeechInv'
  OBVIOUS
<1>1. UNCHANGED said /\ (run' = "idle" => run = "idle")
  BY DEF Recorder, Run, RecorderStarts, RecorderStartFails, RecorderUpdated, RecorderClosesSession,
     RunLoops, RunDrained, RunReconnecting, RunSeeds, RunStarts, RunStarted, RunStartFails,
     RunAnnounced, RunDone, RunCloses, roomVars, runVars
<1>2. ASSUME Enqueue(BumpThenAwait), UNCHANGED <<writer, transcript>> PROVE SpeechInv'
  <2>1. BumpThenAwait \in Seq(ChainEntries)
        /\ \A k \in DOMAIN BumpThenAwait : ~Item(BumpThenAwait[k])
    BY DEF BumpThenAwait, ChainEntries, Item, TypeInv, TypeOK
  <2> QED  BY <1>1, <1>2, <2>1, SpeechEnqueue
<1>3. ASSUME ChainDrainedFor("run") PROVE SpeechInv'
  BY <1>1, <1>3, SpeechPop DEF ChainDrainedFor
<1>4. ASSUME UNCHANGED <<writeChain, writer, transcript>> PROVE SpeechInv'
  BY <1>1, <1>4, SpeechFrame
<1>5. \/ Enqueue(BumpThenAwait) /\ UNCHANGED <<writer, transcript>>
      \/ ChainDrainedFor("run") \/ UNCHANGED <<writeChain, writer, transcript>>
  BY DEF Recorder, Run, RecorderStarts, RecorderStartFails, RecorderUpdated, RecorderClosesSession,
     RunLoops, RunDrained, RunReconnecting, RunSeeds, RunStarts, RunStarted, RunStartFails,
     RunAnnounced, RunDone, RunCloses, stateVars
<1> QED  BY <1>2, <1>3, <1>4, <1>5

\* The chain's own steps take its head off, but for the first of a turn's two writes.
LEMMA ChainsSpeech == TypeInv /\ SpeechInv /\ Chains => SpeechInv'
<1> SUFFICES ASSUME TypeInv, SpeechInv, Chains PROVE SpeechInv'
  OBVIOUS
<1> USE DEF runVars, roomVars, jobVars, stateVars
<1>1. CASE PerformJobUpdate
  BY <1>1, SpeechFrame DEF PerformJobUpdate
<1>2. CASE AppendTranscript
  <2>1. /\ writer = "idle" /\ writeChain # <<>> /\ Item(Head(writeChain))
        /\ UNCHANGED <<said, run>>
    BY <1>2 DEF AppendTranscript, Item
  <2>2. \/ /\ transcript' \in {Append(transcript, Head(writeChain).n), Resent(Head(writeChain).n)}
           /\ UNCHANGED writeChain /\ Head(writeChain).op = "turn" /\ writer' = "saving"
        \/ /\ writeChain' = Tail(writeChain) /\ UNCHANGED writer
           /\ transcript' \in {transcript, Append(transcript, Head(writeChain).n),
                               Resent(Head(writeChain).n)}
    BY <1>2 DEF AppendTranscript, DropItem
  <2> QED  BY <2>1, <2>2, SpeechTurn, SpeechPop
<1>3. CASE SaveTurnState
  <2>1. UNCHANGED <<said, run, transcript>> /\ writer # "idle" /\ writeChain # <<>>
    BY <1>3 DEF SaveTurnState, TypeInv, WriterHasItem
  <2>2. CASE writer' = "updating" /\ UNCHANGED writeChain
    BY <2>1, <2>2 DEF SpeechInv, TranscriptInOrder
  <2>3. CASE writer' = "idle" /\ writeChain' = Tail(writeChain)
    BY <2>1, <2>3, SpeechPop
  <2> QED  BY <1>3, <2>2, <2>3 DEF SaveTurnState
<1>4. CASE TurnPersisted
  BY <1>4, SpeechPop DEF TurnPersisted, TypeInv, WriterHasItem
<1>5. CASE BumpReconnects
  BY <1>5, SpeechPop DEF BumpReconnects
<1> QED  BY <1>1, <1>2, <1>3, <1>4, <1>5 DEF Chains

\* Speech keeps its order, from the room to the transcript.
LEMMA SpeechPreserved == TypeInv /\ ControlInv /\ SpeechInv /\ [Next]_vars => SpeechInv'
<1>1. TypeInv /\ SpeechInv /\ (SessionClosed \/ InterviewEnds \/ UNCHANGED vars) => SpeechInv'
  BY SpeechFrame DEF SessionClosed, InterviewEnds, vars, runVars, roomVars, stateVars
<1> QED  BY <1>1, MainSpeech, TasksSpeech, ChainsSpeech, SpeechItem DEF Next, Finished

-----------------------------------------------------------------------------
(* The number of turns *)

\* appendTurn counts the turn, keeps the reconnects, and adds one turn at most to
\* the ring buffer.
LEMMA AppendTurnCounts ==
    ASSUME NEW s \in InterviewStates, NEW turn \in Nat
    PROVE  /\ AppendTurn(s, turn).turns = s.turns + 1
           /\ AppendTurn(s, turn).reconnects = s.reconnects
           /\ Len(AppendTurn(s, turn).recentTurns) <= Len(s.recentTurns) + 1
<1> DEFINE all == Append(s.recentTurns, turn)
           first == IF Len(all) > RecentTurnsLimit THEN Len(all) - RecentTurnsLimit + 1 ELSE 1
           kept == SubSeq(all, first, Len(all))
<1>1. all \in Seq(Nat) /\ Len(all) = Len(s.recentTurns) + 1 /\ Len(s.recentTurns) \in Nat
  BY DEF InterviewStates
<1>2. first \in 1..Len(all)
  BY <1>1, ConstantsAssumption
<1>3. Len(kept) = Len(all) - first + 1
  BY <1>1, <1>2, SubSeqProperties
<1>4. AppendTurn(s, turn) =
        [recentTurns |-> kept, turns |-> s.turns + 1, reconnects |-> s.reconnects]
  BY DEF AppendTurn
<1> HIDE DEF all, first, kept
<1>5. Len(kept) <= Len(s.recentTurns) + 1
  BY <1>1, <1>2, <1>3
<1> QED  BY <1>4, <1>5

\* The numbers the invariant compares.
LEMMA TurnsTypes ==
    ASSUME TypeOK
    PROVE  /\ job.turns \in Nat /\ saved.turns \in Nat /\ state.turns \in Nat
           /\ Len(state.recentTurns) \in Nat
<1>1. job \in JobRecords /\ saved \in InterviewStates /\ state \in InterviewStates
  BY DEF TypeOK
<1> QED  BY <1>1 DEF JobRecords, InterviewStates

\* A step that writes none of the three.
LEMMA TurnsFrame ==
    ASSUME TurnsInv, UNCHANGED <<job, saved, state, transcript>>
    PROVE  TurnsInv'
BY DEF TurnsInv, Held

\* What the transcript holds has been said, so there is an end to it.
LEMMA HeldFinite ==
    ASSUME TypeOK, SpeechInv
    PROVE  IsFiniteSet(Held) /\ Cardinality(Held) \in Nat
<1>1. Held \subseteq 1..Len(said) /\ Len(said) \in Nat
  BY ChainTypes DEF SpeechInv, Held
<1>2. IsFiniteSet(1..Len(said))
  BY <1>1, FS_Interval
<1>3. IsFiniteSet(Held)
  BY <1>1, <1>2, FS_Subset
<1> QED  BY <1>3, FS_CardinalityType

\* The item at the head of the chain is none the transcript holds.
LEMMA HeldGrows ==
    ASSUME TypeOK, SpeechInv, writer = "idle", writeChain # <<>>, Item(Head(writeChain)),
           NEW n \in Nat, n = Head(writeChain).n,
           transcript' \in {Append(transcript, n), Resent(n)}
    PROVE  Cardinality(Held') = Cardinality(Held) + 1
<1>1. Held' = Held \cup {n}
  BY TranscriptGrows DEF TypeOK
<1>2. 1 \in DOMAIN writeChain /\ Head(writeChain) = writeChain[1]
  BY ChainTypes, TailElements
<1>3. \A i \in DOMAIN transcript : transcript[i] < n /\ transcript[i] \in Nat
  BY <1>2, ChainTypes DEF SpeechInv
<1>4. n \notin Held
  BY <1>3 DEF Held
<1> QED  BY <1>1, <1>4, HeldFinite, FS_AddElement

\* The chains write transcript, state and record in this order.
LEMMA ChainsTurns == TypeInv /\ UpdatesInv /\ SpeechInv /\ TurnsInv /\ Chains => TurnsInv'
<1> SUFFICES ASSUME TypeOK, UpdatesInv, SpeechInv, TurnsInv, Chains PROVE TurnsInv'
  BY DEF TypeInv
<1>1. /\ state \in InterviewStates /\ transcript \in Seq(Nat)
      /\ job.turns \in Nat /\ saved.turns \in Nat /\ state.turns \in Nat
      /\ Cardinality(Held) \in Nat /\ Len(state.recentTurns) \in Nat
      /\ UNCHANGED transcript => Cardinality(Held') = Cardinality(Held)
  <2>1. state \in InterviewStates /\ transcript \in Seq(Nat)
    BY DEF TypeOK
  <2>2. /\ job.turns \in Nat /\ saved.turns \in Nat /\ state.turns \in Nat
        /\ Len(state.recentTurns) \in Nat
    BY TurnsTypes
  <2>3. Cardinality(Held) \in Nat
    BY HeldFinite
  <2>4. UNCHANGED transcript => Cardinality(Held') = Cardinality(Held)
    BY DEF Held
  <2> QED  BY <2>1, <2>2, <2>3, <2>4
<1>2. CASE PerformJobUpdate
  <2>1. job'.turns \in {job.turns, saved.turns}
    BY <1>2, Performs, RecordAfter
  <2>2. UNCHANGED <<saved, state, transcript>>
    BY <1>2 DEF PerformJobUpdate, stateVars
  <2> QED  BY <1>1, <2>1, <2>2 DEF TurnsInv
<1>3. CASE AppendTranscript
  <2> DEFINE n == Head(writeChain).n
  <2>1. n \in Nat
    <3>1. writeChain # <<>>
      BY <1>3 DEF AppendTranscript
    <3>2. writeChain \in Seq(ChainEntries)
      BY ChainTypes
    <3>3. Head(writeChain) \in ChainEntries
      BY <3>1, <3>2, HeadTailType
    <3> QED  BY <3>3 DEF ChainEntries
  <2>2. UNCHANGED <<job, saved>>
    BY <1>3 DEF AppendTranscript, jobVars
  <2>3. \/ state' = AppendTurn(state, n) /\ transcript' \in {Append(transcript, n), Resent(n)}
        \/ state' = state /\ transcript' \in {transcript, Append(transcript, n), Resent(n)}
    BY <1>3 DEF AppendTranscript, DropItem
  <2>4. transcript' \in {Append(transcript, n), Resent(n)} =>
          Cardinality(Held') = Cardinality(Held) + 1
    BY <1>3, <2>1, HeldGrows DEF AppendTranscript, Item
  <2> HIDE DEF n
  <2>5. /\ AppendTurn(state, n).turns = state.turns + 1
        /\ Len(AppendTurn(state, n).recentTurns) <= Len(state.recentTurns) + 1
        /\ Len(AppendTurn(state, n).recentTurns) \in Nat
    <3>1. Len(state.recentTurns) <= RecentTurnsLimit
      BY DEF TypeOK
    <3>2. AppendTurn(state, n) \in InterviewStates
      BY <1>1, <2>1, <3>1, AppendTurnType
    <3>3. Len(AppendTurn(state, n).recentTurns) \in Nat
      BY <3>2 DEF InterviewStates
    <3> QED  BY <1>1, <2>1, <3>3, AppendTurnCounts
  <2>6. /\ job.turns <= saved.turns /\ saved.turns <= state.turns
        /\ state.turns <= Cardinality(Held) /\ Len(state.recentTurns) <= state.turns
    BY DEF TurnsInv
  <2>7. /\ job'.turns = job.turns /\ saved'.turns = saved.turns
        /\ Cardinality(Held') \in {Cardinality(Held), Cardinality(Held) + 1}
    BY <1>1, <2>2, <2>3, <2>4
  <2>8. CASE state' = AppendTurn(state, n) /\ transcript' \in {Append(transcript, n), Resent(n)}
    BY <1>1, <2>4, <2>5, <2>6, <2>7, <2>8, SMTT(60) DEF TurnsInv
  <2>9. CASE state' = state
    BY <1>1, <2>6, <2>7, <2>9 DEF TurnsInv
  <2> QED  BY <2>3, <2>8, <2>9
<1>4. CASE SaveTurnState
  <2>1. UNCHANGED <<job, state, transcript>> /\ saved' \in {saved, state}
    BY <1>4 DEF SaveTurnState, UpdateJob, jobVars
  <2> QED  BY <1>1, <2>1 DEF TurnsInv
<1>5. CASE TurnPersisted
  BY <1>5, TurnsFrame DEF TurnPersisted, jobVars
<1>6. CASE BumpReconnects
  <2>1. UNCHANGED <<job, transcript>> /\ saved' \in {saved, state'}
    BY <1>6 DEF BumpReconnects, jobVars
  <2>2. state'.turns = state.turns /\ state'.recentTurns = state.recentTurns
    BY <1>1, <1>6 DEF BumpReconnects, InterviewStates
  <2> QED  BY <1>1, <2>1, <2>2 DEF TurnsInv
<1> QED  BY <1>2, <1>3, <1>4, <1>5, <1>6 DEF Chains

\* The others write none of them, but for the record entry() creates.
LEMMA TurnsPreserved ==
    TypeInv /\ UpdatesInv /\ SpeechInv /\ TurnsInv /\ [Next]_vars => TurnsInv'
<1> SUFFICES ASSUME TypeInv, UpdatesInv, SpeechInv, TurnsInv, [Next]_vars PROVE TurnsInv'
  OBVIOUS
<1> USE DEF jobVars, stateVars
<1>1. CASE SetUp \/ SetUpFails
  <2>1. UNCHANGED <<saved, state, transcript>> /\ (job' = job \/ job'.turns = 0)
    BY <1>1 DEF SetUp, SetUpFails, NoJob
  <2> QED  BY <2>1, TurnsTypes DEF TurnsInv, TypeInv, Held
<1>2. CASE Main /\ ~SetUp /\ ~SetUpFails
  <2>1. UNCHANGED <<job, saved, state, transcript>>
    BY <1>2 DEF Main, Connect, ConnectFails, Connected, RaceSettles, InterviewEnded, RoomTornDown,
       Drained, Completed, Failed, FinalDrained, Settled, EgressStopped, StopRecorded, Finalize,
       Report, Catch, UpdateJob, AwaitChain, ChainDrainedFor
  <2> QED  BY <2>1, TurnsFrame
<1>3. CASE Recorder \/ Run
  <2>1. UNCHANGED <<job, saved, state, transcript>>
    BY <1>3 DEF Recorder, Run, RecorderStarts, RecorderStartFails, RecorderUpdated,
       RecorderClosesSession, RunLoops, RunDrained, RunReconnecting, RunSeeds, RunStarts, RunStarted,
       RunStartFails, RunAnnounced, RunDone, RunCloses, UpdateJob, ChainDrainedFor
  <2> QED  BY <2>1, TurnsFrame
<1>4. CASE ItemAdded \/ SessionClosed \/ InterviewEnds \/ UNCHANGED vars
  BY <1>4, TurnsFrame DEF ItemAdded, SessionClosed, InterviewEnds, vars
<1> QED  BY <1>1, <1>2, <1>3, <1>4, ChainsTurns DEF Next, Finished

-----------------------------------------------------------------------------
(* Reconnects on record *)

\* The run, its chain entries and the numbers are left alone.
LEMMA ReconnectsFrame ==
    ASSUME ReconnectsInv, UNCHANGED <<run, attempt, writeChain, state, saved>>,
           job'.reconnects = job.reconnects, reply'["run"] = "ok" => reply["run"] = "ok",
           faults' = 0 => faults = 0
    PROVE  ReconnectsInv'
BY DEF ReconnectsInv, BumpsInv, NoBumpWaits

\* Entries of others are put on the chain.
LEMMA BumpsEnqueue ==
    ASSUME TypeOK, BumpsInv, NEW entries \in Seq(ChainEntries), Enqueue(entries),
           \A k \in DOMAIN entries : entries[k].op \notin {"bump", "run"}, UNCHANGED <<run, attempt>>
    PROVE  BumpsInv' /\ (NoBumpWaits' => NoBumpWaits)
<1>1. /\ \A k \in DOMAIN writeChain' :
            \/ k \in DOMAIN writeChain /\ writeChain'[k] = writeChain[k]
            \/ writeChain'[k].op \notin {"bump", "run"}
      /\ \A k \in DOMAIN writeChain : k \in DOMAIN writeChain' /\ writeChain'[k] = writeChain[k]
  <2>1. writeChain \in Seq(ChainEntries) /\ writeChain' = writeChain \o entries
    BY DEF TypeOK, Enqueue
  <2> QED  BY <2>1, ConcatElements
<1> QED  BY <1>1 DEF BumpsInv, NoBumpWaits

\* The head, no bump, leaves the chain; when it is the run's await, the run goes on.
LEMMA BumpsPop ==
    ASSUME TypeOK, BumpsInv, writeChain # <<>>, writeChain' = Tail(writeChain),
           IF Head(writeChain).op = "run" THEN TRUE ELSE UNCHANGED run, UNCHANGED attempt
    PROVE  /\ BumpsInv'
           /\ Head(writeChain).op # "bump" /\ NoBumpWaits' => NoBumpWaits
           /\ Head(writeChain).op = "run" => NoBumpWaits
<1>1. /\ Head(writeChain) = writeChain[1] /\ 1 \in DOMAIN writeChain
      /\ \A k \in DOMAIN writeChain' :
            /\ k \in Nat \ {0} /\ k + 1 \in DOMAIN writeChain /\ ~(k + 1 <= 1)
            /\ writeChain'[k] = writeChain[k + 1]
      /\ \A k \in DOMAIN writeChain : k = 1 \/ (k - 1 \in DOMAIN writeChain'
                                                /\ writeChain'[k - 1] = writeChain[k])
      /\ \A k \in DOMAIN writeChain : k \in Nat \ {0}
  BY ChainTypes, TailElements
<1>2. /\ Head(writeChain).op # "bump" /\ NoBumpWaits' => NoBumpWaits
      /\ Head(writeChain).op = "run" => NoBumpWaits
  <2>1. ASSUME Head(writeChain).op # "bump", NoBumpWaits', NEW k \in DOMAIN writeChain
        PROVE  writeChain[k].op # "bump"
    BY <1>1, <2>1 DEF NoBumpWaits
  <2>2. ASSUME Head(writeChain).op = "run", NEW k \in DOMAIN writeChain
        PROVE  writeChain[k].op # "bump"
    BY <1>1, <2>2 DEF BumpsInv
  <2> QED  BY <2>1, <2>2 DEF NoBumpWaits
<1>3. (\A k \in DOMAIN writeChain : writeChain[k].op \in {"bump", "run"} => run = "draining")'
  BY <1>1 DEF BumpsInv
<1>4. (\A k \in DOMAIN writeChain : writeChain[k].op = "bump" => writeChain[k].n = attempt)'
  BY <1>1 DEF BumpsInv
<1>5. (\A k, l \in DOMAIN writeChain :
         writeChain[k].op = "run" /\ writeChain[l].op \in {"bump", "run"} => l <= k)'
  BY <1>1 DEF BumpsInv
<1> QED  BY <1>2, <1>3, <1>4, <1>5 DEF BumpsInv

\* A step that only takes an entry of another off the chain, or puts one on.
LEMMA ReconnectsChain ==
    ASSUME ReconnectsInv, BumpsInv', NoBumpWaits' => NoBumpWaits, UNCHANGED <<run, attempt>>,
           state'.reconnects = state.reconnects, job'.reconnects = job.reconnects,
           reply'["run"] = "ok" => reply["run"] = "ok",
           faults' = 0 => faults = 0 /\ saved'.reconnects \in {saved.reconnects, state.reconnects}
    PROVE  ReconnectsInv'
BY DEF ReconnectsInv

\* entry() awaits the chain; it starts the run, and makes the record, before there
\* is any attempt.
LEMMA MainReconnects == TypeInv /\ ControlInv /\ ReconnectsInv /\ Main => ReconnectsInv'
<1> SUFFICES ASSUME TypeOK, ControlInv, ReconnectsInv, Main PROVE ReconnectsInv'
  BY DEF TypeInv
<1>1. /\ UNCHANGED <<attempt, state, saved>> /\ (faults' = 0 => faults = 0)
  <2>1. UNCHANGED <<attempt, state, saved>>
    BY DEF Main, SetUp, SetUpFails, Connect, ConnectFails, Connected, RaceSettles, InterviewEnded,
       RoomTornDown, Drained, Completed, Failed, FinalDrained, Settled, EgressStopped, StopRecorded,
       Finalize, Report, AwaitChain, ChainDrainedFor, runVars, stateVars
  <2> QED  BY <2>1, MainIssues
<1>2. reply'["run"] = "ok" => reply["run"] = "ok"
  <2>1. reply \in [Actors -> {"ok", "error", "pending"}] /\ "run" \in Actors
    BY DEF TypeOK, Actors
  <2>2. reply' = reply \/ reply' = [reply EXCEPT !["main"] = "pending"]
    BY DEF Main, SetUp, SetUpFails, Connect, ConnectFails, Connected, RaceSettles, InterviewEnded,
       RoomTornDown, Drained, Completed, Failed, FinalDrained, Settled, EgressStopped, StopRecorded,
       Finalize, Report, Catch, UpdateJob, jobVars
  <2> QED  BY <2>1, <2>2
<1>3. CASE SetUp \/ SetUpFails
  <2>1. UNCHANGED <<run, writeChain>> /\ (job' = job \/ job'.reconnects = 0) /\ main = "setup"
    BY <1>3 DEF SetUp, SetUpFails, NoJob, runVars, stateVars
  <2>2. job.reconnects = 0
    BY <2>1 DEF ControlInv, NothingStartedYet, Early, ReconnectsInv
  <2> QED  BY <1>1, <1>2, <2>1, <2>2, ReconnectsFrame
<1>4. CASE Connected
  <2>1. UNCHANGED <<job, writeChain>> /\ run' \in {run, "looping"} /\ main = "connected"
    BY <1>4 DEF Connected, Catch, UpdateJob, jobVars, stateVars
  <2>2. run = "idle"
    BY <2>1 DEF ControlInv, NothingStartedYet, Early
  <2> QED  BY <1>1, <1>2, <2>1, <2>2 DEF ReconnectsInv, BumpsInv, AttemptUnderWay
<1>5. CASE Main /\ ~SetUp /\ ~SetUpFails /\ ~Connected
  <2>1. UNCHANGED <<run, job>>
    BY <1>5 DEF Main, Connect, ConnectFails, RaceSettles, InterviewEnded,
       RoomTornDown, Drained, Completed, Failed, FinalDrained, Settled, EgressStopped, StopRecorded,
       Finalize, Report, Catch, UpdateJob, runVars, jobVars
  <2>2. ASSUME AwaitChain PROVE BumpsInv' /\ (NoBumpWaits' => NoBumpWaits)
    <3> DEFINE entries == <<[op |-> "main", n |-> 0]>>
    <3>1. entries \in Seq(ChainEntries) /\ \A k \in DOMAIN entries : entries[k].op \notin {"bump", "run"}
      BY DEF ChainEntries
    <3>2. Enqueue(entries)
      BY <2>2 DEF AwaitChain
    <3> HIDE DEF entries
    <3> QED  BY <1>1, <2>1, <3>1, <3>2, BumpsEnqueue DEF ReconnectsInv
  <2>3. ASSUME ChainDrainedFor("main") PROVE BumpsInv' /\ (NoBumpWaits' => NoBumpWaits)
    BY <1>1, <2>1, <2>3, BumpsPop DEF ChainDrainedFor, ReconnectsInv
  <2>4. ASSUME UNCHANGED stateVars PROVE BumpsInv' /\ (NoBumpWaits' => NoBumpWaits)
    BY <1>1, <2>1, <2>4 DEF stateVars, ReconnectsInv, BumpsInv, NoBumpWaits
  <2>5. AwaitChain \/ ChainDrainedFor("main") \/ UNCHANGED stateVars
    BY <1>5 DEF Main, Connect, ConnectFails, RaceSettles, InterviewEnded,
       RoomTornDown, Drained, Completed, Failed, FinalDrained, Settled, EgressStopped, StopRecorded,
       Finalize, Report
  <2> QED  BY <1>1, <1>2, <2>1, <2>2, <2>3, <2>4, <2>5, ReconnectsChain
<1> QED  BY <1>3, <1>4, <1>5

\* The recording task, the room and the sessions have nothing to do with it.
LEMMA RoomReconnects ==
    TypeInv /\ ReconnectsInv /\ (Recorder \/ ItemAdded \/ SessionClosed \/ InterviewEnds \/ UNCHANGED vars)
        => ReconnectsInv'
<1> SUFFICES ASSUME TypeOK, ReconnectsInv,
                    Recorder \/ ItemAdded \/ SessionClosed \/ InterviewEnds \/ UNCHANGED vars
             PROVE  ReconnectsInv'
  BY DEF TypeInv
<1> USE DEF runVars, jobVars, stateVars
<1>1. reply \in [Actors -> {"ok", "error", "pending"}] /\ "run" \in Actors
  BY DEF TypeOK, Actors
<1>2. CASE Recorder
  <2>1. UNCHANGED <<run, attempt, writeChain, state, saved, faults, job>>
    BY <1>2 DEF Recorder, RecorderStarts, RecorderStartFails, RecorderUpdated, RecorderClosesSession,
       UpdateJob
  <2>2. reply' = reply \/ reply' = [reply EXCEPT !["recorder"] = "pending"]
    BY <1>2 DEF Recorder, RecorderStarts, RecorderStartFails, RecorderUpdated, RecorderClosesSession,
       UpdateJob
  <2> QED  BY <1>1, <2>1, <2>2, ReconnectsFrame
<1>3. CASE ItemAdded
  <2>1. PICK kind \in {"turn", "note"} : Enqueue(<<[op |-> kind, n |-> Len(said) + 1]>>)
    BY <1>3 DEF ItemAdded
  <2> DEFINE entries == <<[op |-> kind, n |-> Len(said) + 1]>>
  <2>2. entries \in Seq(ChainEntries) /\ \A k \in DOMAIN entries : entries[k].op \notin {"bump", "run"}
    <3>1. [op |-> kind, n |-> Len(said) + 1] \in ChainEntries
      BY ChainTypes DEF ChainEntries
    <3> QED  BY <3>1
  <2>3. UNCHANGED <<run, attempt, state, saved, faults, job, reply>>
    BY <1>3 DEF ItemAdded
  <2>4. BumpsInv' /\ (NoBumpWaits' => NoBumpWaits)
    BY <2>1, <2>2, <2>3, BumpsEnqueue DEF ReconnectsInv
  <2> QED  BY <2>3, <2>4, ReconnectsChain
<1>4. CASE SessionClosed \/ InterviewEnds \/ UNCHANGED vars
  BY <1>4, ReconnectsFrame DEF SessionClosed, InterviewEnds, vars
<1> QED  BY <1>2, <1>3, <1>4

\* The chains: the bump brings the number into the state, the run's update into the
\* record.
LEMMA ChainsReconnects ==
    TypeInv /\ UpdatesInv /\ SpeechInv /\ ReconnectsInv /\ Chains => ReconnectsInv'
<1> SUFFICES ASSUME TypeInv, TypeOK, UpdatesInv, SpeechInv, ReconnectsInv, Chains PROVE ReconnectsInv'
  BY DEF TypeInv
<1> USE DEF runVars, jobVars, stateVars
<1>1. /\ reply \in [Actors -> {"ok", "error", "pending"}] /\ "run" \in Actors
      /\ faults \in Nat /\ state \in InterviewStates /\ saved \in InterviewStates
  BY ConstantsAssumption DEF TypeOK, Actors
<1>2. CASE PerformJobUpdate
  <2>1. UNCHANGED <<run, attempt, writeChain, state, saved>>
    BY <1>2 DEF PerformJobUpdate
  <2>2. PICK w \in Updates :
          /\ reply[w.by] = "pending" /\ Awaited(w)
          /\ \/ /\ job' = Merge(job, w.patch) /\ reply' = [reply EXCEPT ![w.by] = "ok"]
                /\ faults' = faults
             \/ /\ job' \in {job, Merge(job, w.patch)}
                /\ reply' = [reply EXCEPT ![w.by] = "error"] /\ faults' = faults + 1
    BY <1>2, Performs
  <2>3. Merge(job, w.patch).reconnects = IF w.by = "run" /\ run = "reconnecting" THEN attempt
                                         ELSE job.reconnects
    BY <2>2, RecordAfter
  <2>4. w.by = "run" => run \in {"reconnecting", "announcing"}
    BY <2>2 DEF Awaited
  <2>5. faults' = 0 => faults = 0
    BY <1>1, <2>2
  <2>6. CASE w.by = "run" /\ run = "reconnecting"
    <3>1. (BumpsInv /\ NoBumpWaits <=> BumpsInv' /\ NoBumpWaits') /\ (BumpsInv => BumpsInv')
      BY <2>1 DEF BumpsInv, NoBumpWaits
    <3>2. job'.reconnects = attempt \/ (job' = job /\ reply'["run"] # "ok")
      BY <1>1, <2>2, <2>3, <2>6
    <3> QED  BY <2>1, <2>5, <2>6, <3>1, <3>2 DEF ReconnectsInv, AttemptUnderWay
  <2>7. CASE ~(w.by = "run" /\ run = "reconnecting")
    <3>1. job'.reconnects = job.reconnects
      BY <2>2, <2>3, <2>7
    <3>2. run = "reconnecting" => reply'["run"] = reply["run"]
      BY <1>1, <2>2, <2>7
    <3> QED  BY <2>1, <2>5, <3>1, <3>2 DEF ReconnectsInv, AttemptUnderWay, BumpsInv, NoBumpWaits
  <2> QED  BY <2>6, <2>7
<1> DEFINE Pops == writeChain # <<>> /\ writeChain' = Tail(writeChain)
                     /\ Head(writeChain).op \notin {"bump", "run"}
<1>3. ASSUME Pops \/ UNCHANGED writeChain, UNCHANGED <<run, attempt>>
      PROVE  BumpsInv' /\ (NoBumpWaits' => NoBumpWaits)
  <2>1. CASE Pops
    BY <1>3, <2>1, BumpsPop DEF ReconnectsInv
  <2>2. CASE UNCHANGED writeChain
    BY <1>3, <2>2 DEF ReconnectsInv, BumpsInv, NoBumpWaits
  <2> QED  BY <1>3, <2>1, <2>2
<1>4. CASE AppendTranscript
  <2>1. UNCHANGED <<run, attempt, job, reply, saved>> /\ (Pops \/ UNCHANGED writeChain)
    BY <1>4 DEF AppendTranscript, DropItem
  <2>2. state'.reconnects = state.reconnects
    <3>1. Head(writeChain).n \in Nat
      <4>1. writeChain # <<>>
        BY <1>4 DEF AppendTranscript
      <4> QED  BY <4>1, ChainTypes
    <3>2. state' \in {state, AppendTurn(state, Head(writeChain).n)}
      BY <1>4 DEF AppendTranscript, DropItem
    <3> QED  BY <1>1, <3>1, <3>2, AppendTurnCounts
  <2>3. faults' = 0 => faults = 0
    BY <1>1, <1>4 DEF AppendTranscript, Fault
  <2> HIDE DEF Pops
  <2> QED  BY <1>3, <2>1, <2>2, <2>3, ReconnectsChain
<1>5. CASE SaveTurnState
  <2>1. Pops \/ UNCHANGED writeChain
    BY <1>5 DEF SaveTurnState, TypeInv, WriterHasItem, SpeechInv
  <2>2. UNCHANGED <<run, attempt, job, state>> /\ saved' \in {saved, state}
        /\ (reply' = reply \/ reply' = [reply EXCEPT !["writer"] = "pending"])
        /\ (faults' = faults \/ faults' = faults + 1)
    BY <1>5 DEF SaveTurnState, UpdateJob, Fault
  <2> HIDE DEF Pops
  <2>3. /\ reply'["run"] = "ok" => reply["run"] = "ok"
        /\ faults' = 0 => faults = 0
    BY <1>1, <2>2
  <2> QED  BY <1>3, <2>1, <2>2, <2>3, ReconnectsChain
<1>6. CASE TurnPersisted
  <2>1. Pops
    BY <1>6 DEF TurnPersisted, TypeInv, WriterHasItem, SpeechInv
  <2>2. UNCHANGED <<run, attempt, job, reply, state, saved, faults>>
    BY <1>6 DEF TurnPersisted
  <2> HIDE DEF Pops
  <2> QED  BY <1>3, <2>1, <2>2, ReconnectsChain
<1>7. CASE BumpReconnects
  <2>1. /\ writeChain # <<>> /\ writeChain' = Tail(writeChain) /\ Head(writeChain).op = "bump"
        /\ state' = [state EXCEPT !.reconnects = Head(writeChain).n]
        /\ UNCHANGED <<run, attempt, job, reply>>
        /\ \/ saved' = state' /\ UNCHANGED faults
           \/ faults' = faults + 1
    BY <1>7 DEF BumpReconnects, Fault
  <2>2. run = "draining" /\ Head(writeChain).n = attempt
    <3>1. 1 \in DOMAIN writeChain /\ Head(writeChain) = writeChain[1]
      BY <2>1, ChainTypes, TailElements
    <3> QED  BY <2>1, <3>1 DEF ReconnectsInv, BumpsInv
  <2>3. BumpsInv'
    BY <2>1, BumpsPop DEF ReconnectsInv
  <2>4. state'.reconnects = attempt
    BY <1>1, <2>1, <2>2 DEF InterviewStates
  <2>5. faults' = 0 => saved' = state'
    BY <1>1, <2>1
  <2> QED  BY <2>1, <2>2, <2>3, <2>4, <2>5 DEF ReconnectsInv, AttemptUnderWay
<1> QED  BY <1>2, <1>4, <1>5, <1>6, <1>7 DEF Chains

\* The run: onReconnect bumps, awaits and updates before a session is created.
LEMMA RunReconnects == TypeInv /\ ReconnectsInv /\ Run => ReconnectsInv'
<1> SUFFICES ASSUME TypeOK, ReconnectsInv, Run PROVE ReconnectsInv'
  BY DEF TypeInv
<1> USE DEF runVars, jobVars, stateVars
<1>1. /\ reply \in [Actors -> {"ok", "error", "pending"}] /\ "run" \in Actors
      /\ faults \in Nat /\ attempt \in Nat
  BY ConstantsAssumption DEF TypeOK, Actors
<1>2. ASSUME UNCHANGED <<attempt, writeChain>>, run # "draining", run' # "draining" PROVE BumpsInv'
  BY <1>2 DEF ReconnectsInv, BumpsInv
<1>3. CASE RunLoops
  <2>1. UNCHANGED <<attempt, state, saved, job, reply, faults>> /\ run = "looping"
    BY <1>3 DEF RunLoops
  <2>2. CASE UNCHANGED writeChain /\ (run' = "rejected" \/ (attempt = 0 /\ run' = "created"))
    BY <1>2, <2>1, <2>2 DEF ReconnectsInv, AttemptUnderWay
  <2>3. CASE attempt > 0 /\ run' = "draining" /\ Enqueue(BumpThenAwait)
    <3>1. \A k \in DOMAIN writeChain : writeChain[k].op \notin {"bump", "run"}
      BY <2>1 DEF ReconnectsInv, BumpsInv
    <3> DEFINE bump == [op |-> "bump", n |-> attempt]
               await == [op |-> "run", n |-> 0]
    <3>2. bump \in ChainEntries /\ bump.op = "bump" /\ bump.n = attempt
          /\ await \in ChainEntries /\ await.op = "run"
      BY <1>1 DEF ChainEntries
    <3>3. /\ \A k \in DOMAIN writeChain' :
                \/ k \in DOMAIN writeChain /\ writeChain'[k] = writeChain[k]
                \/ k = Len(writeChain) + 1 /\ writeChain'[k] = bump
                \/ k = Len(writeChain) + 2 /\ writeChain'[k] = await
          /\ Len(writeChain) + 1 \in DOMAIN writeChain'
          /\ writeChain'[Len(writeChain) + 1] = bump
          /\ Len(writeChain) \in Nat
      <4>1. writeChain \in Seq(ChainEntries) /\ writeChain' = writeChain \o <<bump, await>>
        BY <2>3 DEF TypeOK, Enqueue, BumpThenAwait
      <4> HIDE DEF bump, await
      <4>2. /\ DOMAIN writeChain' = 1..(Len(writeChain) + 2) /\ DOMAIN writeChain = 1..Len(writeChain)
            /\ Len(writeChain) \in Nat
            /\ \A k \in DOMAIN writeChain : writeChain'[k] = writeChain[k]
            /\ writeChain'[Len(writeChain) + 1] = bump /\ writeChain'[Len(writeChain) + 2] = await
        BY <3>2, <4>1, TwoMoreElements
      <4> QED  BY <4>2
    <3> HIDE DEF bump, await
    <3>4. BumpsInv' /\ ~NoBumpWaits'
      BY <2>1, <2>3, <3>1, <3>2, <3>3 DEF BumpsInv, NoBumpWaits
    <3> QED  BY <1>1, <2>1, <2>3, <3>4 DEF ReconnectsInv, AttemptUnderWay
  <2> QED  BY <1>3, <2>2, <2>3 DEF RunLoops
<1>4. CASE RunDrained
  <2>1. /\ writeChain # <<>> /\ writeChain' = Tail(writeChain) /\ Head(writeChain).op = "run"
        /\ UNCHANGED <<attempt, state, saved, faults, job>>
        /\ run = "draining" /\ run' = "reconnecting" /\ reply' = [reply EXCEPT !["run"] = "pending"]
    BY <1>4 DEF RunDrained, ChainDrainedFor, UpdateJob
  <2>2. BumpsInv' /\ NoBumpWaits
    BY <2>1, BumpsPop DEF ReconnectsInv
  <2> QED  BY <1>1, <2>1, <2>2 DEF ReconnectsInv, AttemptUnderWay
<1>5. CASE RunReconnecting
  <2>1. reply["run"] # "ok" => run' = "rejected"
    BY <1>5 DEF RunReconnecting
  <2> QED  BY <1>2, <1>5, <2>1 DEF RunReconnecting, ReconnectsInv, AttemptUnderWay
<1>6. CASE RunSeeds
  <2>1. /\ UNCHANGED <<attempt, writeChain, state, saved, job, reply>> /\ run = "seeding"
        /\ run' \in {"rejected", "created"} /\ (faults' = faults \/ faults' = faults + 1)
    BY <1>6 DEF RunSeeds, Fault
  <2> QED  BY <1>1, <1>2, <2>1 DEF ReconnectsInv, AttemptUnderWay
<1>7. CASE RunStarts \/ RunStartFails \/ RunAnnounced \/ RunDone
  BY <1>2, <1>7 DEF RunStarts, RunStartFails, RunAnnounced, RunDone, ReconnectsInv, AttemptUnderWay
<1>8. CASE RunStarted
  BY <1>2, <1>8 DEF RunStarted, UpdateJob, ReconnectsInv, AttemptUnderWay
<1>9. CASE RunCloses
  <2>1. /\ run = "closing" /\ UNCHANGED <<writeChain, state, saved, job, reply, faults>>
        /\ \/ run' \in {"resolved", "rejected"} /\ UNCHANGED attempt
           \/ run' \in {"looping", "rejected"} /\ attempt' = attempt + 1
    BY <1>9 DEF RunCloses
  <2>2. BumpsInv'
    BY <2>1 DEF ReconnectsInv, BumpsInv
  <2> QED  BY <1>1, <2>1, <2>2 DEF ReconnectsInv, AttemptUnderWay
<1> QED  BY <1>3, <1>4, <1>5, <1>6, <1>7, <1>8, <1>9 DEF Run

-----------------------------------------------------------------------------
(* Draining the chain *)

\* The head leaves the chain.
LEMMA DrainsPop ==
    ASSUME TypeOK, writeChain # <<>>, writeChain' = Tail(writeChain)
    PROVE  /\ NoItemWaits => NoItemWaits'
           /\ \A actor \in {"run", "main"} :
                 /\ AwaitsBehindItems(actor) => AwaitsBehindItems(actor)'
                 /\ AwaitsBehindItems(actor) /\ Head(writeChain).op = actor => NoItemWaits'
           /\ (\A k \in DOMAIN writeChain : writeChain[k].op # "main")
                 => (\A k \in DOMAIN writeChain : writeChain[k].op # "main")'
<1>1. /\ Head(writeChain) = writeChain[1] /\ 1 \in DOMAIN writeChain
      /\ \A k \in DOMAIN writeChain' :
            /\ k \in Nat \ {0} /\ k + 1 \in DOMAIN writeChain /\ ~(k + 1 < 1)
            /\ writeChain'[k] = writeChain[k + 1]
  BY ChainTypes, TailElements
<1>2. NoItemWaits => NoItemWaits'
  BY <1>1 DEF NoItemWaits, Item
<1>3. ASSUME NEW actor \in {"run", "main"}, AwaitsBehindItems(actor)
      PROVE  AwaitsBehindItems(actor)'
  BY <1>1, <1>3 DEF AwaitsBehindItems, Item
<1>4. ASSUME NEW actor \in {"run", "main"}, AwaitsBehindItems(actor), Head(writeChain).op = actor
      PROVE  NoItemWaits'
  BY <1>1, <1>4 DEF AwaitsBehindItems, NoItemWaits, Item
<1>5. (\A k \in DOMAIN writeChain : writeChain[k].op # "main")
         => (\A k \in DOMAIN writeChain : writeChain[k].op # "main")'
  BY <1>1
<1> QED  BY <1>2, <1>3, <1>4, <1>5

\* Entries that are no items are put on it.
LEMMA DrainsEnqueue ==
    ASSUME TypeOK, NEW entries \in Seq(ChainEntries), Enqueue(entries),
           \A k \in DOMAIN entries : ~Item(entries[k])
    PROVE  /\ NoItemWaits => NoItemWaits'
           /\ \A actor \in {"run", "main"} : AwaitsBehindItems(actor) => AwaitsBehindItems(actor)'
           /\ (\A k \in DOMAIN writeChain : writeChain[k].op # "main")
              /\ (\A k \in DOMAIN entries : entries[k].op # "main")
                 => (\A k \in DOMAIN writeChain : writeChain[k].op # "main")'
<1>1. /\ DOMAIN writeChain = 1..Len(writeChain) /\ Len(writeChain) \in Nat
      /\ \A k \in DOMAIN writeChain' :
            \/ k \in DOMAIN writeChain /\ writeChain'[k] = writeChain[k] /\ k <= Len(writeChain)
            \/ /\ k \in Nat /\ k > Len(writeChain) /\ k - Len(writeChain) \in DOMAIN entries
               /\ writeChain'[k] = entries[k - Len(writeChain)]
  <2>1. writeChain \in Seq(ChainEntries) /\ writeChain' = writeChain \o entries
    BY DEF TypeOK, Enqueue
  <2> QED  BY <2>1, ConcatElements
<1>2. NoItemWaits => NoItemWaits'
  BY <1>1 DEF NoItemWaits, Item
<1>3. ASSUME NEW actor \in {"run", "main"}, AwaitsBehindItems(actor)
      PROVE  AwaitsBehindItems(actor)'
  <2> SUFFICES ASSUME NEW k \in DOMAIN writeChain', NEW l \in DOMAIN writeChain',
                      writeChain'[k].op = actor, Item(writeChain'[l])
               PROVE  l < k
    BY DEF AwaitsBehindItems, Item
  <2>1. l \in DOMAIN writeChain /\ writeChain'[l] = writeChain[l] /\ l <= Len(writeChain)
    BY <1>1
  <2> QED  BY <1>1, <1>3, <2>1 DEF AwaitsBehindItems, Item
<1>4. (\A k \in DOMAIN writeChain : writeChain[k].op # "main")
       /\ (\A k \in DOMAIN entries : entries[k].op # "main")
         => (\A k \in DOMAIN writeChain : writeChain[k].op # "main")'
  BY <1>1
<1> QED  BY <1>2, <1>3, <1>4

\* The chain stays, or loses its head.
LEMMA DrainsFrame ==
    ASSUME TypeOK, DrainsInv, UNCHANGED <<run, attempt, main, finalEvent>>,
           UNCHANGED writeChain \/ (writeChain # <<>> /\ writeChain' = Tail(writeChain))
    PROVE  DrainsInv'
<1>1. CASE UNCHANGED writeChain
  BY <1>1 DEF DrainsInv, AwaitsBehindItems, NoItemWaits
<1>2. CASE writeChain # <<>> /\ writeChain' = Tail(writeChain)
  BY <1>2, DrainsPop DEF DrainsInv
<1> QED  BY <1>1, <1>2

\* An item is added while a session is live, and then nobody has drained the chain
\* for good.
LEMMA ItemDrains == ControlInv /\ CompletionInv /\ DrainsInv /\ TypeOK /\ ItemAdded => DrainsInv'
<1> SUFFICES ASSUME ControlInv, CompletionInv, DrainsInv, TypeOK, ItemAdded PROVE DrainsInv'
  OBVIOUS
<1>1. UNCHANGED <<run, attempt, main, finalEvent>> /\ session = "live"
  BY DEF ItemAdded, mainVars, runVars
<1>2. run \notin {"draining", "reconnecting", "seeding", "created"} /\ run # "resolved"
  BY <1>1 DEF ControlInv, SessionOfTheRun
<1>3. main \notin {"draining", "completing"} /\ finalEvent # "job_completed"
  BY <1>2 DEF CompletionInv
<1>4. ASSUME main \in BeforeDrain PROVE (\A k \in DOMAIN writeChain : writeChain[k].op # "main")'
  <2>1. PICK kind \in {"turn", "note"} : writeChain' = writeChain \o <<[op |-> kind, n |-> Len(said) + 1]>>
    BY DEF ItemAdded, Enqueue
  <2> DEFINE e == [op |-> kind, n |-> Len(said) + 1]
  <2>2. e \in ChainEntries /\ e.op # "main" /\ writeChain' = Append(writeChain, e)
        /\ writeChain \in Seq(ChainEntries)
    BY <2>1, ChainTypes DEF ChainEntries
  <2> HIDE DEF e
  <2>3. \A k \in DOMAIN writeChain' :
           (k \in DOMAIN writeChain /\ writeChain'[k] = writeChain[k]) \/ writeChain'[k] = e
    BY <2>2, AppendElements
  <2> QED  BY <1>4, <2>2, <2>3 DEF DrainsInv
<1> QED  BY <1>1, <1>2, <1>3, <1>4 DEF DrainsInv

\* entry() drains the chain before it completes.
LEMMA MainDrains == TypeOK /\ DrainsInv /\ CompletionInv /\ Main => DrainsInv'
<1> SUFFICES ASSUME TypeOK, DrainsInv, CompletionInv, Main PROVE DrainsInv'
  OBVIOUS
<1>1. UNCHANGED attempt /\ run' \in {run, "looping"}
  BY DEF Main, SetUp, SetUpFails, Connect, ConnectFails, Connected, RaceSettles, InterviewEnded,
     RoomTornDown, Drained, Completed, Failed, FinalDrained, Settled, EgressStopped, StopRecorded,
     Finalize, Report, runVars
<1>2. ASSUME AwaitChain
      PROVE  /\ NoItemWaits => NoItemWaits'
             /\ \A actor \in {"run", "main"} : AwaitsBehindItems(actor) => AwaitsBehindItems(actor)'
  <2> DEFINE entries == <<[op |-> "main", n |-> 0]>>
  <2>1. entries \in Seq(ChainEntries) /\ \A k \in DOMAIN entries : ~Item(entries[k])
    BY DEF ChainEntries, Item
  <2>2. Enqueue(entries)
    BY <1>2 DEF AwaitChain
  <2> HIDE DEF entries
  <2> QED  BY <2>1, <2>2, DrainsEnqueue
<1>3. CASE InterviewEnded \/ RoomTornDown
  <2>1. main \in {"awaiting_recording", "deleting_room"} /\ UNCHANGED <<run, finalEvent>>
        /\ \/ main' = "draining" /\ AwaitChain
           \/ main' = "deleting_room" /\ UNCHANGED writeChain
    BY <1>3 DEF InterviewEnded, RoomTornDown, runVars, stateVars
  <2>2. AwaitsBehindItems("main")
    BY <2>1 DEF DrainsInv, BeforeDrain, AwaitsBehindItems
  <2>3. CASE main' = "draining" /\ AwaitChain
    BY <1>1, <1>2, <2>1, <2>2, <2>3 DEF DrainsInv, BeforeDrain
  <2>4. CASE main' = "deleting_room" /\ UNCHANGED writeChain
    BY <1>1, <2>1, <2>4 DEF DrainsInv, BeforeDrain, AwaitsBehindItems, NoItemWaits
  <2> QED  BY <2>1, <2>3, <2>4
<1>4. CASE Drained
  <2>1. main = "draining" /\ main' = "completing" /\ UNCHANGED <<run, finalEvent>>
        /\ writeChain # <<>> /\ writeChain' = Tail(writeChain) /\ Head(writeChain).op = "main"
    BY <1>4 DEF Drained, ChainDrainedFor, runVars
  <2> QED  BY <1>1, <2>1, DrainsPop DEF DrainsInv, BeforeDrain
<1>5. CASE Completed
  <2>1. main = "completing" /\ UNCHANGED run
        /\ \/ main' = "final_drain" /\ AwaitChain
           \/ main' = "failing" /\ UNCHANGED <<writeChain, finalEvent>>
    BY <1>5 DEF Completed, Catch, runVars, stateVars
  <2>2. CASE main' = "final_drain" /\ AwaitChain
    BY <1>1, <1>2, <2>1, <2>2 DEF DrainsInv, BeforeDrain
  <2>3. CASE main' = "failing" /\ UNCHANGED <<writeChain, finalEvent>>
    BY <1>1, <2>1, <2>3 DEF DrainsInv, BeforeDrain, AwaitsBehindItems, NoItemWaits
  <2> QED  BY <2>1, <2>2, <2>3
<1>6. CASE Failed
  <2>1. main' = "final_drain" /\ UNCHANGED <<run, finalEvent>> /\ AwaitChain
    BY <1>6 DEF Failed, runVars
  <2> QED  BY <1>1, <1>2, <2>1 DEF DrainsInv, BeforeDrain
<1>7. CASE FinalDrained
  <2>1. main' = "settling" /\ UNCHANGED <<run, finalEvent>>
        /\ writeChain # <<>> /\ writeChain' = Tail(writeChain)
    BY <1>7 DEF FinalDrained, ChainDrainedFor, runVars
  <2> QED  BY <1>1, <2>1, DrainsPop DEF DrainsInv, BeforeDrain
<1>8. CASE Main /\ ~InterviewEnded /\ ~RoomTornDown /\ ~Drained /\ ~Completed /\ ~Failed /\ ~FinalDrained
  <2>1. /\ UNCHANGED <<writeChain, finalEvent>>
        /\ main' \in BeforeDrain => main \in BeforeDrain
        /\ main' \notin {"draining", "completing"}
    BY <1>8 DEF Main, SetUp, SetUpFails, Connect, ConnectFails, Connected, RaceSettles,
       Settled, EgressStopped, StopRecorded, Finalize, Report, Catch, BeforeDrain, stateVars
  <2> QED  BY <1>1, <2>1 DEF DrainsInv, AwaitsBehindItems, NoItemWaits
<1> QED  BY <1>3, <1>4, <1>5, <1>6, <1>7, <1>8

\* The run drains it before it reconnects.
LEMMA RunDrains == TypeOK /\ ReconnectsInv /\ DrainsInv /\ Run => DrainsInv'
<1> SUFFICES ASSUME TypeOK, ReconnectsInv, DrainsInv, Run PROVE DrainsInv'
  OBVIOUS
<1>1. UNCHANGED <<main, finalEvent>>
  BY DEF Run, RunLoops, RunDrained, RunReconnecting, RunSeeds, RunStarts, RunStarted, RunStartFails,
     RunAnnounced, RunDone, RunCloses, mainVars
<1>2. CASE RunLoops
  <2>1. run = "looping" /\ UNCHANGED attempt
        /\ \/ UNCHANGED writeChain /\ (run' = "rejected" \/ (run' = "created" /\ attempt = 0))
           \/ Enqueue(BumpThenAwait) /\ run' = "draining"
    BY <1>2 DEF RunLoops
  <2>2. AwaitsBehindItems("run")
    BY <2>1 DEF ReconnectsInv, BumpsInv, AwaitsBehindItems
  <2>3. CASE Enqueue(BumpThenAwait) /\ run' = "draining"
    <3>1. /\ BumpThenAwait \in Seq(ChainEntries)
          /\ \A k \in DOMAIN BumpThenAwait : ~Item(BumpThenAwait[k]) /\ BumpThenAwait[k].op # "main"
      BY DEF BumpThenAwait, ChainEntries, Item, TypeOK
    <3> QED  BY <1>1, <2>1, <2>2, <2>3, <3>1, DrainsEnqueue DEF DrainsInv
  <2>4. CASE UNCHANGED writeChain /\ (run' = "rejected" \/ (run' = "created" /\ attempt = 0))
    BY <1>1, <2>1, <2>4 DEF DrainsInv, AwaitsBehindItems, NoItemWaits
  <2> QED  BY <2>1, <2>3, <2>4
<1>3. CASE RunDrained
  <2>1. run = "draining" /\ run' = "reconnecting" /\ UNCHANGED attempt
        /\ writeChain # <<>> /\ writeChain' = Tail(writeChain) /\ Head(writeChain).op = "run"
    BY <1>3 DEF RunDrained, ChainDrainedFor
  <2> QED  BY <1>1, <2>1, DrainsPop DEF DrainsInv
<1>4. CASE Run /\ ~RunLoops /\ ~RunDrained
  <2>1. /\ UNCHANGED writeChain /\ run' # "draining"
        /\ run' \in {"reconnecting", "seeding", "created"} =>
              run \in {"reconnecting", "seeding"} /\ UNCHANGED attempt
    BY <1>4 DEF Run, RunReconnecting, RunSeeds, RunStarts, RunStarted, RunStartFails, RunAnnounced,
       RunDone, RunCloses, stateVars
  <2> QED  BY <1>1, <2>1 DEF DrainsInv, AwaitsBehindItems, NoItemWaits
<1> QED  BY <1>2, <1>3, <1>4

\* All other steps only shorten it.
LEMMA DrainsPreserved ==
    TypeInv /\ ControlInv /\ ReconnectsInv /\ CompletionInv /\ DrainsInv /\ [Next]_vars => DrainsInv'
<1> SUFFICES ASSUME TypeOK, WriterHasItem, ControlInv, ReconnectsInv, CompletionInv, DrainsInv,
                    [Next]_vars
             PROVE  DrainsInv'
  BY DEF TypeInv
<1>1. CASE Recorder \/ Chains \/ SessionClosed \/ InterviewEnds \/ UNCHANGED vars
  <2>1. UNCHANGED <<run, attempt, main, finalEvent>>
    BY <1>1 DEF Recorder, RecorderStarts, RecorderStartFails, RecorderUpdated, RecorderClosesSession,
       Chains, PerformJobUpdate, AppendTranscript, SaveTurnState, TurnPersisted, BumpReconnects,
       SessionClosed, InterviewEnds, vars, mainVars, runVars
  <2>2. UNCHANGED writeChain \/ (writeChain # <<>> /\ writeChain' = Tail(writeChain))
    BY <1>1 DEF Recorder, RecorderStarts, RecorderStartFails, RecorderUpdated, RecorderClosesSession,
       Chains, PerformJobUpdate, AppendTranscript, SaveTurnState, TurnPersisted, BumpReconnects,
       SessionClosed, InterviewEnds, vars, stateVars, DropItem, WriterHasItem
  <2> QED  BY <2>1, <2>2, DrainsFrame
<1> QED  BY <1>1, MainDrains, RunDrains, ItemDrains DEF Next, Finished

\* The record and the state have the number of the attempt a session is made for.
LEMMA ReconnectsPreserved ==
    TypeInv /\ ControlInv /\ UpdatesInv /\ SpeechInv /\ ReconnectsInv /\ [Next]_vars => ReconnectsInv'
BY MainReconnects, RoomReconnects, ChainsReconnects, RunReconnects DEF Next, Finished

-----------------------------------------------------------------------------
(* Completion *)

\* What follows from a job having completed, whoever moves: nothing of it writes
\* the status any more.
LEMMA CompletionFrame ==
    ASSUME ControlInv, CompletionInv, UNCHANGED <<main, finalEvent, webhook, job>>,
           run = "resolved" => run' = "resolved",
           reply'["main"] = "ok" => reply["main"] = "ok"
    PROVE  CompletionInv'
BY DEF CompletionInv

\* After the report no update of the record is queued.
LEMMA NothingQueued ==
    ASSUME TypeInv, ControlInv, UpdatesInv, SpeechInv, DrainsInv,
           finalEvent = "job_completed", main \in {"reporting", "done"}
    PROVE  writer = "idle" /\ \A w \in Updates : ~Awaited(w)
<1>1. RunSettled /\ RecorderSettled
  BY DEF ControlInv, AllSettled, Late
<1>2. writer = "idle"
  <2> SUFFICES ASSUME writer # "idle" PROVE FALSE
    BY DEF TypeInv, TypeOK
  <2>1. writeChain # <<>> /\ Head(writeChain).op = "turn"
    BY DEF TypeInv, WriterHasItem, SpeechInv
  <2>2. 1 \in DOMAIN writeChain /\ Head(writeChain) = writeChain[1]
    BY <2>1, ChainTypes, TailElements DEF TypeInv
  <2> QED  BY <2>1, <2>2 DEF DrainsInv, NoItemWaits, Item
<1> QED  BY <1>1, <1>2 DEF Awaited, RunSettled, RecorderSettled

\* entry() comes to its end with the record it has made.
LEMMA MainCompletes == TypeInv /\ ControlInv /\ CompletionInv /\ Main => CompletionInv'
<1> SUFFICES ASSUME TypeOK, ControlInv, CompletionInv, Main PROVE CompletionInv'
  BY DEF TypeInv
<1> USE DEF CompletionInv, Late, mainVars, runVars, jobVars
<1>0. reply \in [Actors -> {"ok", "error", "pending"}] /\ "main" \in Actors
      /\ (webhook.event # "none" => main = "done") /\ webhook.event \in {"none", "job_failed", "job_completed"}
      /\ finalEvent \in {"job_failed", "job_completed"}
  BY DEF TypeOK, Actors, ControlInv, ReportedLast
<1>1. CASE SetUp \/ SetUpFails
  BY <1>0, <1>1 DEF SetUp, SetUpFails
<1>2. CASE Connect \/ ConnectFails
  BY <1>0, <1>2 DEF Connect, ConnectFails, Catch, UpdateJob
<1>3. CASE Connected
  BY <1>0, <1>3 DEF Connected, Catch, UpdateJob
<1>4. CASE RaceSettles
  BY <1>0, <1>4 DEF RaceSettles, Catch, UpdateJob
<1>5. CASE InterviewEnded \/ RoomTornDown
  BY <1>0, <1>5 DEF InterviewEnded, RoomTornDown
<1>6. CASE Drained
  BY <1>0, <1>6 DEF Drained, UpdateJob
<1>7. CASE Completed
  BY <1>0, <1>7 DEF Completed, Catch, UpdateJob
<1>8. CASE Failed \/ FinalDrained
  BY <1>0, <1>8 DEF Failed, FinalDrained
<1>9. CASE Settled \/ StopRecorded
  BY <1>0, <1>9 DEF Settled, StopRecorded
<1>10. CASE EgressStopped
  BY <1>0, <1>10 DEF EgressStopped, UpdateJob
<1>11. CASE Finalize
  BY <1>0, <1>11 DEF Finalize
<1>12. CASE Report
  BY <1>0, <1>12 DEF Report
<1> QED  BY <1>1, <1>2, <1>3, <1>4, <1>5, <1>6, <1>7, <1>8, <1>9, <1>10, <1>11, <1>12 DEF Main

\* "completed" is the last status the record gets, and the one reported.
LEMMA CompletionPreserved ==
    TypeInv /\ ControlInv /\ UpdatesInv /\ SpeechInv /\ DrainsInv /\ CompletionInv /\ [Next]_vars
        => CompletionInv'
<1> SUFFICES ASSUME TypeInv, TypeOK, ControlInv, UpdatesInv, SpeechInv, DrainsInv, CompletionInv,
                    [Next]_vars
             PROVE  CompletionInv'
  BY DEF TypeInv
<1>1. reply \in [Actors -> {"ok", "error", "pending"}] /\ "main" \in Actors
  BY DEF TypeOK, Actors
<1>2. CASE PerformJobUpdate
  <2>1. UNCHANGED <<main, finalEvent, webhook, run>>
    BY <1>2 DEF PerformJobUpdate, mainVars, runVars
  <2>2. PICK w \in Updates :
          /\ reply[w.by] = "pending" /\ Awaited(w)
          /\ \/ /\ job' = Merge(job, w.patch) /\ reply' = [reply EXCEPT ![w.by] = "ok"]
                /\ faults' = faults
             \/ /\ job' \in {job, Merge(job, w.patch)}
                /\ reply' = [reply EXCEPT ![w.by] = "error"] /\ faults' = faults + 1
    BY <1>2, Performs
  <2> DEFINE after == Merge(job, w.patch)
  <2>3. /\ w.by = "main" /\ main = "completing" => after.status = "completed"
        /\ w.by \in {"recorder", "writer"} \/ (w.by = "main" /\ main = "marking_stopped")
              => after.status = job.status
    BY <2>2, RecordAfter
  <2>4. w.by \in Actors
    BY DEF Updates
  <2> HIDE DEF after
  <2>5. ASSUME main = "completing", reply'["main"] = "ok" PROVE job'.status = "completed"
    <3>1. run = "resolved"
      BY <2>5 DEF CompletionInv
    <3>2. w.by # "run"
      BY <2>2, <3>1 DEF Awaited
    <3>3. CASE w.by = "main"
      BY <1>1, <2>2, <2>3, <2>5, <3>3 DEF after
    <3>4. CASE w.by # "main"
      <4>1. reply["main"] = "ok"
        BY <1>1, <2>2, <2>5, <3>4
      <4>2. job.status = "completed"
        BY <2>5, <4>1 DEF CompletionInv
      <4>3. w.by \in {"recorder", "writer"}
        BY <2>4, <3>2, <3>4 DEF Actors
      <4> QED  BY <2>2, <2>3, <4>2, <4>3 DEF after
    <3> QED  BY <3>3, <3>4
  <2>6. ASSUME finalEvent = "job_completed" PROVE job'.status = "completed"
    <3>1. run = "resolved" /\ job.status = "completed" /\ main \in {"final_drain", "settling"} \cup Late
      BY <2>6 DEF CompletionInv
    <3>2. w.by # "run" /\ (w.by = "main" => main = "marking_stopped")
      BY <2>2, <3>1 DEF Awaited, Late
    <3>3. after.status = job.status
      BY <2>3, <2>4, <3>2 DEF Actors
    <3> QED  BY <2>2, <3>1, <3>3 DEF after
  <2>7. webhook.event # "job_completed"
    <3> SUFFICES ASSUME webhook.event = "job_completed" PROVE FALSE
      OBVIOUS
    <3>1. main = "done" /\ finalEvent = "job_completed"
      BY DEF ControlInv, ReportedLast, CompletionInv
    <3> QED  BY <2>2, <3>1, NothingQueued
  <2> QED  BY <2>1, <2>5, <2>6, <2>7 DEF CompletionInv
<1>3. CASE Chains /\ ~PerformJobUpdate
  <2>1. UNCHANGED <<main, finalEvent, webhook, run, job>>
    BY <1>3 DEF Chains, AppendTranscript, SaveTurnState, TurnPersisted, BumpReconnects, UpdateJob,
       mainVars, runVars, jobVars
  <2>2. reply' = reply \/ reply' = [reply EXCEPT !["writer"] = "pending"]
    BY <1>3 DEF Chains, AppendTranscript, SaveTurnState, TurnPersisted, BumpReconnects, UpdateJob, jobVars
  <2> QED  BY <1>1, <2>1, <2>2, CompletionFrame
<1>4. CASE Recorder
  <2>1. UNCHANGED <<main, finalEvent, webhook, run, job>>
    BY <1>4 DEF Recorder, RecorderStarts, RecorderStartFails, RecorderUpdated, RecorderClosesSession,
       UpdateJob, mainVars, runVars, jobVars
  <2>2. reply' = reply \/ reply' = [reply EXCEPT !["recorder"] = "pending"]
    BY <1>4 DEF Recorder, RecorderStarts, RecorderStartFails, RecorderUpdated, RecorderClosesSession,
       UpdateJob, jobVars
  <2> QED  BY <1>1, <2>1, <2>2, CompletionFrame
<1>5. CASE Run
  <2>1. UNCHANGED <<main, finalEvent, webhook, job>> /\ run # "resolved"
    BY <1>5 DEF Run, RunLoops, RunDrained, RunReconnecting, RunSeeds, RunStarts, RunStarted,
       RunStartFails, RunAnnounced, RunDone, RunCloses, UpdateJob, mainVars, jobVars
  <2>2. reply' = reply \/ reply' = [reply EXCEPT !["run"] = "pending"]
    BY <1>5 DEF Run, RunLoops, RunDrained, RunReconnecting, RunSeeds, RunStarts, RunStarted,
       RunStartFails, RunAnnounced, RunDone, RunCloses, UpdateJob, jobVars
  <2> QED  BY <1>1, <2>1, <2>2, CompletionFrame
<1>6. CASE ItemAdded \/ SessionClosed \/ InterviewEnds \/ UNCHANGED vars
  BY <1>6, CompletionFrame DEF ItemAdded, SessionClosed, InterviewEnds, vars, mainVars, runVars, jobVars
<1>7. CASE Main
  BY <1>7, MainCompletes
<1> QED  BY <1>2, <1>3, <1>4, <1>5, <1>6, <1>7 DEF Next, Finished

-----------------------------------------------------------------------------
(* The Egress *)

\* A call that has failed has failed for good.
LEMMA FaultsStay == TypeInv /\ ControlInv /\ UpdatesInv /\ [Next]_vars => (faults' = 0 => faults = 0)
<1> SUFFICES ASSUME TypeOK, ControlInv, UpdatesInv, [Next]_vars PROVE faults' = 0 => faults = 0
  BY DEF TypeInv
<1>1. CASE PerformJobUpdate
  <2>1. faults \in Nat /\ (faults' = faults \/ faults' = faults + 1)
    BY <1>1, Performs, ConstantsAssumption DEF TypeOK
  <2> QED  BY <2>1
<1>2. CASE ~PerformJobUpdate
  BY <1>2, MainIssues, TasksIssue, OthersIssue DEF Next, Finished
<1> QED  BY <1>1, <1>2

\* Nobody but entry() writes what teardown has recorded.
LEMMA EgressFrame ==
    ASSUME EgressInv, UNCHANGED <<main, recording, egress>>, faults' = 0 => faults = 0,
           job'.recording = job.recording, reply'["main"] = "ok" => reply["main"] = "ok"
    PROVE  EgressInv'
BY DEF EgressInv

\* An Egress that is known is stopped, and then recorded as stopped.
LEMMA EgressPreserved ==
    TypeInv /\ ControlInv /\ UpdatesInv /\ EgressInv /\ [Next]_vars => EgressInv'
<1> SUFFICES ASSUME TypeInv, TypeOK, ControlInv, UpdatesInv, EgressInv, [Next]_vars PROVE EgressInv'
  BY DEF TypeInv
<1>1. reply \in [Actors -> {"ok", "error", "pending"}] /\ "main" \in Actors /\ faults \in Nat
  BY ConstantsAssumption DEF TypeOK, Actors
<1>2. CASE PerformJobUpdate
  <2>1. UNCHANGED <<main, recording, egress>>
    BY <1>2 DEF PerformJobUpdate, mainVars, recordVars
  <2>2. PICK w \in Updates :
          /\ reply[w.by] = "pending" /\ Awaited(w)
          /\ \/ /\ job' = Merge(job, w.patch) /\ reply' = [reply EXCEPT ![w.by] = "ok"]
                /\ faults' = faults
             \/ /\ job' \in {job, Merge(job, w.patch)}
                /\ reply' = [reply EXCEPT ![w.by] = "error"] /\ faults' = faults + 1
    BY <1>2, Performs
  <2>3. faults' = 0 => faults = 0
    BY <1>1, <2>2
  <2>4. CASE main \notin Late
    BY <2>1, <2>4 DEF EgressInv, Late
  <2>5. CASE main \in Late
    <3> DEFINE after == Merge(job, w.patch)
    <3>1. /\ w.by = "main" /\ main = "marking_stopped" => after.recording = "stopped"
          /\ w.by \in {"run", "writer"} => after.recording = job.recording
      BY <2>2, RecordAfter
    <3>2. w.by \in {"main", "run", "writer"} /\ (w.by = "main" => main = "marking_stopped")
      BY <2>2, <2>5 DEF Updates, Actors, Awaited, ControlInv, AllSettled, RecorderSettled, Late
    <3> HIDE DEF after
    <3>3. CASE w.by = "main"
      <4>1. reply'["main"] = "ok" => job' = after
        BY <1>1, <2>2, <3>3 DEF after
      <4> QED  BY <2>1, <2>3, <3>1, <3>2, <3>3, <4>1 DEF EgressInv
    <3>4. CASE w.by # "main"
      <4>1. job'.recording = job.recording /\ (reply'["main"] = "ok" => reply["main"] = "ok")
        BY <1>1, <2>2, <3>1, <3>2, <3>4 DEF after
      <4> QED  BY <2>1, <2>3, <4>1, EgressFrame
    <3> QED  BY <3>3, <3>4
  <2> QED  BY <2>4, <2>5
<1>3. CASE Recorder
  <2>1. UNCHANGED main /\ main \notin Late
    BY <1>3 DEF Recorder, RecorderStarts, RecorderStartFails, RecorderUpdated, RecorderClosesSession,
       ControlInv, AllSettled, RecorderSettled, mainVars
  <2> QED  BY <2>1 DEF EgressInv, Late
<1>4. CASE Run \/ (Chains /\ ~PerformJobUpdate) \/ ItemAdded \/ SessionClosed \/ InterviewEnds
           \/ UNCHANGED vars
  <2>1. UNCHANGED <<main, recording, egress, job>>
    BY <1>4 DEF Run, RunLoops, RunDrained, RunReconnecting, RunSeeds, RunStarts, RunStarted,
       RunStartFails, RunAnnounced, RunDone, RunCloses, Chains, AppendTranscript, SaveTurnState,
       TurnPersisted, BumpReconnects, ItemAdded, SessionClosed, InterviewEnds, UpdateJob, vars,
       mainVars, recordVars, jobVars
  <2>2. reply' = reply \/ (\E a \in {"run", "writer"} : reply' = [reply EXCEPT ![a] = "pending"])
    BY <1>4 DEF Run, RunLoops, RunDrained, RunReconnecting, RunSeeds, RunStarts, RunStarted,
       RunStartFails, RunAnnounced, RunDone, RunCloses, Chains, AppendTranscript, SaveTurnState,
       TurnPersisted, BumpReconnects, ItemAdded, SessionClosed, InterviewEnds, UpdateJob, vars, jobVars
  <2>3. faults' = 0 => faults = 0
    BY FaultsStay
  <2> QED  BY <1>1, <2>1, <2>2, <2>3, EgressFrame
<1>5. CASE Main
  <2> USE DEF EgressInv, Late, recordVars, jobVars
  <2>1. faults' = 0 => faults = 0
    BY <1>5, MainIssues
  <2>2. CASE Settled
    BY <2>2 DEF Settled
  <2>3. CASE EgressStopped
    BY <1>1, <2>3 DEF EgressStopped, UpdateJob
  <2>4. CASE StopRecorded
    <3>1. faults = 0 => reply["main"] = "ok"
      BY <1>1, <2>4 DEF UpdatesInv, StopRecorded, UpdateSettled
    <3> QED  BY <2>1, <2>4, <3>1 DEF StopRecorded
  <2>5. CASE Finalize
    BY <2>1, <2>5 DEF Finalize
  <2>6. CASE Report
    BY <2>1, <2>6 DEF Report
  <2>7. CASE Main /\ ~Settled /\ ~EgressStopped /\ ~StopRecorded /\ ~Finalize /\ ~Report
    <3>1. main' \notin Late
      BY <2>7 DEF Main, SetUp, SetUpFails, Connect, ConnectFails, Connected, RaceSettles,
         InterviewEnded, RoomTornDown, Drained, Completed, Failed, FinalDrained, Catch
    <3> QED  BY <3>1
  <2> QED  BY <1>5, <2>2, <2>3, <2>4, <2>5, <2>6, <2>7
<1> QED  BY <1>2, <1>3, <1>4, <1>5 DEF Next, Finished

-----------------------------------------------------------------------------
(* While Redis answers, nothing is lost *)

\* The chain gets an entry that is no item, or loses such a head.
LEMMA LostEnqueue ==
    ASSUME TypeInv, NothingLost, NEW entries \in Seq(ChainEntries), Enqueue(entries),
           UNCHANGED <<said, transcript, writer>>
    PROVE  NothingLost'
<1>1. \A k \in DOMAIN writeChain : k \in DOMAIN writeChain' /\ writeChain'[k] = writeChain[k]
  BY ChainTypes, ConcatElements DEF TypeInv, Enqueue
<1>2. writer # "idle" => Head(writeChain') = Head(writeChain)
  <2> SUFFICES ASSUME writer # "idle" PROVE Head(writeChain') = Head(writeChain)
    OBVIOUS
  <2>1. writeChain \in Seq(ChainEntries) /\ writeChain # <<>> /\ writeChain' = writeChain \o entries
    BY ChainTypes DEF TypeInv, WriterHasItem, Enqueue
  <2> QED  BY <2>1
<1> QED  BY <1>1, <1>2 DEF NothingLost, Item

LEMMA LostPop ==
    ASSUME TypeInv, NothingLost, writeChain # <<>>, writeChain' = Tail(writeChain),
           ~Item(Head(writeChain)) \/ writer # "idle", UNCHANGED <<said, transcript>>,
           writer' = "idle"
    PROVE  NothingLost'
<1>1. /\ Head(writeChain) = writeChain[1]
      /\ \A k \in DOMAIN writeChain : k # 1 =>
            k - 1 \in DOMAIN writeChain' /\ writeChain'[k - 1] = writeChain[k]
  <2>1. Head(writeChain) = writeChain[1] /\ writeChain \in Seq(ChainEntries)
        /\ DOMAIN Tail(writeChain) = 1..(Len(writeChain) - 1) /\ DOMAIN writeChain = 1..Len(writeChain)
        /\ Len(writeChain) \in Nat
    BY ChainTypes, TailElements DEF TypeInv
  <2>2. \A k \in DOMAIN Tail(writeChain) : Tail(writeChain)[k] = writeChain[k + 1]
    BY <2>1, TailElements
  <2>3. ASSUME NEW k \in DOMAIN writeChain, k # 1
        PROVE  k - 1 \in DOMAIN Tail(writeChain) /\ (k - 1) + 1 = k
    BY <2>1, <2>3
  <2> QED  BY <2>1, <2>2, <2>3
<1>2. ASSUME NEW m \in (Len(transcript) + 1)..Len(said)
      PROVE  \E k \in DOMAIN writeChain' : Item(writeChain'[k]) /\ writeChain'[k].n = m
  <2>1. PICK k \in DOMAIN writeChain : Item(writeChain[k]) /\ writeChain[k].n = m
    BY DEF NothingLost
  <2>2. Len(transcript) \in Nat /\ Len(said) \in Nat
    BY ChainTypes DEF TypeInv
  <2>3. Len(transcript) # m
    BY <2>2
  <2>4. k # 1
    BY <1>1, <2>1, <2>3 DEF NothingLost, Item
  <2> QED  BY <1>1, <2>1, <2>4 DEF Item
<1> QED  BY <1>2 DEF NothingLost

\* The item at the head is the next the transcript lacks.
LEMMA HeadIsNext ==
    ASSUME TypeInv, SpeechInv, NothingLost, writer = "idle", writeChain # <<>>, Item(Head(writeChain))
    PROVE  /\ Head(writeChain) = writeChain[1] /\ 1 \in DOMAIN writeChain
           /\ writeChain[1].n = Len(transcript) + 1
           /\ Len(transcript) + 1 \in DOMAIN said
           /\ said[Len(transcript) + 1] = writeChain[1].op
<1>1. Head(writeChain) = writeChain[1] /\ 1 \in DOMAIN writeChain
  BY ChainTypes, TailElements DEF TypeInv
<1> DEFINE n == writeChain[1].n
           len == Len(transcript)
<1>2. /\ n \in DOMAIN said /\ said[n] = writeChain[1].op /\ n \in Nat \ {0} /\ len \in Nat
      /\ n <= Len(said) /\ Len(said) \in Nat /\ DOMAIN transcript = 1..len
  BY <1>1, ChainTypes DEF SpeechInv, TypeInv
<1>3. \A i \in DOMAIN transcript : i < n
  BY <1>1 DEF SpeechInv, NothingLost
<1>4. n >= len + 1
  BY <1>2, <1>3
<1>5. PICK k \in DOMAIN writeChain : Item(writeChain[k]) /\ writeChain[k].n = len + 1
  BY <1>2, <1>4 DEF NothingLost
<1>6. k = 1 \/ n < writeChain[k].n
  <2>1. k \in Nat \ {0}
    BY ChainTypes DEF TypeInv
  <2> QED  BY <1>1, <1>5, <2>1 DEF SpeechInv
<1>7. n = len + 1
  BY <1>2, <1>4, <1>5, <1>6
<1> QED  BY <1>1, <1>2, <1>7

\* It goes to the end of the transcript, and the others wait as before.
LEMMA LostAppend ==
    ASSUME TypeInv, SpeechInv, NothingLost, writer = "idle", writeChain # <<>>,
           Item(Head(writeChain)), transcript' = Append(transcript, Head(writeChain).n),
           UNCHANGED said,
           \/ UNCHANGED writeChain /\ writer' = "saving"
           \/ writeChain' = Tail(writeChain) /\ writer' = "idle"
    PROVE  NothingLost'
<1> DEFINE len == Len(transcript)
<1>1. Head(writeChain) = writeChain[1] /\ 1 \in DOMAIN writeChain /\ writeChain[1].n = len + 1
  BY HeadIsNext
<1>2. /\ transcript \in Seq(Nat) /\ len \in Nat /\ DOMAIN transcript = 1..len
      /\ Len(said) \in Nat
  BY ChainTypes DEF TypeInv
<1>3. /\ Len(transcript') = len + 1 /\ DOMAIN transcript' = 1..(len + 1)
      /\ transcript'[len + 1] = len + 1
      /\ \A i \in DOMAIN transcript : transcript'[i] = transcript[i]
  <2>1. transcript' = Append(transcript, len + 1) /\ len + 1 \in Nat
    BY <1>1, <1>2
  <2> QED  BY <1>2, <2>1, AppendElements
<1>4. \A k \in DOMAIN writeChain : k # 1 =>
         k - 1 \in DOMAIN Tail(writeChain) /\ Tail(writeChain)[k - 1] = writeChain[k]
  <2>1. writeChain \in Seq(ChainEntries)
        /\ DOMAIN Tail(writeChain) = 1..(Len(writeChain) - 1) /\ DOMAIN writeChain = 1..Len(writeChain)
        /\ Len(writeChain) \in Nat
    BY ChainTypes, TailElements DEF TypeInv
  <2>2. \A k \in DOMAIN Tail(writeChain) : Tail(writeChain)[k] = writeChain[k + 1]
    BY <2>1, TailElements
  <2>3. ASSUME NEW k \in DOMAIN writeChain, k # 1
        PROVE  k - 1 \in DOMAIN Tail(writeChain) /\ (k - 1) + 1 = k
    BY <2>1, <2>3
  <2> QED  BY <2>2, <2>3
<1> HIDE DEF len
<1>5. \A i \in DOMAIN transcript' : transcript'[i] = i
  BY <1>2, <1>3 DEF NothingLost
<1>6. ASSUME NEW m \in (Len(transcript') + 1)..Len(said')
      PROVE  \E k \in DOMAIN writeChain' : Item(writeChain'[k]) /\ writeChain'[k].n = m
  <2>1. m \in (len + 1)..Len(said) /\ m # len + 1
    BY <1>2, <1>3
  <2>2. PICK k \in DOMAIN writeChain : Item(writeChain[k]) /\ writeChain[k].n = m
    BY <2>1 DEF NothingLost, len
  <2>3. k # 1
    BY <1>1, <2>1, <2>2
  <2> QED  BY <1>4, <2>2, <2>3
<1>7. writer' # "idle" => Head(writeChain').n = Len(transcript')
  BY <1>1, <1>3
<1> QED  BY <1>5, <1>6, <1>7 DEF NothingLost, Item

\* What is said goes on the chain.
LEMMA LostItem == TypeInv /\ NothingLost /\ ItemAdded => NothingLost'
<1> SUFFICES ASSUME TypeInv, NothingLost, ItemAdded PROVE NothingLost'
  OBVIOUS
<1>1. PICK kind \in {"turn", "note"} :
        /\ said' = Append(said, kind)
        /\ writeChain' = writeChain \o <<[op |-> kind, n |-> Len(said) + 1]>>
  BY DEF ItemAdded, Enqueue
<1> DEFINE e == [op |-> kind, n |-> Len(said) + 1]
<1>2. e \in ChainEntries /\ Item(e) /\ e.n = Len(said) + 1
  BY ChainTypes DEF ChainEntries, Item, TypeInv
<1>3. writeChain' = Append(writeChain, e) /\ writeChain \in Seq(ChainEntries)
  BY <1>1, ChainTypes DEF TypeInv
<1>4. UNCHANGED <<transcript, writer>> /\ Len(said) \in Nat /\ Len(transcript) \in Nat
      /\ Len(said') = Len(said) + 1
  BY <1>1, ChainTypes, AppendElements DEF ItemAdded, TypeInv
<1> HIDE DEF e
<1>5. /\ \A k \in DOMAIN writeChain : k \in DOMAIN writeChain' /\ writeChain'[k] = writeChain[k]
      /\ Len(writeChain) + 1 \in DOMAIN writeChain' /\ writeChain'[Len(writeChain) + 1] = e
  <2>1. Len(writeChain) \in Nat
    BY <1>3
  <2> QED  BY <1>2, <1>3, <2>1, AppendElements
<1>6. ASSUME NEW m \in (Len(transcript') + 1)..Len(said')
      PROVE  \E k \in DOMAIN writeChain' : Item(writeChain'[k]) /\ writeChain'[k].n = m
  <2>1. m = Len(said) + 1 \/ m \in (Len(transcript) + 1)..Len(said)
    BY <1>4
  <2> QED  BY <1>2, <1>5, <2>1 DEF NothingLost, Item
<1>7. writer' # "idle" => Head(writeChain') = Head(writeChain)
  BY <1>3, <1>4 DEF TypeInv, WriterHasItem
<1> QED  BY <1>4, <1>6, <1>7 DEF NothingLost

\* Nothing said is lost on its way to the transcript.
LEMMA LostPreserved ==
    ASSUME TypeInv, SpeechInv, NothingLost, [Next]_vars, faults = 0, faults' = 0
    PROVE  NothingLost'
<1> USE DEF stateVars, roomVars
<1>1. ASSUME UNCHANGED <<said, transcript, writer, writeChain>> PROVE NothingLost'
  BY <1>1 DEF NothingLost
<1>2. CASE Main
  <2>1. UNCHANGED said
    BY <1>2 DEF Main, SetUp, SetUpFails, Connect, ConnectFails, Connected, RaceSettles, InterviewEnded,
       RoomTornDown, Drained, Completed, Failed, FinalDrained, Settled, EgressStopped, StopRecorded,
       Finalize, Report
  <2>2. AwaitChain \/ ChainDrainedFor("main") \/ UNCHANGED <<transcript, writer, writeChain>>
    BY <1>2 DEF Main, SetUp, SetUpFails, Connect, ConnectFails, Connected, RaceSettles, InterviewEnded,
       RoomTornDown, Drained, Completed, Failed, FinalDrained, Settled, EgressStopped, StopRecorded,
       Finalize, Report
  <2>3. CASE AwaitChain
    <3> DEFINE entries == <<[op |-> "main", n |-> 0]>>
    <3>1. entries \in Seq(ChainEntries)
      BY DEF ChainEntries
    <3>2. Enqueue(entries) /\ UNCHANGED <<transcript, writer>>
      BY <2>3 DEF AwaitChain
    <3> HIDE DEF entries
    <3> QED  BY <2>1, <3>1, <3>2, LostEnqueue
  <2>4. CASE ChainDrainedFor("main")
    BY <2>1, <2>4, LostPop DEF ChainDrainedFor, Item
  <2> QED  BY <1>1, <2>1, <2>2, <2>3, <2>4
<1>3. CASE Recorder \/ Run
  <2>1. UNCHANGED said
    BY <1>3 DEF Recorder, Run, RecorderStarts, RecorderStartFails, RecorderUpdated,
       RecorderClosesSession, RunLoops, RunDrained, RunReconnecting, RunSeeds, RunStarts, RunStarted,
       RunStartFails, RunAnnounced, RunDone, RunCloses
  <2>2. \/ Enqueue(BumpThenAwait) /\ UNCHANGED <<writer, transcript>>
        \/ ChainDrainedFor("run") \/ UNCHANGED <<writeChain, writer, transcript>>
    BY <1>3 DEF Recorder, Run, RecorderStarts, RecorderStartFails, RecorderUpdated,
       RecorderClosesSession, RunLoops, RunDrained, RunReconnecting, RunSeeds, RunStarts, RunStarted,
       RunStartFails, RunAnnounced, RunDone, RunCloses
  <2>3. BumpThenAwait \in Seq(ChainEntries)
    BY DEF BumpThenAwait, ChainEntries, TypeInv, TypeOK
  <2>4. ChainDrainedFor("run") => NothingLost'
    BY <2>1, LostPop DEF ChainDrainedFor, Item
  <2> QED  BY <1>1, <2>1, <2>2, <2>3, <2>4, LostEnqueue
<1>4. CASE PerformJobUpdate
  BY <1>1, <1>4 DEF PerformJobUpdate
<1>5. CASE AppendTranscript
  <2>1. /\ writer = "idle" /\ writeChain # <<>> /\ Item(Head(writeChain)) /\ UNCHANGED said
        /\ transcript' = Append(transcript, Head(writeChain).n)
        /\ \/ UNCHANGED writeChain /\ writer' = "saving"
           \/ writeChain' = Tail(writeChain) /\ writer' = "idle"
    BY <1>5 DEF AppendTranscript, Item, Fault
  <2> QED  BY <2>1, LostAppend
<1>6. CASE SaveTurnState
  BY <1>6 DEF SaveTurnState, Fault, NothingLost
<1>7. CASE TurnPersisted
  BY <1>7, LostPop DEF TurnPersisted, TypeInv, WriterHasItem
<1>8. CASE BumpReconnects
  BY <1>8, LostPop DEF BumpReconnects, Item
<1>9. CASE SessionClosed \/ InterviewEnds \/ UNCHANGED vars
  BY <1>1, <1>9 DEF SessionClosed, InterviewEnds, vars
<1> QED  BY <1>2, <1>3, <1>4, <1>5, <1>6, <1>7, <1>8, <1>9, LostItem DEF Next, Finished, Chains

\* The turns among the first n items said.
TurnsAmong(n) == {i \in 1..n : said[i] = "turn"}

\* One more item is one more turn, or none.
LEMMA TurnsAmongMore ==
    ASSUME NEW n \in Nat
    PROVE  /\ Cardinality(TurnsAmong(n)) \in Nat
           /\ Cardinality(TurnsAmong(n + 1)) =
                IF said[n + 1] = "turn" THEN Cardinality(TurnsAmong(n)) + 1
                ELSE Cardinality(TurnsAmong(n))
<1>1. IsFiniteSet(TurnsAmong(n)) /\ n + 1 \notin TurnsAmong(n)
  <2>1. IsFiniteSet(1..n) /\ TurnsAmong(n) \subseteq 1..n
    BY FS_Interval DEF TurnsAmong
  <2> QED  BY <2>1, FS_Subset DEF TurnsAmong
<1>2. TurnsAmong(n + 1) = IF said[n + 1] = "turn" THEN TurnsAmong(n) \cup {n + 1} ELSE TurnsAmong(n)
  BY DEF TurnsAmong
<1>3. Cardinality(TurnsAmong(n)) \in Nat
  BY <1>1, FS_CardinalityType
<1>4. Cardinality(TurnsAmong(n) \cup {n + 1}) = Cardinality(TurnsAmong(n)) + 1
  BY <1>1, FS_AddElement
<1> QED  BY <1>2, <1>3, <1>4

\* A step that leaves transcript, states and the writer's part of the record alone.
LEMMA CountedFrame ==
    ASSUME TurnsCounted, UNCHANGED <<transcript, state, saved, writer>>,
           \A i \in DOMAIN transcript : said'[i] = said[i],
           job'.turns = job.turns, reply'["writer"] = "ok" => reply["writer"] = "ok"
    PROVE  TurnsCounted'
<1>1. {i \in DOMAIN transcript' : said'[i] = "turn"} = {i \in DOMAIN transcript : said[i] = "turn"}
  OBVIOUS
<1> QED  BY <1>1 DEF TurnsCounted

\* The steps of entry(), of the tasks and of the room.
LEMMA OthersCount ==
    ASSUME TypeInv, ControlInv, SpeechInv, TurnsInv, NothingLost, TurnsCounted, faults = 0, faults' = 0,
           Main \/ Recorder \/ Run \/ ItemAdded \/ SessionClosed \/ InterviewEnds \/ UNCHANGED vars
    PROVE  TurnsCounted'
<1> USE DEF mainVars, roomVars, jobVars, stateVars
<1>1. reply \in [Actors -> {"ok", "error", "pending"}] /\ "writer" \in Actors
  BY DEF TypeInv, TypeOK, Actors
<1>2. UNCHANGED <<transcript, state, saved, writer>>
  <2>1. Main => UNCHANGED <<transcript, state, saved, writer>>
    BY DEF Main, SetUp, SetUpFails, Connect, ConnectFails, Connected, RaceSettles, InterviewEnded,
       RoomTornDown, Drained, Completed, Failed, FinalDrained, Settled, EgressStopped, StopRecorded,
       Finalize, Report, AwaitChain, ChainDrainedFor
  <2>2. Recorder \/ Run => UNCHANGED <<transcript, state, saved, writer>>
    BY DEF Recorder, Run, RecorderStarts, RecorderStartFails, RecorderUpdated, RecorderClosesSession,
       RunLoops, RunDrained, RunReconnecting, RunSeeds, RunStarts, RunStarted, RunStartFails,
       RunAnnounced, RunDone, RunCloses, ChainDrainedFor
  <2> QED  BY <2>1, <2>2 DEF ItemAdded, SessionClosed, InterviewEnds, vars
<1>3. reply'["writer"] = "ok" => reply["writer"] = "ok"
  <2>1. reply' = reply \/ (\E a \in {"main", "run", "recorder"} : reply' = [reply EXCEPT ![a] = "pending"])
    <3>1. Main => reply' = reply \/ reply' = [reply EXCEPT !["main"] = "pending"]
      BY DEF Main, SetUp, SetUpFails, Connect, ConnectFails, Connected, RaceSettles, InterviewEnded,
         RoomTornDown, Drained, Completed, Failed, FinalDrained, Settled, EgressStopped, StopRecorded,
         Finalize, Report, Catch, UpdateJob
    <3>2. Recorder => reply' = reply \/ reply' = [reply EXCEPT !["recorder"] = "pending"]
      BY DEF Recorder, RecorderStarts, RecorderStartFails, RecorderUpdated, RecorderClosesSession, UpdateJob
    <3>3. Run => reply' = reply \/ reply' = [reply EXCEPT !["run"] = "pending"]
      BY DEF Run, RunLoops, RunDrained, RunReconnecting, RunSeeds, RunStarts, RunStarted, RunStartFails,
         RunAnnounced, RunDone, RunCloses, UpdateJob
    <3> QED  BY <3>1, <3>2, <3>3 DEF ItemAdded, SessionClosed, InterviewEnds, vars
  <2> QED  BY <1>1, <2>1
<1>4. CASE SetUp \/ SetUpFails
  <2>1. main = "setup" /\ UNCHANGED said /\ (job' = job \/ job'.turns = 0)
    BY <1>4 DEF SetUp, SetUpFails, NoJob
  <2>2. run = "idle" /\ said = <<>>
    BY <2>1 DEF ControlInv, NothingStartedYet, Early, SpeechInv
  <2>3. Cardinality(Held) = 0
    <3>1. \A i \in DOMAIN transcript : FALSE
      BY <2>2 DEF SpeechInv
    <3>2. Held = {}
      BY <3>1 DEF Held
    <3> QED  BY <3>2, FS_EmptySet
  <2>4. job.turns = 0
    BY <2>3, TurnsTypes DEF TurnsInv, TypeInv
  <2> QED  BY <1>2, <1>3, <2>1, <2>4, CountedFrame
<1>5. CASE ItemAdded
  <2>1. \A i \in DOMAIN said : said'[i] = said[i]
    <3>1. PICK kind \in {"turn", "note"} : said' = Append(said, kind)
      BY <1>5 DEF ItemAdded
    <3> QED  BY <3>1, ChainTypes, AppendElements DEF TypeInv
  <2>2. \A i \in DOMAIN transcript : i \in DOMAIN said
    BY DEF SpeechInv, NothingLost
  <2>3. job' = job
    BY <1>5 DEF ItemAdded
  <2> QED  BY <1>2, <1>3, <2>1, <2>2, <2>3, CountedFrame
<1>6. CASE (Main /\ ~SetUp /\ ~SetUpFails) \/ Recorder \/ Run \/ SessionClosed \/ InterviewEnds
           \/ UNCHANGED vars
  <2>1. UNCHANGED <<said, job>>
    <3>1. Main /\ ~SetUp /\ ~SetUpFails => UNCHANGED <<said, job>>
      BY DEF Main, Connect, ConnectFails, Connected, RaceSettles, InterviewEnded,
         RoomTornDown, Drained, Completed, Failed, FinalDrained, Settled, EgressStopped, StopRecorded,
         Finalize, Report, Catch, UpdateJob
    <3>2. Recorder \/ Run => UNCHANGED <<said, job>>
      BY DEF Recorder, RecorderStarts, RecorderStartFails, RecorderUpdated, RecorderClosesSession,
         Run, RunLoops, RunDrained, RunReconnecting, RunSeeds, RunStarts, RunStarted, RunStartFails,
         RunAnnounced, RunDone, RunCloses, UpdateJob
    <3> QED  BY <1>6, <3>1, <3>2 DEF SessionClosed, InterviewEnds, vars
  <2> QED  BY <1>2, <1>3, <2>1, CountedFrame
<1> QED  BY <1>4, <1>5, <1>6

\* A turn that reaches the transcript is counted in memory, then in the saved
\* state, then in the record.
LEMMA CountedPreserved ==
    ASSUME TypeInv, ControlInv, UpdatesInv, SpeechInv, TurnsInv, NothingLost, TurnsCounted, [Next]_vars,
           faults = 0, faults' = 0
    PROVE  TurnsCounted'
<1> USE DEF roomVars, jobVars, stateVars
<1>1. /\ reply \in [Actors -> {"ok", "error", "pending"}] /\ "writer" \in Actors
      /\ state \in InterviewStates /\ saved \in InterviewStates
      /\ writer \in {"idle", "saving", "updating"}
  BY DEF TypeInv, TypeOK, Actors
<1>2. CASE PerformJobUpdate
  <2>1. UNCHANGED <<transcript, state, saved, writer, said>>
    BY <1>2 DEF PerformJobUpdate
  <2>2. PICK w \in Updates :
          /\ Awaited(w) /\ job' = Merge(job, w.patch) /\ reply' = [reply EXCEPT ![w.by] = "ok"]
    BY <1>2, Performs DEF TypeInv
  <2>3. job'.turns = IF w.by = "writer" THEN saved.turns ELSE job.turns
    BY <2>2, RecordAfter DEF TypeInv
  <2>4. w.by # "writer" => reply'["writer"] = reply["writer"]
    BY <1>1, <2>2
  <2> QED  BY <2>1, <2>3, <2>4 DEF TurnsCounted
<1>3. CASE AppendTranscript
  <2> DEFINE len == Len(transcript)
             n == Head(writeChain).n
  <2>1. /\ writer = "idle" /\ writeChain # <<>> /\ Item(Head(writeChain))
        /\ UNCHANGED <<said, saved, job, reply>> /\ transcript' = Append(transcript, n)
        /\ \/ Head(writeChain).op = "turn" /\ state' = AppendTurn(state, n) /\ writer' = "saving"
           \/ Head(writeChain).op # "turn" /\ UNCHANGED <<state, writer>>
    BY <1>3 DEF AppendTranscript, Item, Fault
  <2>2. /\ Head(writeChain).op = said[len + 1] /\ n = len + 1 /\ len \in Nat
        /\ transcript \in Seq(Nat)
    BY <2>1, HeadIsNext, ChainTypes DEF TypeInv
  <2> HIDE DEF n
  <2>3. DOMAIN transcript = 1..len /\ DOMAIN transcript' = 1..(len + 1)
    BY <2>1, <2>2, AppendElements
  <2> HIDE DEF len
  <2>4. /\ {i \in DOMAIN transcript : said[i] = "turn"} = TurnsAmong(len)
        /\ {i \in DOMAIN transcript' : said'[i] = "turn"} = TurnsAmong(len + 1)
    BY <2>1, <2>3 DEF TurnsAmong
  <2>5. state.turns = Cardinality(TurnsAmong(len))
    BY <2>4 DEF TurnsCounted
  <2>6. state'.turns = Cardinality(TurnsAmong(len + 1))
    <3>1. CASE Head(writeChain).op = "turn"
      <4>1. state'.turns = state.turns + 1
        BY <1>1, <2>1, <2>2, <3>1, AppendTurnCounts
      <4> QED  BY <2>2, <2>5, <3>1, <4>1, TurnsAmongMore
    <3>2. CASE Head(writeChain).op # "turn"
      BY <2>1, <2>2, <2>5, <3>2, TurnsAmongMore
    <3> QED  BY <3>1, <3>2
  <2> QED  BY <2>1, <2>4, <2>6 DEF TurnsCounted
<1>4. CASE SaveTurnState
  <2>1. /\ UNCHANGED <<transcript, state, said>> /\ saved' = state /\ writer' = "updating"
        /\ reply' = [reply EXCEPT !["writer"] = "pending"]
    BY <1>4 DEF SaveTurnState, Fault, UpdateJob
  <2> QED  BY <1>1, <2>1 DEF TurnsCounted
<1>5. CASE TurnPersisted
  <2>1. /\ UNCHANGED <<transcript, state, said, saved, job, reply>>
        /\ writer = "updating" /\ writer' = "idle" /\ reply["writer"] # "pending"
    BY <1>5 DEF TurnPersisted, UpdateSettled
  <2>2. reply["writer"] = "ok"
    BY <1>1, <2>1 DEF UpdatesInv
  <2> QED  BY <2>1, <2>2 DEF TurnsCounted
<1>6. CASE BumpReconnects
  <2>1. /\ UNCHANGED <<transcript, said, job, reply, writer>> /\ writer = "idle" /\ saved' = state'
        /\ state' = [state EXCEPT !.reconnects = Head(writeChain).n]
    BY <1>6 DEF BumpReconnects, Fault
  <2>2. state'.turns = state.turns
    BY <1>1, <2>1 DEF InterviewStates
  <2> QED  BY <2>1, <2>2 DEF TurnsCounted
<1> QED  BY <1>2, <1>3, <1>4, <1>5, <1>6, OthersCount DEF Next, Finished, Chains

\* The seed is what the transcript was when it was read, and is until the session
\* it is for has been started.
LEMMA SeedPreserved ==
    ASSUME TypeInv, SpeechInv, TurnsInv, DrainsInv, SeedWhole, [Next]_vars, faults = 0, faults' = 0
    PROVE  SeedWhole'
<1> USE DEF mainVars, recordVars, runVars, roomVars, jobVars, stateVars
<1>1. ASSUME UNCHANGED <<attempt, seed, transcript>>, run' = "created" => run = "created"
      PROVE  SeedWhole'
  BY <1>1 DEF SeedWhole
<1>2. CASE Main
  <2>1. UNCHANGED <<attempt, seed, transcript>> /\ (run' = "created" => run = "created")
    BY <1>2 DEF Main, SetUp, SetUpFails, Connect, ConnectFails, Connected, RaceSettles, InterviewEnded,
       RoomTornDown, Drained, Completed, Failed, FinalDrained, Settled, EgressStopped, StopRecorded,
       Finalize, Report, AwaitChain, ChainDrainedFor
  <2> QED  BY <1>1, <2>1
<1>3. CASE Recorder \/ ItemAdded \/ SessionClosed \/ InterviewEnds \/ UNCHANGED vars
  <2>1. UNCHANGED <<attempt, seed, transcript, run>>
    BY <1>3 DEF Recorder, RecorderStarts, RecorderStartFails, RecorderUpdated, RecorderClosesSession,
       ItemAdded, SessionClosed, InterviewEnds, vars
  <2> QED  BY <1>1, <2>1
<1>4. CASE RunLoops
  BY <1>4 DEF RunLoops, SeedWhole
<1>5. CASE RunSeeds
  <2>1. UNCHANGED transcript /\ seed' = RecoveryTranscript(TRUE)
    BY <1>5 DEF RunSeeds, Fault
  <2>2. transcript = <<>> => state.recentTurns = <<>>
    <3>1. /\ Len(state.recentTurns) \in Nat /\ state.turns \in Nat /\ state.recentTurns \in Seq(Nat)
          /\ Len(state.recentTurns) <= state.turns /\ state.turns <= Cardinality(Held)
      BY TurnsTypes DEF TurnsInv, TypeInv, TypeOK, InterviewStates
    <3>2. transcript = <<>> => Cardinality(Held) = 0
      <4>1. transcript = <<>> => Held = {}
        BY DEF Held
      <4> QED  BY <4>1, FS_EmptySet
    <3>3. transcript = <<>> => Len(state.recentTurns) = 0
      BY <3>1, <3>2
    <3> QED  BY <3>1, <3>3
  <2>3. RecoveryTranscript(TRUE) = transcript
    BY <2>2 DEF RecoveryTranscript
  <2> QED  BY <2>1, <2>3 DEF SeedWhole
<1>6. CASE Run /\ ~RunLoops /\ ~RunSeeds
  <2>1. run' # "created"
    BY <1>6 DEF Run, RunDrained, RunReconnecting, RunStarts, RunStarted, RunStartFails, RunAnnounced,
       RunDone, RunCloses
  <2> QED  BY <2>1 DEF SeedWhole
<1>7. CASE AppendTranscript
  <2>1. UNCHANGED <<run, attempt, seed>> /\ writeChain # <<>> /\ Item(Head(writeChain))
    BY <1>7 DEF AppendTranscript, Item
  <2>2. ~NoItemWaits
    BY <2>1, ChainTypes, TailElements DEF NoItemWaits, TypeInv
  <2> QED  BY <2>1, <2>2 DEF SeedWhole, DrainsInv
<1>8. CASE Chains /\ ~AppendTranscript
  <2>1. UNCHANGED <<attempt, seed, transcript, run>>
    BY <1>8 DEF Chains, PerformJobUpdate, SaveTurnState, TurnPersisted, BumpReconnects
  <2> QED  BY <1>1, <2>1
<1> QED  BY <1>2, <1>3, <1>4, <1>5, <1>6, <1>7, <1>8 DEF Next, Finished

\* Once a completed job has set the TTLs, no key is written again.
LEMMA ExpirePreserved ==
    ASSUME TypeInv, ControlInv, UpdatesInv, SpeechInv, ReconnectsInv, DrainsInv, KeysExpire,
           [Next]_vars, faults = 0, faults' = 0
    PROVE  KeysExpire'
<1> USE DEF mainVars, recordVars, runVars, roomVars, jobVars, stateVars
<1> DEFINE Over == main \in {"reporting", "done"} /\ finalEvent = "job_completed"
<1>1. CASE Main
  <2>1. CASE Finalize
    BY <2>1 DEF Finalize, Fault, KeysExpire, PresentKeys
  <2>2. CASE Report
    BY <2>2 DEF Report, KeysExpire, PresentKeys
  <2>3. CASE Main /\ ~Finalize /\ ~Report
    <3>1. main' \notin {"reporting", "done"}
      BY <2>3 DEF Main, SetUp, SetUpFails, Connect, ConnectFails, Connected, RaceSettles, InterviewEnded,
         RoomTornDown, Drained, Completed, Failed, FinalDrained, Settled, EgressStopped, StopRecorded,
         Catch
    <3> QED  BY <3>1 DEF KeysExpire
  <2> QED  BY <1>1, <2>1, <2>2, <2>3
<1>2. CASE Recorder \/ Run \/ ItemAdded \/ SessionClosed \/ InterviewEnds \/ UNCHANGED vars
  <2>1. UNCHANGED <<main, finalEvent, transcript, expiring>>
    BY <1>2 DEF Recorder, RecorderStarts, RecorderStartFails, RecorderUpdated, RecorderClosesSession,
       Run, RunLoops, RunDrained, RunReconnecting, RunSeeds, RunStarts, RunStarted, RunStartFails,
       RunAnnounced, RunDone, RunCloses, ChainDrainedFor, ItemAdded, SessionClosed, InterviewEnds, vars
  <2> QED  BY <2>1 DEF KeysExpire, PresentKeys
<1>3. CASE Chains
  <2>1. UNCHANGED <<main, finalEvent>>
    BY <1>3 DEF Chains, PerformJobUpdate, AppendTranscript, SaveTurnState, TurnPersisted, BumpReconnects
  <2>2. CASE ~Over
    BY <2>1, <2>2 DEF KeysExpire
  <2>3. CASE Over
    <3>1. writer = "idle" /\ \A w \in Updates : ~Awaited(w)
      BY <2>3, NothingQueued
    <3>2. ~PerformJobUpdate /\ ~SaveTurnState /\ ~TurnPersisted
      BY <3>1, Performs DEF TypeInv, SaveTurnState, TurnPersisted
    <3>3. run # "draining" /\ NoItemWaits
      BY <2>3 DEF ControlInv, AllSettled, RunSettled, Late, DrainsInv
    <3>4. writeChain # <<>> => Head(writeChain).op \notin {"turn", "note", "bump"}
      <4> SUFFICES ASSUME writeChain # <<>> PROVE Head(writeChain).op \notin {"turn", "note", "bump"}
        OBVIOUS
      <4>1. 1 \in DOMAIN writeChain /\ Head(writeChain) = writeChain[1]
        BY ChainTypes, TailElements DEF TypeInv
      <4> QED  BY <3>3, <4>1 DEF NoItemWaits, Item, ReconnectsInv, BumpsInv
    <3> QED  BY <1>3, <3>2, <3>4 DEF Chains, AppendTranscript, BumpReconnects
  <2> QED  BY <2>2, <2>3
<1> QED  BY <1>1, <1>2, <1>3 DEF Next, Finished

LEMMA WholePreserved == TypeInv /\ ControlInv /\ DataInv /\ [Next]_vars => WholeInv'
<1> SUFFICES ASSUME TypeInv, ControlInv, DataInv, [Next]_vars, faults' = 0
             PROVE  NothingLost' /\ TurnsCounted' /\ SeedWhole' /\ KeysExpire'
  BY DEF WholeInv
<1>1. /\ UpdatesInv /\ SpeechInv /\ TurnsInv /\ ReconnectsInv /\ DrainsInv
      /\ faults = 0 /\ NothingLost /\ TurnsCounted /\ SeedWhole /\ KeysExpire
  BY FaultsStay DEF DataInv, WholeInv
<1> QED  BY <1>1, LostPreserved, CountedPreserved, SeedPreserved, ExpirePreserved

-----------------------------------------------------------------------------
(* The invariant *)

\* At the start nothing is queued, said or saved.
LEMMA InitDataInv == Init => DataInv
<1> SUFFICES ASSUME Init PROVE DataInv
  OBVIOUS
<1>1. /\ trackerWrites = <<>> /\ writeChain = <<>> /\ transcript = <<>> /\ said = <<>>
      /\ DOMAIN trackerWrites = {} /\ DOMAIN writeChain = {} /\ DOMAIN transcript = {}
      /\ Len(transcript) = 0 /\ Len(said) = 0
  BY DEF Init
<1>2. /\ job.turns = 0 /\ saved.turns = 0 /\ state.turns = 0 /\ Len(state.recentTurns) = 0
      /\ job.reconnects = 0 /\ state.reconnects = 0 /\ saved.reconnects = 0 /\ saved = state
  BY DEF Init, NoJob, InitialState
<1>3. main = "setup" /\ finalEvent = "job_failed" /\ webhook.event = "none" /\ run = "idle"
      /\ attempt = 0 /\ writer = "idle" /\ \A a \in Actors : reply[a] # "error"
  BY DEF Init, NoWebhook
<1>4. UpdatesInv /\ SpeechInv /\ TurnsInv
  <2>1. Held = {}
    BY <1>1 DEF Held
  <2> QED  BY <1>1, <1>2, <1>3, <2>1, FS_EmptySet
              DEF UpdatesInv, SpeechInv, TranscriptInOrder, TurnsInv
<1>5. ReconnectsInv /\ DrainsInv
  BY <1>1, <1>2, <1>3 DEF ReconnectsInv, BumpsInv, AttemptUnderWay, DrainsInv, NoItemWaits
<1>6. CompletionInv /\ EgressInv
  BY <1>3 DEF CompletionInv, EgressInv, Late
<1>7. {i \in DOMAIN transcript : said[i] = "turn"} = {}
  BY <1>1
<1>8. WholeInv
  BY <1>1, <1>2, <1>3, <1>7, FS_EmptySet DEF WholeInv, NothingLost, TurnsCounted, SeedWhole, KeysExpire
<1> QED  BY <1>4, <1>5, <1>6, <1>8 DEF DataInv

\* The inductive invariant holds in every state the job reaches.
LEMMA DataCorrect == Spec => [](TypeInv /\ ControlInv /\ DataInv)
<1>1. TypeInv /\ ControlInv /\ DataInv /\ [Next]_vars => DataInv'
  <2> SUFFICES ASSUME TypeInv, ControlInv, DataInv, [Next]_vars PROVE DataInv'
    OBVIOUS
  <2>1. WholeInv'
    BY WholePreserved
  <2>2. /\ TypeOK /\ UpdatesInv /\ SpeechInv /\ TurnsInv /\ ReconnectsInv /\ DrainsInv
        /\ CompletionInv /\ EgressInv
    BY DEF TypeInv, DataInv
  <2>3. UpdatesInv' /\ SpeechInv' /\ TurnsInv'
    BY <2>2, UpdatesPreserved, SpeechPreserved, TurnsPreserved
  <2>4. ReconnectsInv' /\ DrainsInv'
    BY <2>2, ReconnectsPreserved, DrainsPreserved
  <2>5. CompletionInv' /\ EgressInv'
    BY <2>2, CompletionPreserved, EgressPreserved
  <2> QED  BY <2>1, <2>3, <2>4, <2>5 DEF DataInv
<1>2. Spec => [](TypeInv /\ ControlInv)
  BY ControlCorrect
<1> QED  BY <1>1, <1>2, InitDataInv, PTL DEF Spec

-----------------------------------------------------------------------------
(* The theorems *)

\* Whatever fails: the record never counts a turn the saved state does not, nor
\* the saved state one the transcript does not hold (agent.ts:139-155).
THEOREM WrittenThroughInOrder == Spec => []WriteThroughOrder
<1>1. TypeInv /\ DataInv => WriteThroughOrder
  BY TurnsTypes, HeldFinite DEF TypeInv, DataInv, TurnsInv, WriteThroughOrder
<1> QED  BY <1>1, DataCorrect, PTL

\* Whatever fails: the transcript keeps the order of speech (agent.ts:131-137).
THEOREM TranscriptKeepsOrder == Spec => []TranscriptInOrder
<1>1. DataInv => TranscriptInOrder
  BY DEF DataInv, SpeechInv
<1> QED  BY <1>1, DataCorrect, PTL

\* A reseeded session starts only when the record, and while Redis answers the
\* saved state too, tell of the reconnect (agent.ts:426-436).
THEOREM ReconnectsAreOnRecord == Spec => []ReconnectOnRecord
<1>1. DataInv => ReconnectOnRecord
  BY DEF DataInv, ReconnectsInv, AttemptUnderWay, ReconnectOnRecord
<1> QED  BY <1>1, DataCorrect, PTL

\* No Egress whose id is known outlives its job unasked, and while Redis answers
\* the record says it was stopped (agent.ts:511-525).
THEOREM EgressIsStopped == Spec => []EgressStopAttempted
<1>1. DataInv => EgressStopAttempted
  BY DEF DataInv, EgressInv, Late, EgressStopAttempted
<1> QED  BY <1>1, DataCorrect, PTL

\* When no item waits, the transcript is all that has been said.
LEMMA AllInTranscript ==
    ASSUME TypeInv, SpeechInv, NothingLost, NoItemWaits
    PROVE  transcript = [i \in 1..Len(said) |-> i]
<1>1. /\ transcript \in Seq(Nat) /\ DOMAIN transcript = 1..Len(transcript) /\ Len(transcript) \in Nat
      /\ DOMAIN said = 1..Len(said) /\ Len(said) \in Nat
  BY ChainTypes DEF TypeInv
<1>2. \A i \in DOMAIN transcript : transcript[i] = i /\ i \in DOMAIN said
  BY DEF NothingLost, SpeechInv
<1>3. \A m \in (Len(transcript) + 1)..Len(said) : FALSE
  BY DEF NothingLost, NoItemWaits
<1>4. Len(transcript) = Len(said)
  <2>1. Len(transcript) >= Len(said)
    BY <1>1, <1>3
  <2>2. Len(transcript) <= Len(said)
    <3>1. Len(transcript) = 0 \/ Len(transcript) \in DOMAIN transcript
      BY <1>1
    <3> QED  BY <1>1, <1>2, <3>1
  <2>3. Len(transcript) \in Nat /\ Len(said) \in Nat
    BY <1>1
  <2> QED  BY <2>1, <2>2, <2>3
<1>5. transcript = [i \in 1..Len(transcript) |-> transcript[i]]
  BY <1>1
<1> QED  BY <1>1, <1>2, <1>4, <1>5

\* While Redis answers, a reseeded session is seeded with everything said before
\* it, in the order of speech (agent.ts:400-431).
THEOREM ReseedIsComplete == Spec => []ReseedSeesEverything
<1>1. TypeInv /\ DataInv => ReseedSeesEverything
  <2> SUFFICES ASSUME TypeInv, DataInv, run = "created", attempt > 0, faults = 0
               PROVE  seed = [i \in 1..Len(said) |-> i]
    BY DEF ReseedSeesEverything
  <2>1. SpeechInv /\ NothingLost /\ NoItemWaits /\ seed = transcript
    BY DEF DataInv, DrainsInv, WholeInv, SeedWhole
  <2> QED  BY <2>1, AllInTranscript
<1> QED  BY <1>1, DataCorrect, PTL

\* A job reported as completed is recorded as completed; while Redis answers,
\* record, state and transcript hold every turn and every reconnect
\* (agent.ts:487-492).
THEOREM CompletedIsWhole == Spec => []CompletedRecordIsWhole
<1>1. TypeInv /\ ControlInv /\ DataInv => CompletedRecordIsWhole
  <2> SUFFICES ASSUME TypeInv, ControlInv, DataInv, webhook.event = "job_completed"
               PROVE  /\ webhook.job.status = "completed"
                      /\ faults = 0 =>
                           /\ webhook.job.turns = TurnsSaid /\ webhook.job.reconnects = attempt
                           /\ saved.turns = TurnsSaid
                           /\ transcript = [i \in 1..Len(said) |-> i]
    BY DEF CompletedRecordIsWhole
  <2>1. main = "done" /\ finalEvent = "job_completed" /\ webhook.job = job /\ run = "resolved"
        /\ job.status = "completed"
    BY DEF ControlInv, ReportedLast, DataInv, CompletionInv
  <2>2. job.reconnects = attempt /\ NoItemWaits
    BY <2>1 DEF DataInv, ReconnectsInv, AttemptUnderWay, DrainsInv
  <2>3. ASSUME faults = 0
        PROVE  job.turns = TurnsSaid /\ saved.turns = TurnsSaid
               /\ transcript = [i \in 1..Len(said) |-> i]
    <3>1. writer = "idle"
      BY <2>1, NothingQueued DEF DataInv
    <3>2. SpeechInv /\ NothingLost /\ TurnsCounted
      BY <2>3 DEF DataInv, WholeInv
    <3>3. transcript = [i \in 1..Len(said) |-> i]
      BY <2>2, <3>2, AllInTranscript
    <3>4. DOMAIN transcript = DOMAIN said
      BY <3>3, ChainTypes DEF TypeInv
    <3>5. state.turns = TurnsSaid
      BY <3>2, <3>4 DEF TurnsCounted, TurnsSaid
    <3> QED  BY <3>1, <3>2, <3>3, <3>5 DEF TurnsCounted
  <2> QED  BY <2>1, <2>2, <2>3
<1> QED  BY <1>1, DataCorrect, PTL

\* While Redis answers, a completed job leaves no key without its TTL
\* (agent.ts:510-532).
THEOREM KeysOfCompletedExpire == Spec => []CompletedKeysExpire
<1>1. DataInv => CompletedKeysExpire
  BY DEF DataInv, WholeInv, KeysExpire, CompletedKeysExpire
<1> QED  BY <1>1, DataCorrect, PTL

=============================================================================
