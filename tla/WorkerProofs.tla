--------------------------- MODULE WorkerProofs ---------------------------
(***************************************************************************)
(* For every cap, every drain timeout beyond the longest interview and any *)
(* number of jobs: the cap is overshot by a stale load sample only, a      *)
(* drain kills none but hung interviews, and its forced exit cuts off no   *)
(* request to the monitoring API.                                          *)
(***************************************************************************)
EXTENDS Worker, TLAPS, FiniteSetTheorems

\* The worker is marked full exactly at the cap, whatever the cap (loadFunc.ts:18-23).
LEMMA FullExactlyAtCap ==
    ASSUME NEW active \in Nat
    PROVE  Load(active) <= Threshold <=> active < Max
BY WorkerAssumption DEF Load, Threshold

\* The running jobs can be counted.
LEMMA RunningFinite == IsFiniteSet(Running) /\ Cardinality(Running) \in Nat
<1>1. Running \subseteq Jobs
    BY DEF Running
<1>. QED  BY <1>1, WorkerAssumption, FS_Subset, FS_CardinalityType

-----------------------------------------------------------------------------
(* Types *)

\* Every variable of the worker keeps its type (main.ts:34-130).
THEOREM TypeCorrect == Spec => []TypeOK
<1>1. Init => TypeOK
    <2>. SUFFICES ASSUME Init PROVE TypeOK
        OBVIOUS
    <2>1. backstop \in [Signals -> Nat \cup {Never}]
          /\ startedAt \in [Jobs -> Nat \cup {Never}]
        BY Zenon DEF Init
    <2>2. shutdown \in [Signals -> {"none", "closing", "flushing", "done"}]
          /\ request \in [Requests -> {"none", "open", "answered"}]
          /\ job \in [Jobs -> {"none", "running", "ended", "killed"}]
        BY Zenon DEF Init
    <2>. QED  BY <2>1, <2>2 DEF Init, TypeOK
<1>2. TypeOK /\ [Next]_vars => TypeOK'
    <2>. SUFFICES ASSUME TypeOK, [Next]_vars PROVE TypeOK'
        OBVIOUS
    <2>. USE DEF drainVars, loadVars, jobVars
    <2>1. CASE SampleLoad
        BY <2>1, RunningFinite DEF SampleLoad, TypeOK
    <2>2. CASE Tick
        BY <2>2 DEF Tick, TypeOK
    <2>3. CASE FrameworkExits
        BY <2>3 DEF FrameworkExits, Exit, TypeOK
    <2>4. ASSUME NEW j \in Jobs, AcceptJob(j) PROVE TypeOK'
        BY <2>4 DEF AcceptJob, TypeOK
    <2>5. ASSUME NEW j \in Jobs, JobEnds(j) PROVE TypeOK'
        BY <2>5 DEF JobEnds, TypeOK
    <2>6. ASSUME NEW s \in Signals, Signal(s) PROVE TypeOK'
        <3>1. now + DrainTimeout \in Nat
            BY WorkerAssumption DEF TypeOK
        <3>. QED  BY <2>6, <3>1 DEF Signal, ArmBackstop, TypeOK
    <2>7. ASSUME NEW s \in Signals, BackstopFires(s) PROVE TypeOK'
        BY <2>7 DEF BackstopFires, TypeOK
    <2>8. ASSUME NEW s \in Signals, MonitoringCloses(s) PROVE TypeOK'
        BY <2>8 DEF MonitoringCloses, TypeOK
    <2>9. ASSUME NEW s \in Signals, TelemetryFlushed(s) PROVE TypeOK'
        BY <2>9 DEF TelemetryFlushed, Exit, TypeOK
    <2>10. ASSUME NEW q \in Requests, Arrives(q) \/ Answered(q) PROVE TypeOK'
        BY <2>10 DEF Arrives, Answered, TypeOK
    <2>11. CASE UNCHANGED vars
        BY <2>11 DEF vars, TypeOK
    <2>. QED  BY <2>1, <2>2, <2>3, <2>4, <2>5, <2>6, <2>7, <2>8, <2>9, <2>10, <2>11
              DEF Next, Shutdown
<1>. QED  BY <1>1, <1>2, PTL DEF Spec

-----------------------------------------------------------------------------
(* The cap *)

\* The jobs running are among those of the last sample and those taken since.
SampleInv == Cardinality(Running) <= sampled + acceptedSince

\* A step that starts no job leaves no more of them running.
LEMMA FewerRun ==
    ASSUME Running' \subseteq Running
    PROVE  Cardinality(Running') <= Cardinality(Running) /\ Cardinality(Running') \in Nat
BY RunningFinite, FS_Subset, FS_CardinalityType

\* No step lets more jobs run than were sampled or taken since.
LEMMA SampleInvHolds == Spec => []SampleInv
<1>1. Init => SampleInv
    <2>. SUFFICES ASSUME Init PROVE SampleInv
        OBVIOUS
    <2>1. Running = {}
        BY DEF Init, Running
    <2>. QED  BY <2>1, FS_EmptySet DEF Init, SampleInv
<1>2. TypeOK /\ SampleInv /\ [Next]_vars => SampleInv'
    <2>. SUFFICES ASSUME TypeOK, SampleInv, [Next]_vars PROVE SampleInv'
        OBVIOUS
    <2>. USE DEF drainVars, loadVars, jobVars
    <2>1. CASE SampleLoad
        <3>1. Running' = Running
            BY <2>1 DEF SampleLoad, Running
        <3>. QED  BY <2>1, <3>1, RunningFinite DEF SampleLoad, SampleInv
    <2>2. ASSUME NEW j \in Jobs, AcceptJob(j) PROVE SampleInv'
        <3>1. Running' = Running \cup {j}
            BY <2>2 DEF AcceptJob, Running, TypeOK
        <3>2. Cardinality(Running') = IF j \in Running THEN Cardinality(Running)
                                     ELSE Cardinality(Running) + 1
            BY <3>1, RunningFinite, FS_AddElement, Zenon
        <3>3. Cardinality(Running') \in Nat /\ Cardinality(Running') <= Cardinality(Running) + 1
            BY <3>2, RunningFinite
        <3>. QED  BY <2>2, <3>2, <3>3, RunningFinite DEF AcceptJob, SampleInv, TypeOK
    <2>3. ASSUME Running' \subseteq Running, UNCHANGED loadVars PROVE SampleInv'
        BY <2>3, FewerRun, RunningFinite DEF SampleInv, TypeOK
    <2>4. CASE FrameworkExits \/ \E s \in Signals : TelemetryFlushed(s)
        <3>1. Running' \subseteq Running /\ UNCHANGED loadVars
            BY <2>4 DEF FrameworkExits, TelemetryFlushed, Exit, Running, TypeOK
        <3>. QED  BY <3>1, <2>3
    <2>5. ASSUME NEW j \in Jobs, JobEnds(j) PROVE SampleInv'
        <3>1. Running' \subseteq Running /\ UNCHANGED loadVars
            BY <2>5 DEF JobEnds, Running, TypeOK
        <3>. QED  BY <3>1, <2>3
    <2>6. CASE UNCHANGED <<job, loadVars>>
        <3>1. Running' \subseteq Running /\ UNCHANGED loadVars
            BY <2>6 DEF Running
        <3>. QED  BY <3>1, <2>3
    <2>7. Tick \/ UNCHANGED vars
          \/ (\E s \in Signals : Signal(s) \/ BackstopFires(s) \/ MonitoringCloses(s))
          \/ (\E q \in Requests : Arrives(q) \/ Answered(q)) => UNCHANGED <<job, loadVars>>
        BY DEF Tick, vars, Signal, BackstopFires, MonitoringCloses, Arrives, Answered
    <2>. QED  BY <2>1, <2>2, <2>4, <2>5, <2>6, <2>7 DEF Next, Shutdown
<1>. QED  BY <1>1, <1>2, TypeCorrect, PTL DEF Spec

\* A job is taken beyond MAX_CONCURRENT_INTERVIEWS only for jobs taken since the
\* load was last reported, whatever the cap (loadFunc.ts:18-23, main.ts:121-127).
THEOREM CapOvershotBySampleOnly == Spec => OvershootBySampleOnly
<1>1. TypeOK /\ SampleInv /\ [Next]_vars =>
        [\A j \in Jobs : job[j] = "none" /\ job'[j] = "running" =>
            Cardinality(Running) < Max + acceptedSince]_vars
    <2>. SUFFICES ASSUME TypeOK, SampleInv, Next, NEW j \in Jobs,
                         job[j] = "none", job'[j] = "running"
                  PROVE  Cardinality(Running) < Max + acceptedSince
        BY DEF vars
    <2>1. Available
        <3>. USE DEF drainVars, loadVars, jobVars
        <3>1. ASSUME NEW k \in Jobs, AcceptJob(k) PROVE Available
            BY <3>1 DEF AcceptJob
        <3>2. ~SampleLoad /\ ~Tick
            BY DEF SampleLoad, Tick
        <3>3. ~FrameworkExits
            BY DEF FrameworkExits, Exit, TypeOK
        <3>4. ASSUME NEW k \in Jobs, JobEnds(k) PROVE FALSE
            BY <3>4 DEF JobEnds, TypeOK
        <3>5. ASSUME NEW s \in Signals, Signal(s) \/ BackstopFires(s) \/ MonitoringCloses(s)
              PROVE  FALSE
            BY <3>5 DEF Signal, BackstopFires, MonitoringCloses
        <3>6. ASSUME NEW s \in Signals, TelemetryFlushed(s) PROVE FALSE
            BY <3>6 DEF TelemetryFlushed, Exit, TypeOK
        <3>7. ASSUME NEW q \in Requests, Arrives(q) \/ Answered(q) PROVE FALSE
            BY <3>7 DEF Arrives, Answered
        <3>. QED  BY <3>1, <3>2, <3>3, <3>4, <3>5, <3>6, <3>7 DEF Next, Shutdown
    <2>2. sampled < Max
        BY <2>1, FullExactlyAtCap DEF Available, TypeOK
    <2>. QED  BY <2>2, RunningFinite, WorkerAssumption DEF SampleInv, TypeOK
<1>. QED  BY <1>1, TypeCorrect, SampleInvHolds, PTL DEF Spec, OvershootBySampleOnly

-----------------------------------------------------------------------------
(* The drain *)

\* No job is taken once a drain has begun, so that one that is still running has
\* run for the whole budget when a backstop fires.
DrainInv ==
    /\ accepting <=> ~draining
    /\ accepting => \A s \in Signals : backstop[s] = Never /\ shutdown[s] = "none"
    /\ \A j \in Jobs : job[j] = "running" =>
         /\ startedAt[j] <= now
         /\ \A s \in Signals :
              /\ backstop[s] # Never => startedAt[j] + DrainTimeout <= backstop[s]
              /\ shutdown[s] # "none" => startedAt[j] + DrainTimeout <= now

\* No step takes a job in a drain, nor brings a backstop forward.
LEMMA DrainInvHolds == Spec => []DrainInv
<1>1. Init => DrainInv
    BY DEF Init, DrainInv
<1>2. TypeOK /\ DrainInv /\ [Next]_vars => DrainInv'
    <2>. SUFFICES ASSUME TypeOK, DrainInv, [Next]_vars PROVE DrainInv'
        OBVIOUS
    <2>. USE DEF drainVars, loadVars, jobVars
    <2>1. CASE SampleLoad \/ UNCHANGED vars
        BY <2>1 DEF SampleLoad, vars, DrainInv
    <2>2. CASE Tick
        <3>1. /\ now' = now + 1
              /\ UNCHANGED <<draining, accepting, backstop, shutdown, job, startedAt>>
            BY <2>2 DEF Tick
        <3>2. \A j \in Jobs : job[j] = "running" =>
                  /\ startedAt[j] <= now => startedAt[j] <= now + 1
                  /\ startedAt[j] + DrainTimeout <= now => startedAt[j] + DrainTimeout <= now + 1
            BY WorkerAssumption DEF TypeOK, Never
        <3>. QED  BY <3>1, <3>2 DEF DrainInv
    <2>3. CASE FrameworkExits
        BY <2>3 DEF FrameworkExits, Exit, DrainInv, TypeOK
    <2>4. ASSUME NEW j \in Jobs, AcceptJob(j) PROVE DrainInv'
        BY <2>4 DEF AcceptJob, DrainInv, TypeOK
    <2>5. ASSUME NEW j \in Jobs, JobEnds(j) PROVE DrainInv'
        BY <2>5 DEF JobEnds, DrainInv, TypeOK
    <2>6. ASSUME NEW s \in Signals, Signal(s) PROVE DrainInv'
        <3>1. CASE draining
            BY <2>6, <3>1 DEF Signal, IsReady, DrainInv
        <3>2. CASE ~draining
            <4>1. backstop' = [backstop EXCEPT ![s] = now + DrainTimeout]
                  /\ draining' = TRUE /\ accepting' = FALSE
                  /\ UNCHANGED <<now, shutdown, job, startedAt>>
                BY <2>6, <3>2 DEF Signal, IsReady, ArmBackstop
            <4>2. \A r \in Signals : backstop[r] = Never /\ shutdown[r] = "none"
                BY <3>2 DEF DrainInv
            <4>3. \A j \in Jobs : job[j] = "running" =>
                      startedAt[j] <= now /\ startedAt[j] + DrainTimeout <= now + DrainTimeout
                BY WorkerAssumption DEF DrainInv, TypeOK, Never
            <4>4. \A r \in Signals : backstop'[r] # Never => backstop'[r] = now + DrainTimeout
                BY <4>1, <4>2 DEF TypeOK
            <4>. QED  BY <4>1, <4>2, <4>3, <4>4 DEF DrainInv, TypeOK
        <3>. QED  BY <3>1, <3>2
    <2>7. ASSUME NEW s \in Signals, BackstopFires(s) PROVE DrainInv'
        <3>1. backstop[s] = now /\ backstop[s] # Never
            BY <2>7 DEF BackstopFires, TypeOK, Never
        <3>2. ~accepting
            BY <3>1 DEF DrainInv
        <3>3. \A j \in Jobs : job[j] = "running" => startedAt[j] + DrainTimeout <= now
            BY <3>1 DEF DrainInv
        <3>4. \A r \in Signals : /\ backstop'[r] # Never => backstop'[r] = backstop[r]
                                 /\ r # s => shutdown'[r] = shutdown[r]
            BY <2>7 DEF BackstopFires, TypeOK
        <3>5. UNCHANGED <<now, draining, accepting, job, startedAt>>
            BY <2>7 DEF BackstopFires
        <3>. QED  BY <3>2, <3>3, <3>4, <3>5 DEF DrainInv
    <2>8. ASSUME NEW s \in Signals, MonitoringCloses(s) PROVE DrainInv'
        BY <2>8 DEF MonitoringCloses, DrainInv, TypeOK
    <2>9. ASSUME NEW s \in Signals, TelemetryFlushed(s) PROVE DrainInv'
        BY <2>9 DEF TelemetryFlushed, Exit, DrainInv, TypeOK
    <2>10. ASSUME NEW q \in Requests, Arrives(q) \/ Answered(q) PROVE DrainInv'
        BY <2>10 DEF Arrives, Answered, DrainInv
    <2>. QED  BY <2>1, <2>2, <2>3, <2>4, <2>5, <2>6, <2>7, <2>8, <2>9, <2>10
              DEF Next, Shutdown
<1>. QED  BY <1>1, <1>2, TypeCorrect, PTL DEF Spec

\* "A rollout never kills a live interview" (k8s/README.md:36-37), whatever the
\* budgets, as long as the drain timeout exceeds the longest interview.
THEOREM DrainKillsOnlyHung == Spec => []KillsOnlyHungInterviews
<1>1. Init => KillsOnlyHungInterviews
    BY DEF Init, KillsOnlyHungInterviews
<1>2. TypeOK /\ DrainInv /\ KillsOnlyHungInterviews /\ [Next]_vars => KillsOnlyHungInterviews'
    <2>. SUFFICES ASSUME TypeOK, DrainInv, KillsOnlyHungInterviews, [Next]_vars
                  PROVE  KillsOnlyHungInterviews'
        OBVIOUS
    <2>. USE DEF drainVars, loadVars, jobVars
    <2>1. ASSUME NEW s \in Signals, TelemetryFlushed(s) PROVE KillsOnlyHungInterviews'
        <3>1. \A j \in Jobs : job[j] = "running" => startedAt[j] + DrainTimeout <= now
            BY <2>1 DEF TelemetryFlushed, DrainInv
        <3>2. \A j \in Jobs : job[j] = "running" => now > startedAt[j] + MaxInterview
            BY <3>1, WorkerAssumption DEF TypeOK, Never
        <3>. QED  BY <2>1, <3>2 DEF TelemetryFlushed, Exit, KillsOnlyHungInterviews, TypeOK
    <2>2. CASE FrameworkExits
        BY <2>2 DEF FrameworkExits, Exit, Running, KillsOnlyHungInterviews, TypeOK
    <2>3. CASE Tick
        BY <2>3, WorkerAssumption DEF Tick, KillsOnlyHungInterviews, TypeOK, Never
    <2>4. ASSUME NEW j \in Jobs, AcceptJob(j) PROVE KillsOnlyHungInterviews'
        BY <2>4 DEF AcceptJob, KillsOnlyHungInterviews, TypeOK
    <2>5. ASSUME NEW j \in Jobs, JobEnds(j) PROVE KillsOnlyHungInterviews'
        BY <2>5 DEF JobEnds, KillsOnlyHungInterviews, TypeOK
    <2>6. CASE UNCHANGED <<now, job, startedAt>>
        BY <2>6 DEF KillsOnlyHungInterviews
    <2>7. SampleLoad \/ UNCHANGED vars
          \/ (\E s \in Signals : Signal(s) \/ BackstopFires(s) \/ MonitoringCloses(s))
          \/ (\E q \in Requests : Arrives(q) \/ Answered(q)) => UNCHANGED <<now, job, startedAt>>
        BY DEF SampleLoad, vars, Signal, BackstopFires, MonitoringCloses, Arrives, Answered
    <2>. QED  BY <2>1, <2>2, <2>3, <2>4, <2>5, <2>6, <2>7 DEF Next, Shutdown
<1>. QED  BY <1>1, <1>2, TypeCorrect, DrainInvHolds, PTL DEF Spec

-----------------------------------------------------------------------------
(* The forced exit *)

\* Nothing of a drain has begun: no timer, no shutdown, and the server listens.
Undrained ==
    /\ \A s \in Signals : backstop[s] = Never /\ shutdown[s] = "none"
    /\ monitoring = "listening"

\* One signal's handler has set the one timer, and it has not fired.
Armed(s) ==
    /\ backstop[s] # Never /\ monitoring = "listening"
    /\ \A r \in Signals : shutdown[r] = "none" /\ (r # s => backstop[r] = Never)

\* It has fired: one shutdown is under way, and past its first wait no request is open.
ShuttingDown(s) ==
    /\ \A r \in Signals : backstop[r] = Never /\ (r # s => shutdown[r] = "none")
    /\ \/ shutdown[s] = "closing" /\ monitoring = "closing"
       \/ shutdown[s] \in {"flushing", "done"} /\ monitoring = "closed" /\ NoOpenRequest

\* However often a worker is signalled, and with both signals, it drains once.
DrainsOnce ==
    /\ ~draining => Undrained
    /\ draining => \E s \in Signals : Armed(s) \/ ShuttingDown(s)

\* A server that is closed has no open request, and only such a one precedes the exit.
CloseInv ==
    /\ DrainsOnce
    /\ exit = "forced" => monitoring = "closed" /\ NoOpenRequest

\* No step begins a second drain, nor opens a request to a closing server.
LEMMA CloseInvHolds == Spec => []CloseInv
<1>1. Init => CloseInv
    BY DEF Init, CloseInv, DrainsOnce, Undrained
<1>2. TypeOK /\ CloseInv /\ [Next]_vars => CloseInv'
    <2>. SUFFICES ASSUME TypeOK, CloseInv, [Next]_vars PROVE CloseInv'
        OBVIOUS
    <2>. USE DEF drainVars, loadVars, jobVars
    <2>1. CASE UNCHANGED <<drainVars, monitoring, request, exit>>
        BY <2>1 DEF CloseInv, DrainsOnce, Undrained, Armed, ShuttingDown, NoOpenRequest
    <2>2. SampleLoad \/ Tick \/ UNCHANGED vars \/ (\E j \in Jobs : AcceptJob(j) \/ JobEnds(j))
            => UNCHANGED <<drainVars, monitoring, request, exit>>
        BY DEF SampleLoad, Tick, vars, AcceptJob, JobEnds
    <2>3. CASE FrameworkExits
        BY <2>3 DEF FrameworkExits, Exit, CloseInv, DrainsOnce, Undrained, Armed, ShuttingDown,
                    NoOpenRequest
    <2>4. ASSUME NEW s \in Signals, Signal(s) PROVE CloseInv'
        <3>1. CASE draining
            <4>1. UNCHANGED <<drainVars, monitoring, request, exit>>
                BY <2>4, <3>1 DEF Signal, IsReady
            <4>. QED  BY <4>1, <2>1
        <3>2. CASE ~draining
            <4>1. Undrained
                BY <3>2 DEF CloseInv, DrainsOnce
            <4>2. /\ draining' = TRUE /\ backstop' = [backstop EXCEPT ![s] = now + DrainTimeout]
                  /\ UNCHANGED <<shutdown, monitoring, request, exit>> /\ exit = "none"
                BY <2>4, <3>2 DEF Signal, IsReady, ArmBackstop
            <4>3. now + DrainTimeout # Never
                BY WorkerAssumption DEF TypeOK, Never
            <4>4. Armed(s)'
                BY <4>1, <4>2, <4>3 DEF Armed, Undrained, TypeOK
            <4>. QED  BY <4>2, <4>4 DEF CloseInv, DrainsOnce
        <3>. QED  BY <3>1, <3>2
    <2>5. ASSUME NEW s \in Signals, BackstopFires(s) PROVE CloseInv'
        <3>1. backstop[s] # Never
            BY <2>5 DEF BackstopFires, TypeOK, Never
        <3>2. draining /\ Armed(s)
            BY <3>1 DEF CloseInv, DrainsOnce, Undrained, Armed, ShuttingDown
        <3>3. /\ backstop' = [backstop EXCEPT ![s] = Never]
              /\ monitoring' = "closing" /\ shutdown' = [shutdown EXCEPT ![s] = "closing"]
              /\ exit = "none" /\ UNCHANGED <<draining, request, exit>>
            BY <2>5, <3>2 DEF BackstopFires, Armed
        <3>4. ShuttingDown(s)'
            BY <3>2, <3>3 DEF ShuttingDown, Armed, TypeOK
        <3>. QED  BY <3>2, <3>3, <3>4 DEF CloseInv, DrainsOnce
    <2>6. ASSUME NEW s \in Signals, MonitoringCloses(s) PROVE CloseInv'
        <3>1. shutdown[s] = "closing" /\ NoOpenRequest
            BY <2>6 DEF MonitoringCloses
        <3>2. draining /\ ShuttingDown(s)
            BY <3>1 DEF CloseInv, DrainsOnce, Undrained, Armed, ShuttingDown
        <3>3. /\ monitoring' = "closed" /\ shutdown' = [shutdown EXCEPT ![s] = "flushing"]
              /\ exit = "none" /\ UNCHANGED <<draining, backstop, request, exit>>
            BY <2>6 DEF MonitoringCloses
        <3>4. ShuttingDown(s)'
            BY <3>1, <3>2, <3>3 DEF ShuttingDown, NoOpenRequest, TypeOK
        <3>. QED  BY <3>2, <3>3, <3>4 DEF CloseInv, DrainsOnce
    <2>7. ASSUME NEW s \in Signals, TelemetryFlushed(s) PROVE CloseInv'
        <3>1. shutdown[s] = "flushing"
            BY <2>7 DEF TelemetryFlushed
        <3>2. draining /\ ShuttingDown(s) /\ monitoring = "closed" /\ NoOpenRequest
            BY <3>1 DEF CloseInv, DrainsOnce, Undrained, Armed, ShuttingDown
        <3>3. /\ shutdown' = [shutdown EXCEPT ![s] = "done"]
              /\ UNCHANGED <<draining, backstop, monitoring, request>>
            BY <2>7 DEF TelemetryFlushed
        <3>4. NoOpenRequest'
            BY <3>2, <3>3 DEF NoOpenRequest
        <3>5. ShuttingDown(s)'
            BY <3>2, <3>3, <3>4 DEF ShuttingDown, TypeOK
        <3>. QED  BY <3>2, <3>3, <3>4, <3>5 DEF CloseInv, DrainsOnce
    <2>8. ASSUME NEW q \in Requests, Arrives(q) PROVE CloseInv'
        <3>1. /\ monitoring = "listening" /\ exit = "none"
              /\ UNCHANGED <<drainVars, monitoring, exit>>
            BY <2>8 DEF Arrives
        <3>. QED  BY <3>1 DEF CloseInv, DrainsOnce, Undrained, Armed, ShuttingDown
    <2>9. ASSUME NEW q \in Requests, Answered(q) PROVE CloseInv'
        <3>1. UNCHANGED <<drainVars, monitoring, exit>> /\ (NoOpenRequest => NoOpenRequest')
            BY <2>9 DEF Answered, NoOpenRequest, TypeOK
        <3>. QED  BY <3>1 DEF CloseInv, DrainsOnce, Undrained, Armed, ShuttingDown
    <2>. QED  BY <2>1, <2>2, <2>3, <2>4, <2>5, <2>6, <2>7, <2>8, <2>9 DEF Next, Shutdown
<1>. QED  BY <1>1, <1>2, TypeCorrect, PTL DEF Spec

\* A forced exit cuts off no request the monitoring API is answering: also when the
\* worker is signalled again while it drains (main.ts:61-93, readiness.ts:11-22).
THEOREM ForcedExitCutsNobodyOff == Spec => []ForcedExitIsClean
<1>1. CloseInv => ForcedExitIsClean
    BY DEF CloseInv, ForcedExitIsClean
<1>. QED  BY <1>1, CloseInvHolds, PTL

=============================================================================
