------------------------------- MODULE Worker -------------------------------
(***************************************************************************)
(* The worker's parent process (src/main.ts): the load it reports against  *)
(* the cap on concurrent interviews (src/ops/loadFunc.ts), the readiness   *)
(* flip and the backstop of a drain (src/ops/readiness.ts), and its own    *)
(* shutdown.                                                               *)
(*                                                                         *)
(* Outside the code: LiveKit, which dispatches jobs to workers whose load  *)
(* does not exceed the threshold, and the framework, which on a signal     *)
(* takes no more jobs, waits for the active ones and exits.  A job's child *)
(* process may hang.  Time is a count of ticks.                            *)
(***************************************************************************)
EXTENDS Integers, FiniteSets

CONSTANTS
    Jobs,            \* interviews dispatched to this worker
    Max,             \* env.maxConcurrentInterviews
    DrainTimeout,    \* env.drainTimeoutSeconds, in ticks
    MaxInterview,    \* the longest an interview takes that does not hang, in ticks
    Requests,        \* requests to the monitoring API
    Horizon          \* bound: the first signal comes before this tick

ASSUME WorkerAssumption ==
    /\ IsFiniteSet(Jobs)
    /\ Max \in Nat \ {0}                     \* loadThresholdFor throws otherwise
    /\ DrainTimeout \in Nat /\ MaxInterview \in Nat
    /\ MaxInterview < DrainTimeout           \* k8s/README.md:36-40
    /\ Horizon \in Nat

Signals == {"SIGTERM", "SIGINT"}
Never == -1

VARIABLES
    now,
    draining,        \* ReadinessState.draining
    backstop,        \* signal -> when the timer its handler has set is due
    shutdown,        \* signal -> where the shutdown its timer has begun is
    monitoring,      \* the monitoring server: "listening", "closing", "closed"
    request,         \* request -> "none", "open", "answered"
    accepting,       \* the framework: no signal has come yet
    job,             \* job -> "none", "running", "ended", "killed"
    startedAt,       \* job -> its start
    sampled,         \* sample.active
    acceptedSince,   \* history: jobs accepted since that sample
    exit             \* "none", "drained" (by the framework) or "forced"

drainVars == <<draining, backstop, shutdown>>
loadVars == <<sampled, acceptedSince>>
jobVars == <<job, startedAt>>
vars == <<now, drainVars, monitoring, request, accepting, jobVars, loadVars, exit>>

Running == {j \in Jobs : job[j] = "running"}

Init ==
    /\ now = 0
    /\ draining = FALSE
    /\ backstop = [s \in Signals |-> Never] /\ shutdown = [s \in Signals |-> "none"]
    /\ monitoring = "listening" /\ request = [q \in Requests |-> "none"]
    /\ accepting = TRUE
    /\ job = [j \in Jobs |-> "none"] /\ startedAt = [j \in Jobs |-> Never]
    /\ sampled = 0 /\ acceptedSince = 0
    /\ exit = "none"

-----------------------------------------------------------------------------
(* The load against the cap, in halves of 1/Max to stay in the integers *)

\* computeLoad: Math.min(active / max, 1)
Load(active) == IF active <= Max THEN 2 * active ELSE 2 * Max

\* Mutation: the threshold is the load at the cap.
ThresholdAtCap == 2 * Max

\* loadThresholdFor: (max - 0.5) / max
Threshold == 2 * Max - 1

\* The framework marks a worker unavailable when its load exceeds the threshold.
Available == Load(sampled) <= Threshold

\* loadFunc, called by the framework.
SampleLoad ==
    /\ exit = "none"
    /\ sampled' = Cardinality(Running) /\ acceptedSince' = 0
    /\ UNCHANGED <<now, drainVars, monitoring, request, accepting, jobVars, exit>>

\* A dispatched job is taken.
AcceptJob(j) ==
    /\ exit = "none" /\ accepting /\ Available
    /\ job[j] = "none"
    /\ job' = [job EXCEPT ![j] = "running"] /\ startedAt' = [startedAt EXCEPT ![j] = now]
    /\ acceptedSince' = acceptedSince + 1
    /\ UNCHANGED <<now, drainVars, monitoring, request, accepting, sampled, exit>>

\* The child process of an interview is done.
JobEnds(j) ==
    /\ exit = "none" /\ job[j] = "running"
    /\ job' = [job EXCEPT ![j] = "ended"]
    /\ UNCHANGED <<now, drainVars, monitoring, request, accepting, startedAt, loadVars, exit>>

-----------------------------------------------------------------------------
(* The drain *)

\* Mutation: a second signal begins a second drain.
AlwaysReady == TRUE

\* readiness.isReady()
IsReady == ~draining

\* Mutation: the timeout in seconds is taken for milliseconds.
BackstopAtOnce(s) == backstop' = [backstop EXCEPT ![s] = now]

\* Mutation: the drain has no backstop.
NoBackstop(s) == UNCHANGED backstop

\* setTimeout(..., env.drainTimeoutSeconds * 1000)
ArmBackstop(s) == backstop' = [backstop EXCEPT ![s] = now + DrainTimeout]

\* SIGTERM or SIGINT, any number of times: beginDrain, and the framework's handler.
Signal(s) ==
    /\ exit = "none"
    /\ draining \/ now < Horizon
    /\ IF IsReady
       THEN draining' = TRUE /\ ArmBackstop(s)
       ELSE UNCHANGED <<draining, backstop>>
    /\ accepting' = FALSE
    /\ UNCHANGED <<now, shutdown, monitoring, request, jobVars, loadVars, exit>>

\* The process is gone, and its children with it.
Exit(how) ==
    /\ exit' = how
    /\ job' = [j \in Jobs |-> IF job[j] = "running" THEN "killed" ELSE job[j]]

\* The framework has waited for the active jobs and calls process.exit.
FrameworkExits ==
    /\ exit = "none" /\ ~accepting /\ Running = {}
    /\ Exit("drained")
    /\ UNCHANGED <<now, drainVars, monitoring, request, accepting, startedAt, loadVars>>

\* The timer of beginDrain: shutdown() begins with monitoring.close, which rejects,
\* to be logged only, when the server is not listening any more.
BackstopFires(s) ==
    /\ exit = "none" /\ backstop[s] = now
    /\ backstop' = [backstop EXCEPT ![s] = Never]
    /\ IF monitoring = "listening"
       THEN monitoring' = "closing" /\ shutdown' = [shutdown EXCEPT ![s] = "closing"]
       ELSE shutdown' = [shutdown EXCEPT ![s] = "flushing"] /\ UNCHANGED monitoring
    /\ UNCHANGED <<now, draining, request, accepting, jobVars, loadVars, exit>>

\* server.close calls back once every open connection has ended.
NoOpenRequest == \A q \in Requests : request[q] # "open"

MonitoringCloses(s) ==
    /\ exit = "none" /\ shutdown[s] = "closing" /\ NoOpenRequest
    /\ monitoring' = "closed" /\ shutdown' = [shutdown EXCEPT ![s] = "flushing"]
    /\ UNCHANGED <<now, draining, backstop, request, accepting, jobVars, loadVars, exit>>

\* telemetry.shutdown is done, well or not: process.exit(143).
TelemetryFlushed(s) ==
    /\ exit = "none" /\ shutdown[s] = "flushing"
    /\ shutdown' = [shutdown EXCEPT ![s] = "done"]
    /\ Exit("forced")
    /\ UNCHANGED <<now, draining, backstop, monitoring, request, accepting, startedAt, loadVars>>

\* The monitoring API takes a request while it listens, and answers it.
Arrives(q) ==
    /\ exit = "none" /\ monitoring = "listening" /\ request[q] = "none"
    /\ request' = [request EXCEPT ![q] = "open"]
    /\ UNCHANGED <<now, drainVars, monitoring, accepting, jobVars, loadVars, exit>>

Answered(q) ==
    /\ exit = "none" /\ request[q] = "open"
    /\ request' = [request EXCEPT ![q] = "answered"]
    /\ UNCHANGED <<now, drainVars, monitoring, accepting, jobVars, loadVars, exit>>

\* Time passes once no timer is due.
Tick ==
    /\ exit = "none" /\ \A s \in Signals : backstop[s] # now
    /\ IF draining THEN now <= Horizon + DrainTimeout ELSE now < Horizon
    /\ now' = now + 1
    /\ UNCHANGED <<drainVars, monitoring, request, accepting, jobVars, loadVars, exit>>

Shutdown(s) == BackstopFires(s) \/ MonitoringCloses(s) \/ TelemetryFlushed(s)

Next ==
    \/ SampleLoad \/ Tick \/ FrameworkExits
    \/ \E j \in Jobs : AcceptJob(j) \/ JobEnds(j)
    \/ \E s \in Signals : Signal(s) \/ Shutdown(s)
    \/ \E q \in Requests : Arrives(q) \/ Answered(q)

\* Time passes, timers fire, requests are answered (each awaits bounded Redis
\* calls) and exporters give up; jobs, signals and the framework's exit may hang.
Fairness ==
    /\ WF_vars(Tick)
    /\ \A s \in Signals : WF_vars(Shutdown(s))
    /\ \A q \in Requests : WF_vars(Answered(q))

Spec == Init /\ [][Next]_vars
FairSpec == Spec /\ Fairness

-----------------------------------------------------------------------------
(* Properties *)

TypeOK ==
    /\ now \in Nat /\ draining \in BOOLEAN
    /\ backstop \in [Signals -> Nat \cup {Never}]
    /\ shutdown \in [Signals -> {"none", "closing", "flushing", "done"}]
    /\ monitoring \in {"listening", "closing", "closed"}
    /\ request \in [Requests -> {"none", "open", "answered"}]
    /\ accepting \in BOOLEAN
    /\ job \in [Jobs -> {"none", "running", "ended", "killed"}]
    /\ startedAt \in [Jobs -> Nat \cup {Never}]
    /\ sampled \in Nat /\ acceptedSince \in Nat
    /\ exit \in {"none", "drained", "forced"}

\* A job is taken beyond the cap only for those taken since the load was last
\* reported: the threshold marks the worker full at the cap (loadFunc.ts:18-23).
OvershootBySampleOnly ==
    [][\A j \in Jobs : job[j] = "none" /\ job'[j] = "running" =>
          Cardinality(Running) < Max + acceptedSince]_vars

\* "so a rollout never kills a live interview" (k8s/README.md:36-37): an interview
\* that is killed has been running longer than any that does not hang.
KillsOnlyHungInterviews ==
    \A j \in Jobs : job[j] = "killed" => now > startedAt[j] + MaxInterview

\* A forced exit cuts off no request the monitoring API is answering.
ForcedExitIsClean == exit = "forced" => NoOpenRequest

\* A worker told to drain exits, also when an interview hangs (README.md:23-25).
DrainEnds == draining ~> exit # "none"

=============================================================================
