----------------------------- MODULE JobPromise -----------------------------
(***************************************************************************)
(* What one interview job promises to the outside (src/agent.ts:39-46):    *)
(* realtime sessions come one after the other, none is started after a     *)
(* required recording failed, and the job is reported once, when no        *)
(* session is left, as completed only if the recording did not abort it.   *)
(***************************************************************************)

VARIABLES
    talking,   \* a realtime session is being started or is live
    aborted,   \* the recording failed in a way that fails the job
    report     \* the final event, once reported

vars == <<talking, aborted, report>>

Init == talking = FALSE /\ aborted = FALSE /\ report = "none"

StartTalking ==
    /\ ~talking /\ ~aborted /\ report = "none"
    /\ talking' = TRUE
    /\ UNCHANGED <<aborted, report>>

\* A session may end on its own, fail, or be closed.
StopTalking == talking /\ talking' = FALSE /\ UNCHANGED <<aborted, report>>

Abort ==
    /\ ~aborted /\ report = "none"
    /\ aborted' = TRUE
    /\ UNCHANGED <<talking, report>>

Report ==
    /\ report = "none" /\ ~talking
    /\ \/ report' = "job_failed"
       \/ ~aborted /\ report' = "job_completed"
    /\ UNCHANGED <<talking, aborted>>

Next == StartTalking \/ StopTalking \/ Abort \/ Report

Spec == Init /\ [][Next]_vars

\* Sessions end, and a job that has no session left is reported.
Fairness == WF_vars(StopTalking) /\ WF_vars(Report)

=============================================================================
