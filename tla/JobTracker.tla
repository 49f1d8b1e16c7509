----------------------------- MODULE JobTracker -----------------------------
(***************************************************************************)
(* The job record in Redis and the two processes that write it.  The child *)
(* process that runs the interview queues its updates behind one another   *)
(* (updateJob in src/agent.ts) and expires the record at the end           *)
(* (RedisStore.finalize).  The worker's monitoring API answers             *)
(* POST /jobs/:id/cancel (src/ops/monitoring/handlers.ts).  Both go        *)
(* through RedisJobTracker.update, which is a get and a later set: nothing *)
(* orders the two processes between them.                                  *)
(***************************************************************************)
EXTENDS Naturals, Sequences

CONSTANTS
    Requests,      \* cancel requests the monitoring API receives
    MaxFaults      \* bound: updates, cancels and finalizes that Redis fails

ASSUME MaxFaultsAssumption == MaxFaults \in Nat

VARIABLES
    record,        \* the job record, or Absent
    ttl,           \* the record carries the completion TTL
    life,          \* of the child: "new", "running", "finalized", or "finalize_failed"
    trackerWrites, \* the child's tasks whose update is queued, first come first
    task,          \* task -> where its current update is
    done,          \* task -> its updates performed or rejected so far
    read,          \* writer -> the record its update has read
    request,       \* cancel request -> where it is, then its HTTP status
    expired,       \* history: the TTL has run out
    cancelled,     \* history: the SET of a cancel has been done
    faults

storeVars == <<record, ttl, expired>>
childVars == <<life, trackerWrites, task, done>>
vars == <<storeVars, childVars, read, request, cancelled, faults>>

-----------------------------------------------------------------------------
(* Values *)

\* The two tasks of the child that update the record at the same time, and the
\* fields each of them patches, in order.
Tasks == {"session", "recording"}
Script == [session   |-> <<[status |-> "in_progress"], [status |-> "completed"]>>,
           recording |-> <<[recording |-> "active"], [recording |-> "stopped"]>>]
Writers == Tasks \cup Requests

\* A request is served by the worker, not by a task of the child.
ASSUME RequestsAssumption == Requests \cap Tasks = {}

Absent == [status |-> "absent", recording |-> "unset"]
Created == [status |-> "starting", recording |-> "unset"]
\* { ...existing, ...patch }
Merge(existing, patch) ==
    [f \in DOMAIN existing |-> IF f \in DOMAIN patch THEN patch[f] ELSE existing[f]]

\* The record was found: get and update both look.
Known(existing) == existing # Absent

\* saveJob: SET, which drops a TTL.
Save(existing, patch) == record' = Merge(existing, patch) /\ ttl' = FALSE

\* A call that Redis fails.
Fault == faults < MaxFaults /\ faults' = faults + 1

Init ==
    /\ record = Absent /\ ttl = FALSE /\ expired = FALSE
    /\ life = "new" /\ trackerWrites = <<>>
    /\ task = [t \in Tasks |-> "idle"] /\ done = [t \in Tasks |-> 0]
    /\ read = [w \in Writers |-> Absent]
    /\ request = [c \in Requests |-> "none"]
    /\ cancelled = FALSE /\ faults = 0

-----------------------------------------------------------------------------
(* The child process *)

Create ==
    /\ life = "new" /\ life' = "running"
    /\ record' = Created /\ ttl' = FALSE
    /\ UNCHANGED <<expired, trackerWrites, task, done, read, request, cancelled, faults>>

\* updateJob(patch): the update takes its place in the chain.
Issue(t) ==
    /\ life = "running" /\ task[t] = "idle" /\ done[t] < Len(Script[t])
    /\ trackerWrites' = Append(trackerWrites, t)
    /\ task' = [task EXCEPT ![t] = "queued"]
    /\ UNCHANGED <<storeVars, life, done, read, request, cancelled, faults>>

\* Mutation: the updates of the two tasks are not serialized.
AnyTurn(t) == TRUE

\* trackerWrites.then(...): the updates queued before have settled.
MyTurn(t) == Head(trackerWrites) = t

\* tracker.update: the get.
ChildReads(t) ==
    /\ task[t] = "queued" /\ MyTurn(t)
    /\ read' = [read EXCEPT ![t] = record]
    /\ task' = [task EXCEPT ![t] = "saving"]
    /\ UNCHANGED <<storeVars, life, trackerWrites, done, request, cancelled, faults>>

\* Mutation: a rejected update leaves the chain rejected, and the next ones wait.
StuckChain == UNCHANGED trackerWrites

\* write.then(ok, rejected): the chain goes on after a rejection too.
NextInChain == trackerWrites' = Tail(trackerWrites)

\* tracker.update: the set.  An update of an unknown job throws, and so does one
\* that Redis fails, done or not.
ChildSaves(t) ==
    /\ task[t] = "saving"
    /\ task' = [task EXCEPT ![t] = "idle"]
    /\ done' = [done EXCEPT ![t] = @ + 1]
    /\ \/ /\ Known(read[t]) /\ Save(read[t], Script[t][done[t] + 1])
          /\ trackerWrites' = Tail(trackerWrites) /\ UNCHANGED faults
       \/ /\ ~Known(read[t])
          /\ NextInChain /\ UNCHANGED <<record, ttl, faults>>
       \/ /\ Fault
          /\ \/ Known(read[t]) /\ Save(read[t], Script[t][done[t] + 1])
             \/ UNCHANGED <<record, ttl>>
          /\ NextInChain
    /\ UNCHANGED <<expired, life, read, request, cancelled>>

\* Mutation: finalize does not wait for the updates.
UpdatesForgotten == TRUE

\* Every updateJob has been awaited when the finally block comes to finalize.
UpdatesAwaited == \A t \in Tasks : task[t] = "idle" /\ done[t] = Len(Script[t])

\* RedisStore.finalize: EXPIRE has no effect on a key that is gone.  A failure,
\* the EXPIRE done or not, is logged, and the job goes on to its report.
Finalize ==
    /\ life = "running" /\ UpdatesAwaited
    /\ \/ life' = "finalized" /\ ttl' = (record # Absent) /\ UNCHANGED faults
       \/ life' = "finalize_failed" /\ ttl' \in {ttl, record # Absent} /\ Fault
    /\ UNCHANGED <<record, expired, trackerWrites, task, done, read, request, cancelled>>

\* The TTL of finalize runs out.
Expire ==
    /\ ttl /\ record' = Absent /\ ttl' = FALSE /\ expired' = TRUE
    /\ UNCHANGED <<childVars, read, request, cancelled, faults>>

-----------------------------------------------------------------------------
(* POST /jobs/:id/cancel *)

Answer(c, status) == request' = [request EXCEPT ![c] = status]

\* What dispatch throws, the server answers with 500.
Throws(c) == Fault /\ Answer(c, "500")

\* tracker.get: 404 for a job that is not there.
Lookup(c) ==
    /\ request[c] = "none"
    /\ \/ Answer(c, IF Known(record) THEN "found" ELSE "404") /\ UNCHANGED faults
       \/ Throws(c)
    /\ UNCHANGED <<storeVars, childVars, read, cancelled>>

\* tracker.update's own get; it throws if the record is gone by now.
CancelReads(c) ==
    /\ request[c] = "found"
    /\ \/ /\ read' = [read EXCEPT ![c] = record]
          /\ Answer(c, IF Known(record) THEN "saving" ELSE "500") /\ UNCHANGED faults
       \/ Throws(c) /\ UNCHANGED read
    /\ UNCHANGED <<storeVars, childVars, cancelled>>

\* tracker.update's SET, whatever the status was, and SADD: 202, or 500 if one of
\* them fails, with the record overwritten or not.
CancelSaves(c) ==
    /\ request[c] = "saving"
    /\ \/ /\ Save(read[c], [status |-> "cancelled"]) /\ cancelled' = TRUE
          /\ Throws(c) \/ (Answer(c, "202") /\ UNCHANGED faults)
       \/ Throws(c) /\ UNCHANGED <<record, ttl, cancelled>>
    /\ UNCHANGED <<expired, childVars, read>>

Monitoring == \E c \in Requests : Lookup(c) \/ CancelReads(c) \/ CancelSaves(c)
Child == Create \/ Finalize \/ \E t \in Tasks : Issue(t) \/ ChildReads(t) \/ ChildSaves(t)

\* Everything has been answered and the child is gone.
Finished ==
    /\ life \in {"finalized", "finalize_failed"} /\ ~ttl
    /\ \A c \in Requests : request[c] \in {"404", "500", "202"}
    /\ UNCHANGED vars

Next == Child \/ Expire \/ Monitoring \/ Finished

\* The child's promises settle and its tasks go on; a request need not come.
Fairness == WF_vars(Create) /\ WF_vars(Finalize)
            /\ \A t \in Tasks : WF_vars(Issue(t) \/ ChildReads(t) \/ ChildSaves(t))

Spec == Init /\ [][Next]_vars
FairSpec == Spec /\ Fairness

-----------------------------------------------------------------------------
(* Properties *)

\* The record shows the last update of each task that is not under way.
ShowsUpdatesOf(t) ==
    task[t] = "idle" /\ done[t] > 0 =>
        \A f \in DOMAIN Script[t][done[t]] : record[f] = Script[t][done[t]][f]

\* While only the child has written, and Redis answers, no update of one of its
\* tasks is dropped by the other's (agent.ts:97-98).
ChildUpdatesKept ==
    ~cancelled /\ faults = 0 /\ ~expired => \A t \in Tasks : ShowsUpdatesOf(t)

\* Once finalize has gone through, a record that is there for good is one that a
\* cancel has marked, and it shows the mark: no update of the child comes after
\* finalize and takes the TTL or the mark away (agent.ts:510-533).
FinishedExpiresOrIsCancelled ==
    life = "finalized" => record = Absent \/ ttl \/ record.status = "cancelled"

\* Every update the child issues is settled, also after one that failed.
UpdatesSettle == \A t \in Tasks : task[t] = "queued" ~> task[t] = "idle"

-----------------------------------------------------------------------------
(* A statement of the repository the code does not keep *)

\* "POST /jobs/:id/cancel is 404 for an unknown job (no phantom record)"
\* (handlers.test.ts:71): a record that has expired is not brought back.  In
\* JobTracker.cfg in place of the invariants, TLC refutes it.
NoPhantomRecord == expired => record = Absent

=============================================================================
