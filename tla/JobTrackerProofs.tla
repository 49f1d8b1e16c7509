-------------------------- MODULE JobTrackerProofs --------------------------
(***************************************************************************)
(* Theorems about JobTracker, for any set of cancel requests and any       *)
(* number of calls that Redis fails.                                       *)
(***************************************************************************)
EXTENDS JobTracker, SequenceTheorems, TLAPS

-----------------------------------------------------------------------------
(* Types *)

Records == [status : {"absent", "starting", "in_progress", "completed", "cancelled"},
            recording : {"unset", "active", "stopped"}]

TypeOK ==
    /\ record \in Records /\ ttl \in BOOLEAN /\ expired \in BOOLEAN
    /\ life \in {"new", "running", "finalized", "finalize_failed"}
    /\ trackerWrites \in Seq(Tasks)
    /\ task \in [Tasks -> {"idle", "queued", "saving"}]
    /\ done \in [Tasks -> 0..2]
    /\ \A t \in Tasks : task[t] # "idle" => done[t] < 2
    /\ read \in [Writers -> Records]
    /\ request \in [Requests -> {"none", "found", "saving", "404", "500", "202"}]
    /\ cancelled \in BOOLEAN /\ faults \in Nat

\* What the two tasks write: two fields, of which each has its own, and nothing
\* that is the record of an unknown job.
LEMMA Patches ==
    ASSUME NEW t \in Tasks, NEW n \in 1..2
    PROVE  /\ Len(Script[t]) = 2
           /\ DOMAIN Script[t][n] = {IF t = "session" THEN "status" ELSE "recording"}
           /\ t = "session" => Script[t][n].status \in {"in_progress", "completed"}
           /\ t = "recording" => Script[t][n].recording \in {"active", "stopped"}
<1>1. CASE t = "session"
  BY <1>1 DEF Script
<1>2. CASE t = "recording"
  BY <1>2 DEF Script
<1> QED  BY <1>1, <1>2 DEF Tasks

\* An update replaces its own field and keeps the other.
LEMMA Merged ==
    ASSUME NEW existing \in Records, NEW t \in Tasks, NEW n \in 1..2
    PROVE  LET after == Merge(existing, Script[t][n]) IN
           /\ after \in Records /\ (Known(existing) => after # Absent)
           /\ \A f \in DOMAIN Script[t][n] : after[f] = Script[t][n][f]
           /\ \A s \in Tasks, m \in 1..2 : s # t =>
                 \A f \in DOMAIN Script[s][m] : after[f] = existing[f]
<1>1. \A f \in {"status", "recording"} :
         Merge(existing, Script[t][n])[f] =
            IF f \in DOMAIN Script[t][n] THEN Script[t][n][f] ELSE existing[f]
  BY DEF Merge, Records
<1>2. DOMAIN Merge(existing, Script[t][n]) = {"status", "recording"}
  BY DEF Merge, Records
<1>3. Merge(existing, Script[t][n]) =
        [status |-> IF t = "session" THEN Script[t][n].status ELSE existing.status,
         recording |-> IF t = "session" THEN existing.recording ELSE Script[t][n].recording]
  BY Patches DEF Merge, Records, Tasks
<1>4. Merge(existing, Script[t][n]) \in Records
  BY <1>3, Patches DEF Records, Tasks
<1>5. Known(existing) => Merge(existing, Script[t][n]) # Absent
  BY <1>3, Patches DEF Records, Tasks, Known, Absent
<1>6. \A f \in DOMAIN Script[t][n] : Merge(existing, Script[t][n])[f] = Script[t][n][f]
  BY <1>1, Patches
<1>7. ASSUME NEW s \in Tasks, NEW m \in 1..2, s # t, NEW f \in DOMAIN Script[s][m]
      PROVE  Merge(existing, Script[t][n])[f] = existing[f]
  BY <1>1, <1>7, Patches DEF Tasks
<1> QED  BY <1>4, <1>5, <1>6, <1>7

\* So does a cancel.
LEMMA CancelMerged ==
    ASSUME NEW existing \in Records
    PROVE  /\ Merge(existing, [status |-> "cancelled"]) \in Records
           /\ Merge(existing, [status |-> "cancelled"]).status = "cancelled"
<1>1. Merge(existing, [status |-> "cancelled"])
        = [status |-> "cancelled", recording |-> existing.recording]
  BY DEF Merge, Records
<1> QED  BY <1>1 DEF Records

-----------------------------------------------------------------------------
(* The inductive invariant *)

\* Before the child has created the record, nobody has read or written one.
RecordInv ==
    /\ life = "new" => /\ \A w \in Writers : read[w] = Absent
                       /\ \A t \in Tasks : task[t] = "idle" /\ done[t] = 0
    /\ life = "new" => record = Absent
    /\ record = Absent => life = "new" \/ expired
    /\ \A c \in Requests : request[c] = "saving" => Known(read[c])

\* Every update under way has its place in the chain, and the one that is being
\* performed is the first.
ChainInv ==
    /\ \A t \in Tasks : task[t] # "idle" => \E i \in DOMAIN trackerWrites : trackerWrites[i] = t
    /\ \A t \in Tasks : task[t] = "saving" => MyTurn(t)

\* Until a cancel has written: what an update has read is what the record still is,
\* and the record shows each task's last update, the next one under way or not.
KeptInv ==
    ~cancelled /\ ~expired =>
        /\ \A t \in Tasks : task[t] = "saving" => read[t] = record
        /\ faults = 0 => \A t \in Tasks : done[t] > 0 =>
              \A f \in DOMAIN Script[t][done[t]] : record[f] = Script[t][done[t]][f]

\* The child has finished its updates when it finalizes, well or not; after that the
\* TTL is taken off by cancels only.
FinalInv ==
    /\ life \in {"finalized", "finalize_failed"} => UpdatesAwaited
    /\ FinishedExpiresOrIsCancelled

Inv == TypeOK /\ RecordInv /\ ChainInv /\ KeptInv /\ FinalInv

LEMMA InitInv == Init => Inv
<1> SUFFICES ASSUME Init PROVE Inv
  OBVIOUS
<1>1. Absent \in Records
  BY DEF Absent, Records
<1>2. TypeOK
  <2>1. <<>> \in Seq(Tasks)
    OBVIOUS
  <2>2. /\ task \in [Tasks -> {"idle", "queued", "saving"}] /\ \A t \in Tasks : task[t] = "idle"
        /\ done \in [Tasks -> 0..2]
        /\ read \in [Writers -> Records]
        /\ request \in [Requests -> {"none", "found", "saving", "404", "500", "202"}]
    BY <1>1 DEF Init
  <2> QED  BY <1>1, <2>1, <2>2 DEF Init, TypeOK
<1>3. RecordInv /\ ChainInv /\ KeptInv /\ FinalInv
  BY DEF Init, RecordInv, ChainInv, KeptInv, FinalInv, Known, FinishedExpiresOrIsCancelled
<1> QED  BY <1>2, <1>3 DEF Inv

\* The child creates the record.
LEMMA CreateInv == Inv /\ Create => Inv'
<1> SUFFICES ASSUME Inv, Create PROVE Inv'
  OBVIOUS
<1>1. Created \in Records /\ Created # Absent
  BY DEF Created, Absent, Records
<1>2. /\ life = "new" /\ life' = "running" /\ record' = Created /\ ttl' = FALSE
      /\ UNCHANGED <<expired, trackerWrites, task, done, read, request, cancelled, faults>>
  BY DEF Create
<1>3. \A t \in Tasks : task[t] = "idle" /\ done[t] = 0
  BY <1>2 DEF Inv, RecordInv
<1>4. TypeOK'
  BY <1>1, <1>2 DEF Inv, TypeOK
<1>5. RecordInv'
  BY <1>1, <1>2 DEF Inv, RecordInv, Known
<1>6. ChainInv' /\ KeptInv' /\ FinalInv'
  BY <1>2, <1>3 DEF ChainInv, KeptInv, FinalInv, FinishedExpiresOrIsCancelled
<1> QED  BY <1>4, <1>5, <1>6 DEF Inv

\* An update takes its place at the end of the chain.
LEMMA IssueInv == ASSUME NEW t \in Tasks PROVE Inv /\ Issue(t) => Inv'
<1> SUFFICES ASSUME Inv, Issue(t) PROVE Inv'
  OBVIOUS
<1>1. /\ life = "running" /\ task[t] = "idle" /\ done[t] < Len(Script[t])
      /\ trackerWrites' = Append(trackerWrites, t) /\ task' = [task EXCEPT ![t] = "queued"]
      /\ UNCHANGED <<storeVars, life, done, read, request, cancelled, faults>>
  BY DEF Issue
<1>2. trackerWrites \in Seq(Tasks) /\ task \in [Tasks -> {"idle", "queued", "saving"}]
      /\ done \in [Tasks -> 0..2]
  BY DEF Inv, TypeOK
<1>3. /\ trackerWrites' \in Seq(Tasks) /\ Len(trackerWrites) + 1 \in DOMAIN trackerWrites'
      /\ trackerWrites'[Len(trackerWrites) + 1] = t
      /\ \A i \in DOMAIN trackerWrites : i \in DOMAIN trackerWrites' /\ trackerWrites'[i] = trackerWrites[i]
      /\ trackerWrites # <<>> => Head(trackerWrites') = Head(trackerWrites)
  BY <1>1, <1>2
<1>4. done[t] < 2
  <2>1. 1 \in 1..2 /\ Len(Script[t]) = 2
    BY Patches
  <2> QED  BY <1>1, <2>1
<1>5. TypeOK'
  BY <1>1, <1>2, <1>3, <1>4 DEF Inv, TypeOK, storeVars
<1>6. /\ task'[t] = "queued"
      /\ \A s \in Tasks : s # t => task'[s] = task[s]
  BY <1>1, <1>2
<1>7. RecordInv' /\ KeptInv' /\ FinalInv'
  BY <1>1, <1>6 DEF Inv, RecordInv, KeptInv, FinalInv, FinishedExpiresOrIsCancelled, storeVars
<1>8. ChainInv'
  <2>1. ASSUME NEW s \in Tasks, task'[s] # "idle"
        PROVE  \E i \in DOMAIN trackerWrites' : trackerWrites'[i] = s
    BY <1>3, <1>6, <2>1 DEF Inv, ChainInv
  <2>2. ASSUME NEW s \in Tasks, task'[s] = "saving" PROVE Head(trackerWrites') = s
    <3>1. task[s] = "saving" /\ trackerWrites # <<>>
      BY <1>6, <2>2 DEF Inv, ChainInv
    <3> QED  BY <1>3, <3>1 DEF Inv, ChainInv, MyTurn
  <2> QED  BY <2>1, <2>2 DEF ChainInv, MyTurn
<1> QED  BY <1>5, <1>7, <1>8 DEF Inv

\* The first of the chain reads the record.
LEMMA ChildReadsInv == ASSUME NEW t \in Tasks PROVE Inv /\ ChildReads(t) => Inv'
<1> SUFFICES ASSUME Inv, ChildReads(t) PROVE Inv'
  OBVIOUS
<1>1. /\ task[t] = "queued" /\ MyTurn(t) /\ read' = [read EXCEPT ![t] = record]
      /\ task' = [task EXCEPT ![t] = "saving"]
      /\ UNCHANGED <<storeVars, life, trackerWrites, done, request, cancelled, faults>>
  BY DEF ChildReads
<1>2. /\ task \in [Tasks -> {"idle", "queued", "saving"}] /\ read \in [Writers -> Records]
      /\ record \in Records /\ Tasks \subseteq Writers /\ Requests \subseteq Writers
  BY DEF Inv, TypeOK, Writers
<1>3. /\ task'[t] = "saving" /\ read'[t] = record
      /\ \A s \in Tasks : s # t => task'[s] = task[s] /\ read'[s] = read[s]
      /\ \A c \in Requests : read'[c] = read[c]
  BY <1>1, <1>2, RequestsAssumption
<1>4. TypeOK'
  BY <1>1, <1>2 DEF Inv, TypeOK, storeVars
<1>5. life # "new"
  BY <1>1 DEF Inv, RecordInv
<1>6. RecordInv' /\ ChainInv'
  BY <1>1, <1>3, <1>5 DEF Inv, RecordInv, ChainInv, MyTurn, storeVars
<1>7. KeptInv'
  BY <1>1, <1>3 DEF Inv, KeptInv, storeVars
<1>8. FinalInv'
  BY <1>1 DEF Inv, FinalInv, FinishedExpiresOrIsCancelled, UpdatesAwaited, storeVars
<1> QED  BY <1>4, <1>6, <1>7, <1>8 DEF Inv

\* It saves what it has made of it, or fails; the chain goes on either way.
LEMMA ChildSavesInv == ASSUME NEW t \in Tasks PROVE Inv /\ ChildSaves(t) => Inv'
<1> SUFFICES ASSUME Inv, ChildSaves(t) PROVE Inv'
  OBVIOUS
<1> DEFINE patch == Script[t][done[t] + 1]
           after == Merge(read[t], patch)
<1>1. /\ task[t] = "saving" /\ task' = [task EXCEPT ![t] = "idle"]
      /\ done' = [done EXCEPT ![t] = done[t] + 1] /\ trackerWrites' = Tail(trackerWrites)
      /\ \/ Known(read[t]) /\ record' = after /\ ttl' = FALSE
         \/ UNCHANGED <<record, ttl>>
      /\ \/ UNCHANGED faults /\ (Known(read[t]) => record' = after)
         \/ faults' = faults + 1
      /\ UNCHANGED <<expired, life, read, request, cancelled>>
  BY DEF ChildSaves, Save, NextInChain, Fault
<1>2. /\ task \in [Tasks -> {"idle", "queued", "saving"}] /\ done \in [Tasks -> 0..2]
      /\ read[t] \in Records /\ record \in Records /\ trackerWrites \in Seq(Tasks) /\ faults \in Nat
      /\ done[t] + 1 \in 1..2
  BY <1>1 DEF Inv, TypeOK, Writers
<1>3. /\ after \in Records /\ (Known(read[t]) => after # Absent)
      /\ \A f \in DOMAIN patch : after[f] = patch[f]
      /\ \A s \in Tasks, m \in 1..2 : s # t => \A f \in DOMAIN Script[s][m] : after[f] = read[t][f]
  BY <1>2, Merged
<1> HIDE DEF after
<1>4. Head(trackerWrites) = t /\ trackerWrites # <<>> /\ life # "new"
  BY <1>1 DEF Inv, ChainInv, MyTurn, RecordInv
<1>5. /\ task'[t] = "idle" /\ done'[t] = done[t] + 1
      /\ \A s \in Tasks : s # t => /\ task'[s] = task[s] /\ done'[s] = done[s]
                                   /\ task[s] # "saving"
  BY <1>1, <1>2, <1>4 DEF Inv, ChainInv, MyTurn
<1>6. /\ trackerWrites' \in Seq(Tasks)
      /\ \A s \in Tasks : s # t /\ (\E i \in DOMAIN trackerWrites : trackerWrites[i] = s)
            => \E i \in DOMAIN trackerWrites' : trackerWrites'[i] = s
  <2>1. /\ Tail(trackerWrites) \in Seq(Tasks) /\ trackerWrites[1] = t
        /\ DOMAIN Tail(trackerWrites) = 1..(Len(trackerWrites) - 1)
        /\ DOMAIN trackerWrites = 1..Len(trackerWrites) /\ Len(trackerWrites) \in Nat
        /\ \A k \in DOMAIN Tail(trackerWrites) : Tail(trackerWrites)[k] = trackerWrites[k + 1]
    BY <1>2, <1>4
  <2>2. ASSUME NEW i \in DOMAIN trackerWrites, i # 1
        PROVE  i - 1 \in DOMAIN Tail(trackerWrites) /\ Tail(trackerWrites)[i - 1] = trackerWrites[i]
    <3>1. i - 1 \in DOMAIN Tail(trackerWrites) /\ (i - 1) + 1 = i
      BY <2>1, <2>2
    <3> QED  BY <2>1, <3>1
  <2> QED  BY <1>1, <2>1, <2>2
<1>7. TypeOK'
  <2>1. record' \in Records /\ faults' \in Nat
    BY <1>1, <1>2, <1>3
  <2>3. ttl' \in BOOLEAN
    BY <1>1 DEF Inv, TypeOK
  <2>2. task' \in [Tasks -> {"idle", "queued", "saving"}] /\ done' \in [Tasks -> 0..2]
    BY <1>1, <1>2
  <2> QED  BY <1>1, <1>5, <1>6, <2>1, <2>2, <2>3 DEF Inv, TypeOK
<1>8. RecordInv'
  BY <1>1, <1>3, <1>4 DEF Inv, RecordInv
<1>9. ChainInv'
  BY <1>5, <1>6 DEF Inv, ChainInv
<1>10. ASSUME ~cancelled', ~expired'
       PROVE  (\A s \in Tasks : task[s] = "saving" => read[s] = record)'
              /\ (faults' = 0 => \A s \in Tasks : done'[s] > 0 =>
                    \A f \in DOMAIN Script[s][done'[s]] : record'[f] = Script[s][done'[s]][f])
  <2>1. ~cancelled /\ ~expired /\ read[t] = record
    BY <1>1, <1>10 DEF Inv, KeptInv
  <2>2. ASSUME faults' = 0, NEW s \in Tasks, done'[s] > 0, NEW f \in DOMAIN Script[s][done'[s]]
        PROVE  record'[f] = Script[s][done'[s]][f]
    <3>1. faults = 0 /\ record' = after
      BY <1>1, <1>2, <1>4, <2>1, <2>2 DEF Inv, RecordInv, Known
    <3>2. CASE s = t
      BY <1>3, <1>5, <2>2, <3>1, <3>2
    <3>3. CASE s # t
      <4>1. done'[s] = done[s] /\ done[s] \in 1..2
        BY <1>2, <1>5, <2>2, <3>3
      <4>2. record[f] = Script[s][done[s]][f]
        BY <2>1, <2>2, <3>1, <4>1 DEF Inv, KeptInv
      <4> QED  BY <1>3, <2>1, <2>2, <3>1, <3>3, <4>1, <4>2
    <3> QED  BY <3>2, <3>3
  <2> QED  BY <1>5, <2>2
<1>11. KeptInv'
  BY <1>10 DEF KeptInv
<1>12. FinalInv'
  BY <1>1 DEF Inv, FinalInv, FinishedExpiresOrIsCancelled, UpdatesAwaited
<1> QED  BY <1>7, <1>8, <1>9, <1>11, <1>12 DEF Inv

\* Finalize comes after the updates, and the TTL runs out once.
LEMMA EndInv == Inv /\ (Finalize \/ Expire \/ UNCHANGED vars) => Inv'
<1> USE DEF storeVars, childVars
<1>1. Inv /\ Finalize => Inv'
  <2> SUFFICES ASSUME Inv, Finalize PROVE Inv'
    OBVIOUS
  <2>1. /\ life = "running" /\ UpdatesAwaited
        /\ \/ life' = "finalized" /\ ttl' = (record # Absent) /\ faults' = faults
           \/ life' = "finalize_failed" /\ ttl' \in {ttl, record # Absent} /\ faults' = faults + 1
        /\ UNCHANGED <<record, expired, trackerWrites, task, done, read, request, cancelled>>
    BY DEF Finalize, Fault
  <2>2. faults' \in Nat
    BY <2>1 DEF Inv, TypeOK
  <2>3. /\ ttl' \in BOOLEAN /\ life' \in {"finalized", "finalize_failed"}
        /\ life' = "finalized" => ttl' \/ record' = Absent
    BY <2>1 DEF Inv, TypeOK
  <2>4. TypeOK' /\ RecordInv' /\ ChainInv'
    BY <2>1, <2>2, <2>3 DEF Inv, TypeOK, RecordInv, ChainInv, MyTurn
  <2>5. faults' = 0 => faults = 0
    BY <2>1 DEF Inv, TypeOK
  <2>6. KeptInv'
    BY <2>1, <2>5 DEF Inv, KeptInv
  <2>7. FinalInv'
    BY <2>1, <2>3 DEF FinalInv, FinishedExpiresOrIsCancelled, UpdatesAwaited
  <2> QED  BY <2>4, <2>6, <2>7 DEF Inv
<1>2. Inv /\ Expire => Inv'
  <2> SUFFICES ASSUME Inv, Expire PROVE Inv'
    OBVIOUS
  <2>1. Absent \in Records
    BY DEF Absent, Records
  <2> QED  BY <2>1 DEF Expire, Inv, TypeOK, RecordInv, ChainInv, KeptInv, FinalInv,
     FinishedExpiresOrIsCancelled, MyTurn, UpdatesAwaited
<1>3. Inv /\ UNCHANGED vars => Inv'
  BY DEF vars, Inv, TypeOK, RecordInv, ChainInv, KeptInv, FinalInv, FinishedExpiresOrIsCancelled,
     MyTurn, UpdatesAwaited
<1> QED  BY <1>1, <1>2, <1>3

\* What a request does to itself: it comes to "saving" with a known record only.
LEMMA RequestStep ==
    ASSUME Inv, NEW c \in Requests, NEW status \in {"none", "found", "saving", "404", "500", "202"},
           Answer(c, status)
    PROVE  /\ request' \in [Requests -> {"none", "found", "saving", "404", "500", "202"}]
           /\ request'[c] = status
           /\ \A d \in Requests : d # c => request'[d] = request[d]
BY DEF Inv, TypeOK, Answer

\* A call that fails leaves a count above nought.
LEMMA FaultCounts == Inv /\ (Fault \/ UNCHANGED faults) => faults' \in Nat /\ (faults' = 0 => faults = 0)
BY DEF Inv, TypeOK, Fault

\* A cancel that has written has taken itself out of what is promised without one.
LEMMA MonitoringInv == Inv /\ Monitoring => Inv'
<1> SUFFICES ASSUME Inv, NEW c \in Requests, Lookup(c) \/ CancelReads(c) \/ CancelSaves(c) PROVE Inv'
  BY DEF Monitoring
<1> USE DEF storeVars, childVars
<1>1. /\ read \in [Writers -> Records] /\ record \in Records
      /\ Tasks \subseteq Writers /\ Requests \subseteq Writers
  BY DEF Inv, TypeOK, Writers
<1>2. CASE Lookup(c)
  <2>1. PICK status \in {"found", "404", "500"} : Answer(c, status)
    BY <1>2 DEF Lookup, Throws
  <2>2. UNCHANGED <<storeVars, childVars, read, cancelled>> /\ (Fault \/ UNCHANGED faults)
    BY <1>2 DEF Lookup, Throws
  <2>3. \A d \in Requests : request'[d] = "saving" => request[d] = "saving"
    BY <2>1, RequestStep
  <2> QED  BY <2>1, <2>2, <2>3, RequestStep, FaultCounts
           DEF Inv, TypeOK, RecordInv, ChainInv, KeptInv, FinalInv, FinishedExpiresOrIsCancelled,
               MyTurn, UpdatesAwaited
<1>3. CASE CancelReads(c)
  <2>1. PICK status \in {"saving", "500"} : Answer(c, status)
    BY <1>3 DEF CancelReads, Throws
  <2>2. /\ UNCHANGED <<storeVars, childVars, cancelled>> /\ (Fault \/ UNCHANGED faults)
        /\ \/ read' = [read EXCEPT ![c] = record]
           \/ UNCHANGED read
    BY <1>3 DEF CancelReads, Throws
  <2>3. status = "saving" => Known(record) /\ read' = [read EXCEPT ![c] = record]
    <3>1. request[c] \in {"none", "found", "saving", "404", "500", "202"} /\ request'[c] = status
      BY <2>1, RequestStep DEF Inv, TypeOK
    <3>2. Answer(c, "500") => request'[c] = "500"
      BY RequestStep
    <3> QED  BY <1>3, <3>1, <3>2 DEF CancelReads, Throws
  <2>4. /\ read' \in [Writers -> Records] /\ (status = "saving" => read'[c] = record)
        /\ \A w \in Writers : w # c => read'[w] = read[w]
        /\ \A t \in Tasks : read'[t] = read[t]
        /\ read'[c] \in {read[c], record}
    BY <1>1, <2>2, <2>3, RequestsAssumption
  <2>5. TypeOK' /\ ChainInv' /\ KeptInv' /\ FinalInv'
    BY <2>1, <2>2, <2>4, RequestStep, FaultCounts
       DEF Inv, TypeOK, ChainInv, KeptInv, FinalInv, FinishedExpiresOrIsCancelled, MyTurn, UpdatesAwaited
  <2>6. RecordInv'
    <3>1. life = "new" => record = Absent
      BY DEF Inv, RecordInv
    <3>2. ASSUME NEW d \in Requests, request'[d] = "saving" PROVE Known(read'[d])
      <4>1. CASE d = c
        BY <2>1, <2>3, <2>4, <3>2, <4>1, RequestStep
      <4>2. CASE d # c
        BY <1>1, <2>1, <2>4, <3>2, <4>2, RequestStep DEF Inv, RecordInv
      <4> QED  BY <4>1, <4>2
    <3> QED  BY <1>1, <2>2, <2>4, <3>1, <3>2 DEF Inv, RecordInv
  <2> QED  BY <2>5, <2>6 DEF Inv
<1>4. CASE CancelSaves(c)
  <2>1. PICK status \in {"202", "500"} : Answer(c, status)
    BY <1>4 DEF CancelSaves, Throws
  <2>2. /\ UNCHANGED <<expired, childVars, read>> /\ request[c] = "saving"
        /\ Fault \/ UNCHANGED faults
        /\ \/ /\ record' = Merge(read[c], [status |-> "cancelled"]) /\ ttl' = FALSE
              /\ cancelled' = TRUE
           \/ UNCHANGED <<record, ttl, cancelled>>
    BY <1>4 DEF CancelSaves, Save, Throws
  <2>3. /\ record' \in Records /\ ttl' \in BOOLEAN /\ cancelled' \in BOOLEAN
        /\ \/ record'.status = "cancelled" /\ cancelled'
           \/ UNCHANGED <<record, ttl, cancelled>>
    <3>1. read[c] \in Records
      BY <1>1
    <3>2. /\ Merge(read[c], [status |-> "cancelled"]) \in Records
          /\ Merge(read[c], [status |-> "cancelled"]).status = "cancelled"
      BY <3>1, CancelMerged
    <3>3. ttl' \in BOOLEAN /\ cancelled' \in BOOLEAN
      BY <2>2 DEF Inv, TypeOK
    <3> QED  BY <1>1, <2>2, <3>2, <3>3
  <2>4. \A d \in Requests : request'[d] = "saving" => request[d] = "saving"
    BY <2>1, RequestStep
  <2>5. life # "new"
    BY <1>1, <2>2 DEF Inv, RecordInv, Known
  <2>6. TypeOK' /\ ChainInv' /\ KeptInv'
    BY <2>1, <2>2, <2>3, RequestStep, FaultCounts DEF Inv, TypeOK, ChainInv, KeptInv, MyTurn
  <2>7. RecordInv'
    <3>1. Absent.status # "cancelled"
      BY DEF Absent
    <3> QED  BY <2>2, <2>3, <2>4, <2>5, <3>1 DEF Inv, RecordInv
  <2>8. FinalInv'
    BY <2>2, <2>3 DEF Inv, FinalInv, FinishedExpiresOrIsCancelled, UpdatesAwaited
  <2> QED  BY <2>6, <2>7, <2>8 DEF Inv
<1> QED  BY <1>2, <1>3, <1>4

LEMMA Invariant == Spec => []Inv
<1>1. Inv /\ [Next]_vars => Inv'
  BY CreateInv, IssueInv, ChildReadsInv, ChildSavesInv, EndInv, MonitoringInv
     DEF Next, Child, Finished
<1> QED  BY <1>1, InitInv, PTL DEF Spec

-----------------------------------------------------------------------------
(* The theorems *)

\* While only the child writes and Redis answers, neither of its tasks drops an
\* update of the other's (agent.ts:97-107).
THEOREM NoChildUpdateDropped == Spec => []ChildUpdatesKept
<1>1. Inv => ChildUpdatesKept
  BY DEF Inv, KeptInv, ChildUpdatesKept, ShowsUpdatesOf
<1> QED  BY <1>1, Invariant, PTL

\* The record of a job whose finalize has gone through expires, unless a cancel has
\* marked it, and then it shows the mark (agent.ts:510-533, redisStore.ts:77-80).
THEOREM FinishedRecordExpires == Spec => []FinishedExpiresOrIsCancelled
<1>1. Inv => FinishedExpiresOrIsCancelled
  BY DEF Inv, FinalInv
<1> QED  BY <1>1, Invariant, PTL

=============================================================================
