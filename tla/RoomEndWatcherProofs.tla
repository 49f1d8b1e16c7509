------------------------ MODULE RoomEndWatcherProofs ------------------------
(***************************************************************************)
(* Theorems about RoomEndWatcher, for any durations, any grace and any     *)
(* participants beside the candidate.                                      *)
(***************************************************************************)
EXTENDS RoomEndWatcher, TLAPS

-----------------------------------------------------------------------------
(* The inductive invariant *)

Instants == Nat \cup {Never}

TypeOK ==
    /\ now \in Nat
    /\ durationMinutes \in Nat
    /\ inRoom \in SUBSET Participants
    /\ watchedAt \in Instants /\ durationTimer \in Instants /\ absenceTimer \in Instants
    /\ settled \in {"none", "duration_timeout", "room_disconnected", "candidate_absent"}
    /\ settledAt \in Instants /\ leftAt \in Instants

\* While the room is watched the duration timer is set to the cap, and time does
\* not pass it by; otherwise there is no timer.
DurationInv ==
    /\ Watching => durationTimer = watchedAt + MaxTicks /\ now <= durationTimer
    /\ ~Watching => durationTimer = Never /\ absenceTimer = Never
    /\ watchedAt = Never => settled = "none"
    /\ settled = "duration_timeout" => settledAt = watchedAt + MaxTicks

\* The absence timer of a candidate who has left and is gone counts from the time
\* of leaving; one that runs while the candidate is in the room counts from the
\* end of an earlier connection.
AbsenceInv ==
    /\ Watching /\ leftAt # Never =>
          Candidate \notin inRoom /\ absenceTimer = leftAt + Grace /\ now <= absenceTimer
    /\ absenceTimer # Never => Candidate \in inRoom \/ leftAt # Never
    /\ watchedAt = Never => leftAt = Never

Inv == TypeOK /\ DurationInv /\ AbsenceInv

\* The cap is the lesser of duration and ceiling.
LEMMA Cap ==
    ASSUME durationMinutes \in Nat
    PROVE  /\ MaxTicks \in Nat /\ MaxTicks <= durationMinutes /\ MaxTicks <= MaxDuration
           /\ MaxTicks = durationMinutes \/ MaxTicks = MaxDuration
BY ConstantsAssumption DEF MaxTicks

LEMMA InitInv == Init => Inv
BY ConstantsAssumption DEF Init, Inv, TypeOK, Instants, DurationInv, AbsenceInv, Watching, Never

\* The call arms the duration timer.
LEMMA WatchInv == Inv /\ Watch => Inv'
<1> SUFFICES ASSUME Inv, Watch PROVE Inv'
  OBVIOUS
<1>1. /\ watchedAt = Never /\ watchedAt' = now /\ durationTimer' = now + MaxTicks
      /\ UNCHANGED <<now, durationMinutes, inRoom, absenceTimer, settled, settledAt, leftAt>>
  BY DEF Watch
<1>2. MaxTicks \in Nat /\ MaxTicks' = MaxTicks /\ now \in Nat
  BY <1>1, Cap DEF Inv, TypeOK, MaxTicks
<1>3. TypeOK'
  BY <1>1, <1>2 DEF Inv, TypeOK, Instants
<1>4. DurationInv' /\ AbsenceInv'
  BY <1>1, <1>2 DEF Inv, DurationInv, AbsenceInv, Watching, Never
<1> QED  BY <1>3, <1>4 DEF Inv

\* Time stops for a timer that is due.
LEMMA TickInv == Inv /\ Tick => Inv'
<1> SUFFICES ASSUME Inv, Tick PROVE Inv'
  OBVIOUS
<1>1. /\ durationTimer # now /\ absenceTimer # now /\ settled = "none" /\ now' = now + 1
      /\ UNCHANGED <<durationMinutes, inRoom, watchedAt, durationTimer, absenceTimer, settled,
                     settledAt, leftAt>>
  BY DEF Tick, timers
<1>2. MaxTicks' = MaxTicks
  BY <1>1 DEF MaxTicks
<1>3. TypeOK'
  BY <1>1 DEF Inv, TypeOK
<1>4. /\ watchedAt # Never => now' <= durationTimer
      /\ watchedAt # Never /\ leftAt # Never => now' <= absenceTimer
  BY <1>1 DEF Inv, TypeOK, Instants, DurationInv, AbsenceInv, Watching, Never
<1>5. DurationInv' /\ AbsenceInv'
  BY <1>1, <1>2, <1>4 DEF Inv, DurationInv, AbsenceInv, Watching
<1> QED  BY <1>3, <1>5 DEF Inv

\* The promise settles: the timers are gone.
LEMMA FinishInv ==
    ASSUME NEW reason \in {"duration_timeout", "room_disconnected", "candidate_absent"},
           Inv, Watching, Finish(reason),
           reason = "duration_timeout" => durationTimer = now,
           UNCHANGED <<now, durationMinutes, inRoom, watchedAt, leftAt>>
    PROVE  Inv'
<1>1. MaxTicks' = MaxTicks
  BY DEF MaxTicks
<1>2. TypeOK'
  BY DEF Inv, TypeOK, Instants, Finish
<1>3. DurationInv' /\ AbsenceInv'
  BY <1>1 DEF Inv, DurationInv, AbsenceInv, Watching, Finish
<1> QED  BY <1>2, <1>3 DEF Inv

\* A timer that fires either settles the promise, or finds the candidate back.
LEMMA AbsenceTimerInv == Inv /\ AbsenceTimerFires => Inv'
<1> SUFFICES ASSUME Inv, AbsenceTimerFires PROVE Inv'
  OBVIOUS
<1>1. absenceTimer = now /\ UNCHANGED <<now, durationMinutes, inRoom, watchedAt, leftAt>>
  BY DEF AbsenceTimerFires
<1>2. Watching
  BY <1>1 DEF Inv, TypeOK, DurationInv, Never
<1>3. CASE CandidateGone
  BY <1>1, <1>2, <1>3, FinishInv DEF AbsenceTimerFires
<1>4. CASE ~CandidateGone
  <2>1. Candidate \in inRoom /\ absenceTimer' = Never /\ UNCHANGED <<durationTimer, settled, settledAt>>
    BY <1>4 DEF AbsenceTimerFires, CandidateGone
  <2>2. MaxTicks' = MaxTicks /\ Watching' /\ leftAt = Never
    BY <1>1, <1>2, <2>1 DEF MaxTicks, Watching, Inv, AbsenceInv
  <2>3. TypeOK'
    BY <1>1, <2>1 DEF Inv, TypeOK, Instants
  <2> QED  BY <1>1, <1>2, <2>1, <2>2, <2>3 DEF Inv, DurationInv, AbsenceInv
<1> QED  BY <1>3, <1>4

\* The room's events start and clear the absence timer for the candidate only.
LEMMA RoomInv ==
    ASSUME NEW p \in Participants
    PROVE  Inv /\ (ParticipantConnected(p) \/ ParticipantDisconnected(p)) => Inv'
<1> SUFFICES ASSUME Inv, ParticipantConnected(p) \/ ParticipantDisconnected(p) PROVE Inv'
  OBVIOUS
<1>1. UNCHANGED <<now, durationMinutes, watchedAt, durationTimer, settled, settledAt>>
  BY DEF ParticipantConnected, ParticipantDisconnected
<1>2. MaxTicks' = MaxTicks /\ Watching' = Watching /\ now \in Nat /\ Grace \in Nat \ {0}
  BY <1>1, ConstantsAssumption DEF MaxTicks, Watching, Inv, TypeOK
<1>3. /\ absenceTimer' \in {absenceTimer, Never, now + Grace} /\ leftAt' \in {leftAt, Never, now}
      /\ inRoom' \in SUBSET Participants
      /\ ~Watching => absenceTimer' = absenceTimer /\ leftAt' \in {leftAt, Never}
  BY DEF ParticipantConnected, ParticipantDisconnected, RestartAbsenceTimer, Inv, TypeOK
<1>4. TypeOK'
  BY <1>1, <1>2, <1>3 DEF Inv, TypeOK, Instants
<1>5. DurationInv'
  BY <1>1, <1>2, <1>3 DEF Inv, DurationInv
<1>6. CASE p # Candidate
  <2>1. UNCHANGED <<absenceTimer, leftAt>> /\ (Candidate \in inRoom' <=> Candidate \in inRoom)
    BY <1>6 DEF ParticipantConnected, ParticipantDisconnected, IsCandidate
  <2> QED  BY <1>1, <1>2, <1>4, <1>5, <2>1 DEF Inv, AbsenceInv
<1>7. CASE p = Candidate /\ ParticipantConnected(p)
  <2>1. Candidate \in inRoom' /\ leftAt' = Never
    BY <1>7 DEF ParticipantConnected
  <2> QED  BY <1>4, <1>5, <2>1 DEF Inv, AbsenceInv
<1>8. CASE p = Candidate /\ ParticipantDisconnected(p)
  <2>1. /\ Candidate \in inRoom /\ inRoom' \in {inRoom, inRoom \ {Candidate}}
        /\ leftAt' = IF Watching /\ Candidate \notin inRoom' THEN now ELSE leftAt
        /\ Watching => absenceTimer' = now + Grace
        /\ ~Watching => absenceTimer' = absenceTimer
    BY <1>8 DEF ParticipantDisconnected, RestartAbsenceTimer, IsCandidate
  <2>2. Watching => leftAt = Never
    BY <2>1 DEF Inv, AbsenceInv
  <2>3. ~Watching => absenceTimer = Never /\ leftAt' = leftAt
    BY <2>1 DEF Inv, DurationInv
  <2>4. now <= now + Grace
    BY <1>2
  <2>5. AbsenceInv'
    <3>1. CASE Watching
      BY <1>1, <1>2, <2>1, <2>2, <2>4, <3>1 DEF AbsenceInv, Watching, Never
    <3>2. CASE ~Watching
      BY <1>1, <1>2, <2>1, <2>3, <3>2 DEF AbsenceInv, Inv
    <3> QED  BY <3>1, <3>2
  <2> QED  BY <1>4, <1>5, <2>5 DEF Inv
<1> QED  BY <1>6, <1>7, <1>8

LEMMA NextInv == Inv /\ [Next]_vars => Inv'
<1>1. Inv /\ RoomDisconnected => Inv'
  BY FinishInv DEF RoomDisconnected
<1>2. Inv /\ DurationTimerFires => Inv'
  BY FinishInv DEF DurationTimerFires
<1>3. Inv /\ UNCHANGED vars => Inv'
  BY DEF vars, timers, Inv, TypeOK, DurationInv, AbsenceInv, Watching, MaxTicks
<1> QED  BY <1>1, <1>2, <1>3, WatchInv, TickInv, AbsenceTimerInv, RoomInv DEF Next

LEMMA Invariant == Spec => []Inv
BY InitInv, NextInv, PTL DEF Spec

-----------------------------------------------------------------------------
(* The theorems *)

\* No interview outlasts its duration or the ceiling, and the cap ends none before
\* the lesser of the two (roomEndWatcher.ts:46-48, 71-73).
THEOREM DurationIsBounded == Spec => []DurationBounds
<1>1. Inv => DurationBounds
  <2> SUFFICES ASSUME Inv PROVE DurationBounds
    OBVIOUS
  <2>1. /\ MaxTicks \in Nat /\ MaxTicks <= durationMinutes /\ MaxTicks <= MaxDuration
        /\ MaxTicks = durationMinutes \/ MaxTicks = MaxDuration
        /\ durationMinutes \in Nat /\ MaxDuration \in Nat /\ now \in Nat
    BY Cap, ConstantsAssumption DEF Inv, TypeOK
  <2>2. watchedAt \in Int
    BY DEF Inv, TypeOK, Instants, Never
  <2> QED  BY <2>1, <2>2 DEF Inv, DurationInv, DurationBounds
<1> QED  BY <1>1, Invariant, PTL

\* A candidate who is gone keeps the interview open for the grace at most
\* (roomEndWatcher.ts:83-111).
THEOREM LeaverIsGivenTheGrace == Spec => []LeaverEndsInterview
<1>1. Inv => LeaverEndsInterview
  BY DEF Inv, AbsenceInv, LeaverEndsInterview
<1> QED  BY <1>1, Invariant, PTL

\* Nobody's interview is ended for absence before the whole grace has passed with
\* the candidate out of the room (roomEndWatcher.ts:99-118).
THEOREM AbsenceIsWholeGrace == Spec => AbsentForTheWholeGrace
<1>1. Inv /\ [Next]_vars =>
        [settled = "none" /\ settled' = "candidate_absent" =>
            Candidate \notin inRoom /\ leftAt # Never /\ now >= leftAt + Grace]_vars
  <2> SUFFICES ASSUME Inv, Next, settled = "none", settled' = "candidate_absent"
               PROVE  Candidate \notin inRoom /\ leftAt # Never /\ now >= leftAt + Grace
    OBVIOUS
  <2>1. AbsenceTimerFires
    BY DEF Next, Watch, Tick, RoomDisconnected, DurationTimerFires, ParticipantConnected,
       ParticipantDisconnected, Finish
  <2>2. absenceTimer = now /\ Candidate \notin inRoom
    BY <2>1 DEF AbsenceTimerFires, CandidateGone
  <2>3. absenceTimer # Never /\ Watching
    BY <2>2 DEF Inv, TypeOK, DurationInv, Never
  <2>4. leftAt # Never /\ absenceTimer = leftAt + Grace
    BY <2>2, <2>3 DEF Inv, AbsenceInv
  <2> QED  BY <2>2, <2>4 DEF Inv, TypeOK
<1> QED  BY <1>1, Invariant, PTL DEF Spec, AbsentForTheWholeGrace

=============================================================================
