--------------------------- MODULE RoomEndWatcher ---------------------------
(***************************************************************************)
(* watchInterviewEnd (src/interview/roomEndWatcher.ts): the one promise    *)
(* that ends an interview, on the duration cap, the room's disconnection   *)
(* or the candidate's absence beyond a grace period.                       *)
(*                                                                         *)
(* Time is a count of ticks.  A timer fires in the tick it is due, before  *)
(* or after the room events of that tick.  The room belongs to LiveKit: it *)
(* keeps remoteParticipants and emits the events the handlers react to.    *)
(***************************************************************************)
EXTENDS Integers

CONSTANTS
    Durations,      \* what durationMinutes may be, in ticks
    MaxDuration,    \* the ceiling of 60 minutes, in ticks
    Grace,          \* absenceGraceMs, in ticks
    Candidate,      \* the candidate's identity
    Others,         \* other participants of the room
    Horizon         \* bound: the room is watched before this tick

ASSUME ConstantsAssumption ==
    /\ Durations \subseteq Nat
    /\ MaxDuration \in Nat
    /\ Grace \in Nat \ {0}          \* positiveIntOr
    /\ Candidate \notin Others
    /\ Horizon \in Nat

Participants == {Candidate} \cup Others
Never == -1                         \* no timer, or an instant that has not come

VARIABLES
    now,
    durationMinutes,
    inRoom,          \* room.remoteParticipants
    watchedAt,       \* when watchInterviewEnd was called
    durationTimer,   \* when it is due
    absenceTimer,    \* when candidateAbsenceTimer is due
    settled,         \* the reason the promise resolved with, or "none"
    settledAt,
    leftAt           \* history: when the candidate was last seen leaving and is
                     \* still gone

timers == <<durationTimer, absenceTimer>>
vars == <<now, durationMinutes, inRoom, watchedAt, timers, settled, settledAt, leftAt>>

\* Handlers and timers are there from the call until the promise settles.
Watching == watchedAt # Never /\ settled = "none"

Init ==
    /\ now = 0
    /\ durationMinutes \in Durations
    /\ inRoom \in SUBSET Participants
    /\ watchedAt = Never /\ durationTimer = Never /\ absenceTimer = Never
    /\ settled = "none" /\ settledAt = Never /\ leftAt = Never

-----------------------------------------------------------------------------
(* The handlers *)

\* Mutation: the duration is not clamped.
DurationUnclamped == durationMinutes

\* Mutation: the clamp of one minute less.
MaxTicksCutShort ==
    IF durationMinutes < MaxDuration THEN durationMinutes ELSE MaxDuration - 1

\* Math.min(durationMinutes, 60)
MaxTicks == IF durationMinutes < MaxDuration THEN durationMinutes ELSE MaxDuration

\* Mutation: the timers are cleared, but the promise is not resolved.
FinishUnresolved(reason) ==
    /\ UNCHANGED <<settled, settledAt>>
    /\ durationTimer' = Never /\ absenceTimer' = Never

\* finish(reason): both timers are cleared, the handlers taken off.
Finish(reason) ==
    /\ settled' = reason /\ settledAt' = now
    /\ durationTimer' = Never /\ absenceTimer' = Never

\* Mutation: a timer that is running is kept, and not started afresh.
KeepAbsenceTimer == absenceTimer' = IF absenceTimer = Never THEN now + Grace ELSE absenceTimer

\* onParticipantDisconnected: the old timer is cleared, a new one set.
RestartAbsenceTimer == absenceTimer' = now + Grace

\* Mutation: any participant's arrival clears the timer.
AnyParticipant(p) == TRUE

\* participant.identity === candidateIdentity
IsCandidate(p) == p = Candidate

Watch ==
    /\ watchedAt = Never /\ now < Horizon
    /\ watchedAt' = now
    /\ durationTimer' = now + MaxTicks
    /\ UNCHANGED <<now, durationMinutes, inRoom, absenceTimer, settled, settledAt, leftAt>>

\* RoomEvent.ParticipantConnected.  The participant may be in the room already,
\* when the same identity joins a second time.
ParticipantConnected(p) ==
    /\ inRoom' = inRoom \cup {p}
    /\ leftAt' = IF p = Candidate THEN Never ELSE leftAt
    /\ absenceTimer' = IF Watching /\ IsCandidate(p) THEN Never ELSE absenceTimer
    /\ UNCHANGED <<now, durationMinutes, watchedAt, durationTimer, settled, settledAt>>

\* RoomEvent.ParticipantDisconnected.  When the same identity has joined a second
\* time, the first connection's end leaves the participant in the room.
ParticipantDisconnected(p) ==
    /\ p \in inRoom
    /\ inRoom' \in {inRoom, inRoom \ {p}}
    /\ leftAt' = IF p = Candidate /\ Watching /\ p \notin inRoom' THEN now ELSE leftAt
    /\ IF Watching /\ IsCandidate(p) THEN RestartAbsenceTimer ELSE UNCHANGED absenceTimer
    /\ UNCHANGED <<now, durationMinutes, watchedAt, durationTimer, settled, settledAt>>

\* RoomEvent.Disconnected
RoomDisconnected ==
    /\ Watching /\ Finish("room_disconnected")
    /\ UNCHANGED <<now, durationMinutes, inRoom, watchedAt, leftAt>>

DurationTimerFires ==
    /\ durationTimer = now
    /\ Watching /\ Finish("duration_timeout")
    /\ UNCHANGED <<now, durationMinutes, inRoom, watchedAt, leftAt>>

\* Mutation: the timer believes the event it was started by.
CandidateAssumedGone == TRUE

\* !hasParticipant(room, candidateIdentity)
CandidateGone == Candidate \notin inRoom

AbsenceTimerFires ==
    /\ absenceTimer = now
    /\ IF CandidateGone
       THEN Finish("candidate_absent")
       ELSE absenceTimer' = Never /\ UNCHANGED <<durationTimer, settled, settledAt>>
    /\ UNCHANGED <<now, durationMinutes, inRoom, watchedAt, leftAt>>

\* Time passes once no timer is due.  The last conjunct is a bound no run of the
\* code reaches: a watch settles before.
Tick ==
    /\ durationTimer # now /\ absenceTimer # now
    /\ watchedAt # Never \/ now < Horizon
    /\ settled = "none"
    /\ now <= Horizon + MaxDuration + Grace
    /\ now' = now + 1
    /\ UNCHANGED <<durationMinutes, inRoom, watchedAt, timers, settled, settledAt, leftAt>>

Next ==
    \/ Watch \/ Tick
    \/ RoomDisconnected \/ DurationTimerFires \/ AbsenceTimerFires
    \/ \E p \in Participants : ParticipantConnected(p) \/ ParticipantDisconnected(p)

\* Time passes, timers fire, and the call is made; participants do as they like.
Fairness == WF_vars(Tick) /\ WF_vars(DurationTimerFires) /\ WF_vars(AbsenceTimerFires)
            /\ WF_vars(Watch)

Spec == Init /\ [][Next]_vars
FairSpec == Spec /\ Fairness

-----------------------------------------------------------------------------
(* Properties *)

\* An interview is ended for absence only when the candidate has been seen
\* leaving, has not come back, and the whole grace period has passed: neither a
\* second connection under the same identity nor a short absence ends it.
AbsentForTheWholeGrace ==
    [][settled = "none" /\ settled' = "candidate_absent" =>
          Candidate \notin inRoom /\ leftAt # Never /\ now >= leftAt + Grace]_vars

\* A candidate who has left keeps the interview open for the grace at most,
\* whatever the others do.
LeaverEndsInterview == Watching /\ leftAt # Never => now <= leftAt + Grace

\* The interview is never longer than its duration, nor than the ceiling, and the
\* cap ends none before the lesser of the two (roomEndWatcher.ts:46-48).
DurationBounds ==
    /\ Watching => now <= watchedAt + durationMinutes /\ now <= watchedAt + MaxDuration
    /\ settled = "duration_timeout" =>
          settledAt >= watchedAt + durationMinutes \/ settledAt >= watchedAt + MaxDuration

\* Every watched interview ends.
InterviewEnds == watchedAt # Never ~> settled # "none"

=============================================================================
