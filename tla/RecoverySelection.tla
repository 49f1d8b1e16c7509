------------------------- MODULE RecoverySelection -------------------------
(***************************************************************************)
(* selectRecoveryTurns (src/interview/reseed.ts): which turns of the       *)
(* transcript a session that replaces a failed one is given, as the loop   *)
(* of the code, from the newest turn back, against what it is to select.   *)
(* A turn is its role and the length of its text.                          *)
(***************************************************************************)
EXTENDS Integers, Sequences, FiniteSetsExt

CONSTANTS
    MaxTurnsSettings, \* what RECOVERY_MAX_TURNS may be
    MaxCharsSettings, \* what RECOVERY_MAX_CHARS may be
    Transcripts       \* transcripts a reseed may find

Roles == {"candidate", "interviewer", "system"}
Turns == [role : Roles, length : Nat]

ASSUME RecoveryAssumption ==
    /\ MaxTurnsSettings \subseteq Nat \ {0}     \* positiveIntOr
    /\ MaxCharsSettings \subseteq Nat \ {0}
    /\ Transcripts \subseteq Seq(Turns)

VARIABLES
    transcript, maxTurns, maxChars,    \* the arguments
    index,       \* the turn looked at next, counted from 1
    selected,    \* the turns pushed so far, newest first: [at, length]
    usedChars,
    looping

arguments == <<transcript, maxTurns, maxChars>>
vars == <<arguments, index, selected, usedChars, looping>>

Init ==
    /\ transcript \in Transcripts
    /\ maxTurns \in MaxTurnsSettings /\ maxChars \in MaxCharsSettings
    /\ index = Len(transcript) /\ selected = <<>> /\ usedChars = 0 /\ looping = TRUE

-----------------------------------------------------------------------------
(* The loop *)

\* Either limit is reached.
Full == Len(selected) >= maxTurns \/ usedChars >= maxChars

\* Mutation: system notes are replayed too.
AnyText(turn) == turn.length > 0

\* A turn of the interviewer or the candidate, with text.
Usable(turn) == turn.role \in {"candidate", "interviewer"} /\ turn.length > 0

Remaining == maxChars - usedChars

\* Mutation: a turn that is too long is taken whole.
WholeLength(turn) == turn.length

\* turn.text.slice(0, remainingChars)
CutLength(turn) == IF turn.length > Remaining THEN Remaining ELSE turn.length

Leave ==
    /\ looping /\ (index = 0 \/ Full)
    /\ looping' = FALSE
    /\ UNCHANGED <<arguments, index, selected, usedChars>>

Skip ==
    /\ looping /\ index > 0 /\ ~Full
    /\ ~Usable(transcript[index])
    /\ index' = index - 1
    /\ UNCHANGED <<arguments, selected, usedChars, looping>>

\* Pushed whole, or cut, which ends the loop.  There is room for a character, so
\* that the code's `if (!text) break` is never taken.
Push ==
    /\ looping /\ index > 0 /\ ~Full
    /\ LET turn == transcript[index] IN
       /\ Usable(turn)
       /\ selected' = Append(selected, [at |-> index, length |-> CutLength(turn)])
       /\ usedChars' = usedChars + CutLength(turn)
       /\ looping' = (CutLength(turn) = turn.length)
    /\ index' = index - 1
    /\ UNCHANGED arguments

Returned == ~looping /\ UNCHANGED vars

Next == Leave \/ Skip \/ Push \/ Returned

Spec == Init /\ [][Next]_vars /\ WF_vars(Next)

-----------------------------------------------------------------------------
(* What is to be selected *)

UsableTurns ==
    {i \in DOMAIN transcript :
        transcript[i].role \in {"candidate", "interviewer"} /\ transcript[i].length > 0}
NewerThan(i) == {j \in UsableTurns : j > i}
CharsOf(turns) == MapThenSumSet(LAMBDA j : transcript[j].length, turns)

\* The newest turns both limits leave room for.
WithinLimits ==
    {i \in UsableTurns : Cardinality(NewerThan(i)) < maxTurns /\ CharsOf(NewerThan(i)) < maxChars}

\* Whole, but for the oldest, which has what room is left.
RoomFor(i) == Min({transcript[i].length, maxChars - CharsOf(NewerThan(i))})

-----------------------------------------------------------------------------
(* Properties *)

TypeOK ==
    /\ transcript \in Transcripts
    /\ maxTurns \in MaxTurnsSettings /\ maxChars \in MaxCharsSettings
    /\ index \in 0..Len(transcript)
    /\ selected \in Seq([at : Nat, length : Nat])
    /\ usedChars \in Nat /\ looping \in BOOLEAN

\* A reseed is given exactly the newest turns within both limits, none left out
\* in the middle, chronological once reversed, and cut at the oldest only.
SelectsNewest ==
    ~looping =>
        /\ {selected[n].at : n \in DOMAIN selected} = WithinLimits
        /\ \A n \in DOMAIN selected : selected[n].length = RoomFor(selected[n].at)
        /\ \A n, k \in DOMAIN selected : n < k => selected[n].at > selected[k].at

\* The selection never exceeds a limit, also not on the way.
LimitsKept == Len(selected) <= maxTurns /\ usedChars <= maxChars

=============================================================================
