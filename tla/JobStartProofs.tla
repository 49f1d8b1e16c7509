--------------------------- MODULE JobStartProofs ---------------------------
(***************************************************************************)
(* For any documents, environments and contexts, and any number of         *)
(* dispatches and turns: which dispatches are admitted, and what a job     *)
(* leaves in Redis wherever its child dies.                                *)
(***************************************************************************)
EXTENDS JobStart, TLAPS, WellFoundedInduction, FiniteSetTheorems

USE DEF childVars, values, keyVars

-----------------------------------------------------------------------------
(* The index *)

\* The index is the second call of saveJob: what comes after it finds the job listed.
IndexInv ==
    ~listed => present \subseteq {"job"}
               /\ child \in {"none", "reading", "rejected", "creating", "indexing"}

\* Wherever a child dies, a job that no listing shows has left nothing but its
\* record (redisStore.ts:77-80).
THEOREM UnlistedLeavesNothing == Spec => []UnlistedLeftNothing
<1>1. Init => IndexInv
    BY DEF Init, IndexInv
<1>2. IndexInv /\ [Next]_vars => IndexInv'
    <2>. SUFFICES ASSUME IndexInv, [Next]_vars PROVE IndexInv'
        OBVIOUS
    <2>. USE DEF IndexInv
    <2>1. CASE Dispatch
        BY <2>1 DEF Dispatch
    <2>2. CASE Read
        BY <2>2 DEF Read
    <2>3. CASE CreateRecord
        BY <2>3 DEF CreateRecord, SetKey
    <2>4. CASE IndexRecord
        BY <2>4 DEF IndexRecord, Index
    <2>5. CASE SaveSnapshot \/ SaveInstruction \/ SaveInitialState
        BY <2>5 DEF SaveSnapshot, SaveInstruction, SaveInitialState
    <2>6. CASE OpenFirstSession
        BY <2>6 DEF OpenFirstSession, UpdateRecord
    <2>7. CASE CountTranscript \/ AppendTurn \/ Reconnect
        BY <2>7 DEF CountTranscript, AppendTurn, Reconnect
    <2>8. CASE SaveTurnState
        BY <2>8 DEF SaveTurnState, StateFirst
    <2>9. CASE SaveTurnRecord \/ AnnounceReconnect \/ Reseed
        BY <2>9 DEF SaveTurnRecord, AnnounceReconnect, Reseed, UpdateRecord
    <2>10. ASSUME NEW s \in {"completed", "failed"}, Settle(s) PROVE IndexInv'
        BY <2>10 DEF Settle, UpdateRecord
    <2>11. CASE Finalize \/ Report
        BY <2>11 DEF Finalize, Report
    <2>12. CASE Crash
        BY <2>12 DEF Crash
    <2>13. ASSUME NEW k \in Keys, Expire(k) PROVE IndexInv'
        BY <2>13 DEF Expire
    <2>14. CASE UNCHANGED vars
        BY <2>14 DEF vars
    <2>. QED  BY <2>1, <2>2, <2>3, <2>4, <2>5, <2>6, <2>7, <2>8, <2>9, <2>10, <2>11, <2>12, <2>13,
                 <2>14 DEF Next, Starting, Talking, Ending
<1>3. IndexInv => UnlistedLeftNothing
    BY DEF IndexInv, UnlistedLeftNothing
<1>. QED  BY <1>1, <1>2, <1>3, PTL DEF Spec

-----------------------------------------------------------------------------
(* The TTLs *)

\* From finalize to the end nothing is written, so that all that is there expires
\* if every EXPIRE was done; before the first finalize nothing does.
TtlInv ==
    /\ present \subseteq Keys
    /\ child \in {"reporting", "ended"} /\ finalized = "whole" => expiring = present
    /\ finalized = "none" => expiring = {}

LEMMA TtlInvInit == Init => TtlInv
BY DEF Init, TtlInv

LEMMA TtlInvPreserved == TtlInv /\ [Next]_vars => TtlInv'
<1>. SUFFICES ASSUME TtlInv, [Next]_vars PROVE TtlInv'
    OBVIOUS
<1>. USE DEF TtlInv, Keys
<1>1. CASE Dispatch \/ Read
    BY <1>1 DEF Dispatch, Read
<1>2. CASE CreateRecord \/ IndexRecord
    BY <1>2 DEF CreateRecord, IndexRecord, Index, SetKey
<1>3. CASE SaveSnapshot \/ SaveInstruction \/ SaveInitialState
    BY <1>3 DEF SaveSnapshot, SaveInstruction, SaveInitialState, SetKey
<1>4. CASE OpenFirstSession
    BY <1>4 DEF OpenFirstSession, UpdateRecord, SetKey
<1>5. CASE CountTranscript \/ AppendTurn
    BY <1>5 DEF CountTranscript, AppendTurn, PushKey
<1>6. CASE SaveTurnState
    BY <1>6 DEF SaveTurnState, StateFirst, SetKey
<1>7. CASE SaveTurnRecord \/ AnnounceReconnect \/ Reseed
    BY <1>7 DEF SaveTurnRecord, AnnounceReconnect, Reseed, UpdateRecord, SetKey
<1>8. CASE Reconnect
    BY <1>8 DEF Reconnect, SetKey
<1>9. ASSUME NEW s \in {"completed", "failed"}, Settle(s) PROVE TtlInv'
    BY <1>9 DEF Settle, UpdateRecord, SetKey
<1>10. CASE Finalize \/ Report
    BY <1>10 DEF Finalize, Report, ExpiredKeys
<1>11. CASE Crash
    BY <1>11 DEF Crash
<1>12. ASSUME NEW k \in Keys, Expire(k) PROVE TtlInv'
    BY <1>12 DEF Expire
<1>13. CASE UNCHANGED vars
    BY <1>13 DEF vars
<1>. QED  BY <1>1, <1>2, <1>3, <1>4, <1>5, <1>6, <1>7, <1>8, <1>9, <1>10, <1>11, <1>12, <1>13
          DEF Next, Starting, Talking, Ending

\* What a job leaves that ended with all its EXPIREs done expires, all of it, and what
\* a crashed one leaves stays (redisStore.ts:101-105).
THEOREM FinishedKeysExpire == Spec => []KeysExpireOrPersist
<1>1. TtlInv => KeysExpireOrPersist
    BY DEF TtlInv, KeysExpireOrPersist
<1>. QED  BY <1>1, TtlInvInit, TtlInvPreserved, PTL DEF Spec

-----------------------------------------------------------------------------
(* The instruction *)

Instruction == SystemInstruction(Documents[document])

\* Once this dispatch has saved its snapshot it is there to be read, without a TTL, and
\* only while the child talks has a session been given anything.
InstructionInv ==
    /\ child \in {"saving_instruction", "saving_state", "opening", "talking", "counted", "appended",
                  "state_saved", "reconnecting", "reseeding"} =>
          "recovery" \in present \ expiring /\ snapshot = Instruction
    /\ seed # NoSeed => /\ child \in {"talking", "counted", "appended", "state_saved"}
                        /\ seed.instruction = Instruction

LEMMA ConfigInstruction ==
    /\ Cfg.system_instruction = Instruction
    /\ Cfg.recovery_snapshot.system_instruction = Instruction
BY DEF Cfg, Config, RecoverySnapshot, Instruction

LEMMA InstructionInvPreserved == InstructionInv /\ [Next]_vars => InstructionInv'
<1>. SUFFICES ASSUME InstructionInv, [Next]_vars PROVE InstructionInv'
    OBVIOUS
<1>. USE DEF InstructionInv
<1>1. CASE Dispatch \/ Read
    BY <1>1 DEF Dispatch, Read
<1>2. CASE CreateRecord \/ IndexRecord
    BY <1>2 DEF CreateRecord, IndexRecord, Index, SetKey
<1>3. CASE SaveSnapshot
    BY <1>3, ConfigInstruction DEF SaveSnapshot, SnapshotSaved, SetKey, Instruction
<1>4. CASE SaveInstruction \/ SaveInitialState
    BY <1>4 DEF SaveInstruction, SaveInitialState, SetKey, Instruction
<1>5. CASE OpenFirstSession
    <2>1. seed'.instruction = Instruction /\ child' = "talking"
        BY <1>5, ConfigInstruction DEF OpenFirstSession
    <2>. QED  BY <1>5, <2>1 DEF OpenFirstSession, UpdateRecord, SetKey, Instruction
<1>6. CASE CountTranscript \/ AppendTurn
    BY <1>6 DEF CountTranscript, AppendTurn, PushKey, Instruction
<1>7. CASE SaveTurnState
    BY <1>7 DEF SaveTurnState, StateFirst, SetKey, Instruction
<1>8. CASE SaveTurnRecord \/ AnnounceReconnect
    BY <1>8 DEF SaveTurnRecord, AnnounceReconnect, UpdateRecord, SetKey, Instruction
<1>9. CASE Reconnect
    BY <1>9 DEF Reconnect, SetKey, Instruction
<1>10. CASE Reseed
    <2>1. seed'.instruction = Instruction /\ child' = "talking"
        BY <1>10, ConfigInstruction DEF Reseed, SourceFromRedis
    <2>. QED  BY <1>10, <2>1 DEF Reseed, UpdateRecord, SetKey, Instruction
<1>11. ASSUME NEW s \in {"completed", "failed"}, Settle(s) PROVE InstructionInv'
    BY <1>11 DEF Settle
<1>12. CASE Finalize \/ Report
    BY <1>12 DEF Finalize, Report
<1>13. CASE Crash
    BY <1>13 DEF Crash
<1>14. ASSUME NEW k \in Keys, Expire(k) PROVE InstructionInv'
    BY <1>14 DEF Expire, Instruction
<1>15. CASE UNCHANGED vars
    BY <1>15 DEF vars, Instruction
<1>. QED  BY <1>1, <1>2, <1>3, <1>4, <1>5, <1>6, <1>7, <1>8, <1>9, <1>10, <1>11, <1>12, <1>13,
             <1>14, <1>15 DEF Next, Starting, Talking, Ending

\* Every session of a dispatch is given the instruction of this dispatch's metadata,
\* whatever an earlier one has left in Redis (agent.ts:115-116, 405-424).
THEOREM InstructionOfTheDispatch == Spec => []SessionsObeyTheDispatch
<1>1. Init => InstructionInv
    BY DEF Init, InstructionInv
<1>2. InstructionInv => SessionsObeyTheDispatch
    BY DEF InstructionInv, SessionsObeyTheDispatch, Instruction
<1>. QED  BY <1>1, <1>2, InstructionInvPreserved, PTL DEF Spec

-----------------------------------------------------------------------------
(* The order of speech *)

Entries == [turn : Nat \X Nat, sequence : Nat]

\* Where a dispatch has said nothing yet, and where it has said no more than it counts.
Beginning == {"reading", "creating", "indexing", "saving_snapshot", "saving_instruction",
              "saving_state"}
Speaking == {"opening", "talking", "counted", "state_saved", "reconnecting", "reseeding"}

\* A turn that may have been said when the child is at c in dispatch d, counting t turns.
Spoken(turn, c, d, t) ==
    /\ turn[1] <= d
    /\ c \in Beginning => turn[1] < d
    /\ c \in Speaking => turn[1] < d \/ turn[2] <= t
    /\ c = "appended" => turn[1] < d \/ turn[2] <= t + 1

\* The transcript has the turns in the order they were said, dispatch after dispatch.
OrderInv ==
    /\ turns \in Nat /\ sequence \in Nat /\ dispatches \in Nat
    /\ transcript \in Seq(Entries) /\ IsFiniteSet(Written)
    /\ \A i \in DOMAIN transcript : Spoken(transcript[i].turn, child, dispatches, turns)
    /\ \A i, j \in DOMAIN transcript :
          i < j => NotAfter(transcript[i].turn, transcript[j].turn)

\* t is s with e at its end, once or more.
Grown(s, e, t) ==
    /\ t \in Seq(Entries) /\ Len(s) \in Nat /\ DOMAIN s = 1..Len(s)
    /\ \A i \in DOMAIN t : \/ i \in DOMAIN s /\ t[i] = s[i] /\ i <= Len(s)
                           \/ i > Len(s) /\ t[i] = e
    /\ \A i \in DOMAIN t : i \in Nat
    /\ \A i \in DOMAIN s : i \in DOMAIN t /\ t[i] = s[i]
    /\ \E i \in DOMAIN t : t[i] = e

\* So it is after an append that was done once or twice.
LEMMA AppendGrows ==
    ASSUME NEW s \in Seq(Entries), NEW e \in Entries,
           NEW t, t = s \o <<e>> \/ t = s \o <<e, e>>
    PROVE  Grown(s, e, t)
<1>1. ASSUME NEW n \in {1, 2}, t \in Seq(Entries), DOMAIN t = 1..(Len(s) + n),
             \A i \in DOMAIN s : t[i] = s[i], \A i \in (Len(s) + 1)..(Len(s) + n) : t[i] = e
      PROVE  Grown(s, e, t)
    <2>1. Len(s) \in Nat /\ DOMAIN s = 1..Len(s)
        OBVIOUS
    <2>2. \A i \in DOMAIN t : i \in DOMAIN s \/ i \in (Len(s) + 1)..(Len(s) + n)
        BY <1>1, <2>1
    <2>3. Len(s) + 1 \in DOMAIN t /\ \A i \in DOMAIN s : i \in DOMAIN t /\ i <= Len(s)
        BY <1>1, <2>1
    <2>4. t[Len(s) + 1] = e /\ \A i \in (Len(s) + 1)..(Len(s) + n) : i > Len(s)
        BY <1>1, <2>1
    <2>5. \A i \in DOMAIN t : i \in Nat
        BY <1>1
    <2>. QED  BY <1>1, <2>1, <2>2, <2>3, <2>4, <2>5 DEF Grown
<1>2. CASE t = s \o <<e>>
    <2>1. /\ t \in Seq(Entries) /\ DOMAIN t = 1..(Len(s) + 1) /\ Len(s) \in Nat
          /\ (\A i \in DOMAIN s : t[i] = s[i]) /\ t[Len(s) + 1] = e
        BY <1>2
    <2>2. \A i \in (Len(s) + 1)..(Len(s) + 1) : t[i] = e
        BY <2>1
    <2>. QED  BY <1>1, <2>1, <2>2
<1>3. CASE t = s \o <<e, e>>
    <2>1. /\ t \in Seq(Entries) /\ DOMAIN t = 1..(Len(s) + 2) /\ Len(s) \in Nat
          /\ (\A i \in DOMAIN s : t[i] = s[i]) /\ t[Len(s) + 1] = e /\ t[Len(s) + 2] = e
        BY <1>3
    <2>2. \A i \in (Len(s) + 1)..(Len(s) + 2) : i = Len(s) + 1 \/ i = Len(s) + 2
        BY <2>1
    <2>. QED  BY <1>1, <2>1, <2>2
<1>. QED  BY <1>2, <1>3

\* The turn an append adds, and what the transcript then holds.
LEMMA AppendAdds ==
    ASSUME OrderInv, AppendTurn
    PROVE  \E turn \in Nat \X Nat, e \in Entries :
              /\ turn = <<dispatches, turns + 1>> /\ e.turn = turn /\ said' = Append(said, turn)
              /\ Grown(transcript, e, transcript') /\ Written' = Written \cup {turn}
<1>. DEFINE turn == <<dispatches, turns + 1>>
            e == [turn |-> turn, sequence |-> sequence]
<1>1. turn \in Nat \X Nat /\ e \in Entries /\ e.turn = turn /\ transcript \in Seq(Entries)
    BY DEF OrderInv, Entries
<1>2. /\ transcript' = transcript \o <<e>> \/ transcript' = transcript \o <<e, e>>
      /\ said' = Append(said, turn)
    BY DEF AppendTurn
<1>. HIDE DEF turn, e
<1>7. Grown(transcript, e, transcript')
    BY <1>1, <1>2, AppendGrows
<1>3. /\ \A i \in DOMAIN transcript' : transcript'[i] = e
            \/ (i \in DOMAIN transcript /\ transcript'[i] = transcript[i])
      /\ \A i \in DOMAIN transcript : i \in DOMAIN transcript' /\ transcript'[i] = transcript[i]
      /\ \E i \in DOMAIN transcript' : transcript'[i] = e
    BY <1>7 DEF Grown
<1>4. Written' = {transcript'[i].turn : i \in DOMAIN transcript'}
    BY DEF Written
<1>5. Written' = Written \cup {turn}
    BY <1>1, <1>3, <1>4 DEF Written
<1>6. turn = <<dispatches, turns + 1>>
    BY DEF turn
<1>. QED  BY <1>1, <1>2, <1>5, <1>6, <1>7

LEMMA EntryTurns ==
    ASSUME transcript \in Seq(Entries)
    PROVE  \A i \in DOMAIN transcript : transcript[i].turn \in Nat \X Nat
<1>1. \A i \in DOMAIN transcript : transcript[i] \in Entries
    OBVIOUS
<1>2. \A e \in Entries : e.turn \in Nat \X Nat
    BY DEF Entries
<1>. QED  BY <1>1, <1>2

\* A step that writes no turn and leaves the child where the same may have been said.
LEMMA OrderFrame ==
    ASSUME OrderInv, UNCHANGED transcript, turns' \in Nat, sequence' \in Nat, dispatches' \in Nat,
           \A turn \in Nat \X Nat :
              Spoken(turn, child, dispatches, turns) => Spoken(turn, child', dispatches', turns')
    PROVE  OrderInv'
<1>1. \A i \in DOMAIN transcript : transcript[i].turn \in Nat \X Nat
    BY EntryTurns DEF OrderInv
<1>2. Written' = Written
    BY DEF Written
<1>3. \A i \in DOMAIN transcript : Spoken(transcript[i].turn, child', dispatches', turns')
    BY <1>1 DEF OrderInv
<1>. QED  BY <1>2, <1>3 DEF OrderInv

LEMMA OrderInvInit == Init => OrderInv
<1>. SUFFICES ASSUME Init PROVE OrderInv
    OBVIOUS
<1>1. transcript = <<>> /\ DOMAIN transcript = {} /\ transcript \in Seq(Entries)
    BY DEF Init
<1>2. Written = {}
    BY <1>1 DEF Written
<1>. QED  BY <1>1, <1>2, FS_EmptySet DEF Init, OrderInv

LEMMA OrderInvPreserved == OrderInv /\ [Next]_vars => OrderInv'
<1>. SUFFICES ASSUME OrderInv, [Next]_vars PROVE OrderInv'
    OBVIOUS
<1>1. turns \in Nat /\ sequence \in Nat /\ dispatches \in Nat /\ transcript \in Seq(Entries)
      /\ Len(transcript) \in Nat
    BY DEF OrderInv
<1>. USE DEF Beginning, Speaking
<1>2. CASE Dispatch
    <2>1. UNCHANGED <<transcript, turns, sequence>> /\ dispatches' = dispatches + 1 /\ child' = "reading"
        BY <1>2 DEF Dispatch
    <2>2. \A turn \in Nat \X Nat :
              Spoken(turn, child, dispatches, turns) => Spoken(turn, child', dispatches', turns')
        BY <1>1, <2>1 DEF Spoken
    <2>. QED  BY <1>1, <2>1, <2>2, OrderFrame
<1>3. CASE Read \/ CreateRecord \/ IndexRecord \/ SaveSnapshot \/ SaveInstruction
    <2>1. /\ UNCHANGED <<transcript, turns, sequence, dispatches>>
          /\ child \in Beginning /\ child' \in Beginning \cup {"rejected"}
        BY <1>3 DEF Read, CreateRecord, IndexRecord, Index, SaveSnapshot, SaveInstruction
    <2>. QED  BY <1>1, <2>1, OrderFrame DEF Spoken
<1>4. CASE SaveInitialState
    <2>1. /\ UNCHANGED <<transcript, sequence, dispatches>> /\ turns' = 0
          /\ child = "saving_state" /\ child' = "opening"
        BY <1>4 DEF SaveInitialState
    <2>. QED  BY <1>1, <2>1, OrderFrame DEF Spoken
<1>5. CASE OpenFirstSession \/ CountTranscript \/ Reconnect \/ AnnounceReconnect \/ Reseed
            \/ SaveTurnRecord
    <2>1. /\ UNCHANGED <<transcript, turns, dispatches>> /\ sequence' \in Nat
          /\ child \in Speaking /\ child' \in Speaking
        BY <1>1, <1>5 DEF OpenFirstSession, CountTranscript, Reconnect, AnnounceReconnect, Reseed,
                     SaveTurnRecord
    <2>. QED  BY <1>1, <2>1, OrderFrame DEF Spoken
<1>6. CASE AppendTurn
    <2>1. PICK turn \in Nat \X Nat, e \in Entries :
              /\ turn = <<dispatches, turns + 1>> /\ e.turn = turn
              /\ Grown(transcript, e, transcript') /\ Written' = Written \cup {turn}
        BY <1>6, AppendAdds
    <2>2. /\ UNCHANGED <<turns, dispatches>> /\ child = "counted" /\ child' = "appended"
          /\ sequence' = 0
        BY <1>6 DEF AppendTurn
    <2>3. /\ transcript' \in Seq(Entries) /\ DOMAIN transcript = 1..Len(transcript)
          /\ \A i \in DOMAIN transcript' :
                \/ i \in DOMAIN transcript /\ transcript'[i] = transcript[i] /\ i <= Len(transcript)
                \/ i > Len(transcript) /\ transcript'[i] = e
          /\ \A i \in DOMAIN transcript' : i \in Nat
        BY <2>1 DEF Grown
    <2>4. turn[1] = dispatches /\ turn[2] = turns + 1
        BY <2>1
    <2>5. \A i \in DOMAIN transcript : /\ Spoken(transcript[i].turn, "counted", dispatches, turns)
                                       /\ transcript[i].turn \in Nat \X Nat
        BY <1>1, <2>2, EntryTurns DEF OrderInv
    <2>6. \A u \in Nat \X Nat : Spoken(u, "counted", dispatches, turns) =>
              Spoken(u, "appended", dispatches, turns) /\ NotAfter(u, turn)
        BY <1>1, <2>4 DEF Spoken, NotAfter
    <2>7. Spoken(turn, "appended", dispatches, turns) /\ NotAfter(turn, turn)
        BY <1>1, <2>4 DEF Spoken, NotAfter
    <2>8. \A i \in DOMAIN transcript' : Spoken(transcript'[i].turn, "appended", dispatches, turns)
        BY <2>1, <2>3, <2>5, <2>6, <2>7
    <2>9. \A i, j \in DOMAIN transcript' :
              i < j => NotAfter(transcript'[i].turn, transcript'[j].turn)
        <3>1. \A i \in DOMAIN transcript : NotAfter(transcript[i].turn, turn)
            BY <2>5, <2>6
        <3>2. \A i, j \in DOMAIN transcript :
                  i < j => NotAfter(transcript[i].turn, transcript[j].turn)
            BY DEF OrderInv
        <3>3. ASSUME NEW i \in DOMAIN transcript', NEW j \in DOMAIN transcript', i < j
              PROVE  NotAfter(transcript'[i].turn, transcript'[j].turn)
            <4>1. i \in Nat /\ j \in Nat
                BY <2>3
            <4>2. CASE j <= Len(transcript)
                <5>1. i \in DOMAIN transcript /\ transcript'[i] = transcript[i]
                    BY <1>1, <2>3, <3>3, <4>1, <4>2
                <5>2. j \in DOMAIN transcript /\ transcript'[j] = transcript[j]
                    BY <1>1, <2>3, <4>1, <4>2
                <5>. QED  BY <3>2, <3>3, <5>1, <5>2
            <4>3. CASE j > Len(transcript)
                <5>1. transcript'[j].turn = turn
                    BY <1>1, <2>1, <2>3, <4>1, <4>3
                <5>. QED  BY <2>1, <2>3, <2>7, <3>1, <5>1
            <4>. QED  BY <1>1, <4>1, <4>2, <4>3
        <3>. QED  BY <3>3
    <2>10. IsFiniteSet(Written')
        BY <2>1, FS_AddElement DEF OrderInv
    <2>. QED  BY <1>1, <2>2, <2>3, <2>8, <2>9, <2>10 DEF OrderInv
<1>7. CASE SaveTurnState
    <2>1. /\ UNCHANGED <<transcript, dispatches, sequence>> /\ turns' = turns + 1
          /\ child = "appended" /\ child' = "state_saved"
        BY <1>7 DEF SaveTurnState
    <2>. QED  BY <1>1, <2>1, OrderFrame DEF Spoken
<1>8. ASSUME NEW s \in {"completed", "failed"}, Settle(s) PROVE OrderInv'
    <2>1. UNCHANGED <<transcript, turns, sequence, dispatches>> /\ child' = "finalizing"
        BY <1>8 DEF Settle
    <2>. QED  BY <1>1, <2>1, OrderFrame DEF Spoken
<1>9. CASE Finalize \/ Report
    <2>1. UNCHANGED <<transcript, turns, sequence, dispatches>> /\ child' \in {"reporting", "ended"}
        BY <1>9 DEF Finalize, Report
    <2>. QED  BY <1>1, <2>1, OrderFrame DEF Spoken
<1>10. CASE Crash
    <2>1. /\ UNCHANGED <<transcript, dispatches>> /\ turns' = 0 /\ sequence' = 0
          /\ child' = "none"
        BY <1>10 DEF Crash
    <2>. QED  BY <1>1, <2>1, OrderFrame DEF Spoken
<1>11. ASSUME NEW k \in Keys, Expire(k) PROVE OrderInv'
    <2>1. UNCHANGED <<child, turns, sequence, dispatches>>
        BY <1>11 DEF Expire
    <2>2. CASE UNCHANGED transcript
        BY <1>1, <2>1, <2>2, OrderFrame
    <2>3. CASE transcript' = <<>>
        <3>1. DOMAIN transcript' = {} /\ transcript' \in Seq(Entries)
            BY <2>3
        <3>2. Written' = {}
            BY <3>1 DEF Written
        <3>. QED  BY <1>1, <2>1, <3>1, <3>2, FS_EmptySet DEF OrderInv
    <2>. QED  BY <1>11, <2>2, <2>3 DEF Expire
<1>12. CASE UNCHANGED vars
    BY <1>1, <1>12, OrderFrame DEF vars
<1>. QED  BY <1>2, <1>3, <1>4, <1>5, <1>6, <1>7, <1>8, <1>9, <1>10, <1>11, <1>12
          DEF Next, Starting, Talking, Ending

\* The turn an append adds is none the transcript holds.
LEMMA AppendCounts ==
    ASSUME OrderInv, AppendTurn
    PROVE  /\ Cardinality(Written) \in Nat
           /\ Cardinality(Written') = Cardinality(Written) + 1
<1>1. PICK turn \in Nat \X Nat : turn = <<dispatches, turns + 1>> /\ Written' = Written \cup {turn}
    BY AppendAdds
<1>2. child = "counted" /\ turns \in Nat /\ dispatches \in Nat /\ transcript \in Seq(Entries)
    BY DEF AppendTurn, OrderInv
<1>3. \A i \in DOMAIN transcript : transcript[i].turn # turn
    <2>1. turn[1] = dispatches /\ turn[2] = turns + 1
        BY <1>1
    <2>2. ~Spoken(turn, child, dispatches, turns)
        BY <1>2, <2>1 DEF Spoken, Speaking
    <2>. QED  BY <2>2 DEF OrderInv
<1>4. turn \notin Written /\ IsFiniteSet(Written)
    BY <1>3 DEF Written, OrderInv
<1>. QED  BY <1>1, <1>4, FS_AddElement, FS_CardinalityType

-----------------------------------------------------------------------------
(* The counters *)

Statuses == {"absent", "starting", "in_progress", "reconnecting", "completed", "failed"}
Records == [status : Statuses, turns : Nat]

\* The state is behind the transcript by at most the turn being written, and the
\* record behind the state by at most the turn whose state is saved.
CounterInv ==
    /\ stateTurns \in Nat /\ record \in Records
    /\ child \in {"indexing", "saving_snapshot", "saving_instruction", "saving_state"} => record.turns = 0
    /\ child \in Speaking \cup {"appended"} => turns = stateTurns /\ "state" \notin expiring
    /\ finalized = "none" =>
          /\ record.turns <= stateTurns /\ stateTurns <= Cardinality(Written)
          /\ child = "appended" => turns < Cardinality(Written)

LEMMA NoRecordIsRecord == NoRecord \in Records /\ NoRecord.turns = 0
BY DEF NoRecord, Records, Statuses

\* An update changes the field it names.
LEMMA StatusUpdated ==
    ASSUME record \in Records, NEW status \in Statuses, UpdateRecord([status |-> status])
    PROVE  record' \in Records /\ record'.turns = record.turns
<1>1. DOMAIN record = {"status", "turns"}
    BY DEF Records
<1>2. record' = [status |-> status, turns |-> record.turns]
    BY <1>1 DEF UpdateRecord, Records
<1>. QED  BY <1>2 DEF Records

LEMMA TurnsUpdated ==
    ASSUME record \in Records, NEW n \in Nat, UpdateRecord([turns |-> n])
    PROVE  record' \in Records /\ record'.turns = n
<1>1. DOMAIN record = {"status", "turns"}
    BY DEF Records
<1>2. record' = [status |-> record.status, turns |-> n]
    BY <1>1 DEF UpdateRecord, Records
<1>. QED  BY <1>2 DEF Records

LEMMA CounterInvPreserved == TtlInv /\ OrderInv /\ CounterInv /\ [Next]_vars => CounterInv'
<1>. SUFFICES ASSUME TtlInv, OrderInv, CounterInv, [Next]_vars PROVE CounterInv'
    OBVIOUS
<1>. USE DEF CounterInv, Speaking
<1>0. /\ turns \in Nat /\ Cardinality(Written) \in Nat
      /\ UNCHANGED transcript => Written' = Written
    BY FS_CardinalityType DEF OrderInv, Written
<1>1. CASE Dispatch \/ Read
    BY <1>0, <1>1 DEF Dispatch, Read
<1>2. CASE CreateRecord \/ IndexRecord
    <2>1. CASE CreateRecord
        <3>1. record' = [status |-> "starting", turns |-> 0]
            BY <2>1 DEF CreateRecord
        <3>2. record' \in Records /\ record'.turns = 0
            BY <3>1 DEF Records, Statuses
        <3>. QED  BY <1>0, <2>1, <3>2 DEF CreateRecord
    <2>2. CASE IndexRecord
        BY <1>0, <2>2 DEF IndexRecord, Index
    <2>. QED  BY <1>0, <1>2, <2>1, <2>2
<1>3. CASE SaveSnapshot \/ SaveInstruction \/ SaveInitialState
    BY <1>0, <1>3 DEF SaveSnapshot, SaveInstruction, SaveInitialState, SetKey
<1>4. CASE OpenFirstSession \/ AnnounceReconnect \/ Reseed
    <2>1. PICK status \in {"in_progress", "reconnecting"} : UpdateRecord([status |-> status])
        BY <1>0, <1>4, Zenon DEF OpenFirstSession, AnnounceReconnect, Reseed
    <2>2. record' \in Records /\ record'.turns = record.turns
        BY <2>1, StatusUpdated DEF Statuses
    <2>. QED  BY <1>0, <1>4, <2>2 DEF OpenFirstSession, AnnounceReconnect, Reseed, UpdateRecord, SetKey
<1>5. CASE CountTranscript
    BY <1>0, <1>5 DEF CountTranscript
<1>6. CASE AppendTurn
    <2>1. Cardinality(Written') = Cardinality(Written) + 1
        BY <1>6, AppendCounts
    <2>2. record.turns \in Nat
        BY DEF Records
    <2>3. /\ UNCHANGED <<turns, stateTurns, record, finalized, expiring>>
          /\ child = "counted" /\ child' = "appended"
        BY <1>6 DEF AppendTurn, PushKey
    <2>. QED  BY <1>0, <2>1, <2>2, <2>3
<1>14. CASE SaveTurnState
    <2>1. record.turns \in Nat
        BY DEF Records
    <2>2. turns' = turns + 1 /\ stateTurns' = turns + 1 /\ child' = "state_saved"
          /\ UNCHANGED <<record, transcript, finalized>> /\ "state" \notin expiring'
        BY <1>14 DEF SaveTurnState, StateFirst, SetKey
    <2>3. finalized = "none" =>
              turns = stateTurns /\ record.turns <= turns /\ turns < Cardinality(Written)
        BY <1>14 DEF SaveTurnState
    <2>4. finalized' = "none" =>
              record'.turns <= stateTurns' /\ stateTurns' <= Cardinality(Written')
        BY <1>0, <2>1, <2>2, <2>3
    <2>. QED  BY <1>0, <2>2, <2>4
<1>7. CASE SaveTurnRecord
    <2>1. record' \in Records /\ record'.turns = turns
        BY <1>0, <1>7, TurnsUpdated DEF SaveTurnRecord
    <2>. QED  BY <1>0, <1>7, <2>1 DEF SaveTurnRecord, UpdateRecord, SetKey
<1>8. CASE Reconnect
    BY <1>0, <1>8 DEF Reconnect, SetKey
<1>9. ASSUME NEW s \in {"completed", "failed"}, Settle(s) PROVE CounterInv'
    <2>1. record' \in Records /\ record'.turns = record.turns
        BY <1>0, <1>9, StatusUpdated DEF Settle, Statuses
    <2>. QED  BY <1>0, <1>9, <2>1 DEF Settle
<1>10. CASE Finalize \/ Report
    BY <1>0, <1>10 DEF Finalize, Report
<1>11. CASE Crash
    BY <1>0, <1>11 DEF Crash
<1>12. ASSUME NEW k \in Keys, Expire(k) PROVE CounterInv'
    <2>1. finalized # "none"
        BY <1>12 DEF Expire, TtlInv
    <2>2. record' \in Records
        BY <1>12, NoRecordIsRecord DEF Expire
    <2>4. stateTurns' \in Nat /\ expiring' \subseteq expiring
          /\ UNCHANGED <<turns, child, finalized>>
        BY <1>12 DEF Expire
    <2>5. stateTurns' = stateTurns \/ "state" \in expiring
        BY <1>12 DEF Expire
    <2>6. record'.turns = record.turns \/ record'.turns = 0
        BY <1>12, NoRecordIsRecord DEF Expire
    <2>. QED  BY <1>0, <2>1, <2>2, <2>4, <2>5, <2>6
<1>13. CASE UNCHANGED vars
    BY <1>0, <1>13 DEF vars
<1>. QED  BY <1>0, <1>1, <1>2, <1>3, <1>4, <1>5, <1>6, <1>7, <1>8, <1>9, <1>10, <1>11, <1>12, <1>13, <1>14
          DEF Next, Starting, Talking, Ending

\* Wherever a child dies, the record counts no turn the state does not, and the
\* state none the transcript does not hold (agent.ts:139-154).
THEOREM CountersFollow == Spec => []CountersNeverAhead
<1>1. Init => CounterInv
    <2>. SUFFICES ASSUME Init PROVE CounterInv
        OBVIOUS
    <2>1. Written = {}
        BY DEF Init, Written
    <2>. QED  BY <2>1, NoRecordIsRecord, FS_EmptySet DEF Init, CounterInv, Speaking
<1>2. CounterInv => CountersNeverAhead
    BY DEF CounterInv, CountersNeverAhead
<1>. QED  BY <1>1, <1>2, TtlInvInit, TtlInvPreserved, OrderInvInit, OrderInvPreserved,
             CounterInvPreserved, PTL DEF Spec

-----------------------------------------------------------------------------
(* The transcript *)

\* The transcript holds what has been said, and what was read from Redis for a session
\* is what it held then; only later turns, of this dispatch, are missing.
TranscriptInv ==
    /\ said \in Seq(Nat \X Nat) /\ Range(said) \subseteq Written
    /\ seed.from = "redis" => \A i \in DOMAIN said :
          said[i][1] < dispatches => said[i] \in Range(seed.turns)

LEMMA NothingSeeded == NoSeed.from # "redis"
BY DEF NoSeed

LEMMA TranscriptInvPreserved ==
    InstructionInv /\ OrderInv /\ TranscriptInv /\ [Next]_vars => TranscriptInv'
<1>. SUFFICES ASSUME InstructionInv, OrderInv, TranscriptInv, [Next]_vars PROVE TranscriptInv'
    OBVIOUS
<1>. USE DEF TranscriptInv, Written
<1>1. CASE Dispatch
    <2>1. seed' = NoSeed
        BY <1>1 DEF Dispatch, InstructionInv
    <2>. QED  BY <1>1, <2>1, NothingSeeded DEF Dispatch
<1>2. CASE Read \/ CreateRecord \/ IndexRecord
    BY <1>2 DEF Read, CreateRecord, IndexRecord, Index
<1>3. CASE SaveSnapshot \/ SaveInstruction \/ SaveInitialState
    BY <1>3 DEF SaveSnapshot, SaveInstruction, SaveInitialState
<1>4. CASE OpenFirstSession
    <2>1. seed'.from = "config"
        BY <1>4 DEF OpenFirstSession
    <2>. QED  BY <1>4, <2>1 DEF OpenFirstSession
<1>5. CASE AppendTurn
    <2>1. PICK turn \in Nat \X Nat, e \in Entries :
              /\ turn = <<dispatches, turns + 1>> /\ said' = Append(said, turn)
              /\ Written' = Written \cup {turn}
        BY <1>5, AppendAdds
    <2>2. UNCHANGED <<seed, dispatches>> /\ dispatches \in Nat
        BY <1>5 DEF AppendTurn, OrderInv
    <2>3. turn[1] = dispatches
        BY <2>1
    <2>4. said' \in Seq(Nat \X Nat)
        BY <2>1
    <2>5. \A i \in DOMAIN said' : said'[i] = turn \/ (i \in DOMAIN said /\ said'[i] = said[i])
        BY <2>1
    <2>6. Range(said') \subseteq Written'
        <3>1. \A i \in DOMAIN said : said[i] \in Written
            BY DEF Range
        <3>. HIDE DEF Written
        <3>. QED  BY <2>1, <2>5, <3>1 DEF Range
    <2>7. ASSUME seed'.from = "redis", NEW i \in DOMAIN said', said'[i][1] < dispatches'
          PROVE  said'[i] \in Range(seed'.turns)
        <3>1. said'[i] # turn
            BY <2>2, <2>3, <2>7
        <3>. QED  BY <2>2, <2>5, <2>7, <3>1
    <2>. QED  BY <2>4, <2>6, <2>7
<1>6. CASE CountTranscript \/ SaveTurnState
    BY <1>6 DEF CountTranscript, SaveTurnState
<1>7. CASE SaveTurnRecord \/ AnnounceReconnect
    BY <1>7 DEF SaveTurnRecord, AnnounceReconnect
<1>8. CASE Reconnect
    BY <1>8, NothingSeeded DEF Reconnect
<1>9. CASE Reseed
    <2>1. UNCHANGED <<said, transcript, dispatches>>
        BY <1>9 DEF Reseed
    <2>2. ASSUME seed'.from = "redis", NEW i \in DOMAIN said PROVE said[i] \in Range(seed'.turns)
        <3>1. seed' = SourceFromRedis
            BY <1>9, <2>2 DEF Reseed
        <3>2. transcript \in Seq(Entries)
            BY DEF OrderInv
        <3>3. PICK j \in DOMAIN transcript : transcript[j].turn = said[i]
            BY <2>2 DEF Range
        <3>4. seed'.turns = [m \in DOMAIN transcript |-> transcript[m].turn]
            BY <3>1, <3>2, <3>3 DEF SourceFromRedis
        <3>5. j \in DOMAIN seed'.turns /\ seed'.turns[j] = said[i]
            BY <3>3, <3>4
        <3>. QED  BY <3>5 DEF Range
    <2>. QED  BY <2>1, <2>2
<1>10. ASSUME NEW s \in {"completed", "failed"}, Settle(s) PROVE TranscriptInv'
    BY <1>10, NothingSeeded DEF Settle
<1>11. CASE Finalize \/ Report
    BY <1>11 DEF Finalize, Report
<1>12. CASE Crash
    BY <1>12, NothingSeeded DEF Crash
<1>13. ASSUME NEW k \in Keys, Expire(k) PROVE TranscriptInv'
    <2>1. UNCHANGED <<seed, dispatches>>
        BY <1>13 DEF Expire
    <2>2. UNCHANGED <<transcript, said>> \/ (transcript' = <<>> /\ said' = <<>>)
        BY <1>13 DEF Expire
    <2>3. CASE UNCHANGED <<transcript, said>>
        BY <2>1, <2>3
    <2>4. CASE transcript' = <<>> /\ said' = <<>>
        <3>1. said' \in Seq(Nat \X Nat) /\ DOMAIN said' = {}
            BY <2>4
        <3>2. Range(said') = {}
            BY <3>1 DEF Range
        <3>. QED  BY <3>1, <3>2
    <2>. QED  BY <2>2, <2>3, <2>4
<1>14. CASE UNCHANGED vars
    BY <1>14 DEF vars
<1>. QED  BY <1>1, <1>2, <1>3, <1>4, <1>5, <1>6, <1>7, <1>8, <1>9, <1>10, <1>11, <1>12, <1>13,
             <1>14 DEF Next, Starting, Talking, Ending

\* What is read for a reseed from Redis has every turn of earlier dispatches, and the
\* transcript keeps their order (redisStore.ts:59-68, recoverySource.ts:17-41).
THEOREM ReseedKnowsEarlierDispatches == Spec => []ReseedSpansDispatches
<1>1. Init => InstructionInv /\ TranscriptInv
    <2>. SUFFICES ASSUME Init PROVE InstructionInv /\ TranscriptInv
        OBVIOUS
    <2>1. said \in Seq(Nat \X Nat) /\ DOMAIN said = {} /\ Range(said) = {}
        BY DEF Init, Range
    <2>. QED  BY <2>1, NothingSeeded DEF Init, InstructionInv, TranscriptInv
<1>2. OrderInv /\ TranscriptInv => ReseedSpansDispatches
    BY DEF OrderInv, TranscriptInv, ReseedSpansDispatches
<1>. QED  BY <1>1, <1>2, OrderInvInit, OrderInvPreserved, InstructionInvPreserved,
             TranscriptInvPreserved, PTL DEF Spec

-----------------------------------------------------------------------------
(* The lookups: what comes first in a list that may be searched *)

LEMMA SmallestIndex ==
    ASSUME NEW n \in Nat, NEW I, I \subseteq 1..n, I # {}
    PROVE  Min(I) \in I /\ \A j \in I : Min(I) <= j
<1>. DEFINE Less == {ss \in Nat \X Nat : ss[1] < ss[2]}
<1>1. IsWellFoundedOn(Less, Nat)
    BY NatLessThanWellFounded DEF OpToRel
<1>2. PICK i \in I : \A j \in I : ~(<<j, i>> \in Less)
    <2>1. I \subseteq Nat
        OBVIOUS
    <2>. HIDE DEF Less
    <2>. QED  BY <1>1, <2>1, WFMin, Zenon
<1>3. ASSUME NEW j \in I PROVE i <= j
    <2>1. i \in Nat /\ j \in Nat /\ ~(<<j, i>> \in Less)
        BY <1>2
    <2>2. j < i => <<j, i>> \in Less
        BY <2>1
    <2>. QED  BY <2>1, <2>2
<1>. QED  BY <1>3 DEF Min

\* The first text of a list of aliases, if there is one.
LEMMA FirstText ==
    ASSUME NEW S, NEW texts \in Seq(S)
    PROVE  \/ NoText(texts) /\ FirstString(texts) = "absent"
           \/ \E i \in DOMAIN texts : /\ IsText(texts[i]) /\ FirstString(texts) = texts[i]
                                      /\ \A j \in DOMAIN texts : IsText(texts[j]) => i <= j
<1>. DEFINE I == {i \in 1..Len(texts) : IsText(texts[i])}
<1>1. DOMAIN texts = 1..Len(texts) /\ Len(texts) \in Nat
    OBVIOUS
<1>2. FirstString(texts) = IF (IF I # {} THEN Min(I) ELSE 0) = 0 THEN "absent"
                           ELSE texts[IF I # {} THEN Min(I) ELSE 0]
    BY DEF FirstString, FirstWhere, SelectInSeq
<1>3. CASE I = {}
    BY <1>1, <1>2, <1>3 DEF NoText
<1>4. CASE I # {}
    <2>1. Min(I) \in I /\ \A j \in I : Min(I) <= j
        BY <1>1, <1>4, SmallestIndex
    <2>2. FirstString(texts) = texts[Min(I)]
        BY <1>1, <1>2, <1>4, <2>1
    <2>. QED  BY <1>1, <2>1, <2>2
<1>. QED  BY <1>3, <1>4

\* The first number, or the default.
LEMMA FirstNumberIs ==
    ASSUME NEW numbers \in Seq([kind : {"number", "absent", "junk"}, value : Int]), NEW default
    PROVE  \/ /\ \A i \in DOMAIN numbers : numbers[i].kind # "number"
              /\ FirstNumber(numbers, default) = default
           \/ \E i \in DOMAIN numbers :
                 /\ numbers[i].kind = "number" /\ FirstNumber(numbers, default) = numbers[i].value
                 /\ \A j \in DOMAIN numbers : numbers[j].kind = "number" => i <= j
<1>. DEFINE I == {i \in 1..Len(numbers) : numbers[i].kind = "number"}
<1>1. DOMAIN numbers = 1..Len(numbers) /\ Len(numbers) \in Nat
    OBVIOUS
<1>2. FirstNumber(numbers, default) = IF (IF I # {} THEN Min(I) ELSE 0) = 0 THEN default
                                      ELSE numbers[IF I # {} THEN Min(I) ELSE 0].value
    BY DEF FirstNumber, SelectInSeq
<1>3. CASE I = {}
    BY <1>1, <1>2, <1>3
<1>4. CASE I # {}
    <2>1. Min(I) \in I /\ \A j \in I : Min(I) <= j
        BY <1>1, <1>4, SmallestIndex
    <2>2. FirstNumber(numbers, default) = numbers[Min(I)].value
        BY <1>1, <1>2, <1>4, <2>1
    <2>. QED  BY <1>1, <2>1, <2>2
<1>. QED  BY <1>3, <1>4

\* The source that wins is the first that parses.
LEMMA WinnerParsed ==
    ASSUME context \in Contexts
    PROVE  /\ \A i \in DOMAIN context : FirstParsed(i) => Winner(context) = context[i]
           /\ Winner(context) # "absent" =>
                 \E i \in DOMAIN context : FirstParsed(i) /\ Winner(context) = context[i]
<1>. DEFINE I == {i \in 1..Len(context) : IsDocument(context[i])}
<1>1. /\ DOMAIN context = 1..Len(context) /\ Len(context) \in Nat
      /\ \A i \in DOMAIN context : IsDocument(context[i]) <=> context[i] \in DOMAIN Documents
    BY JobStartAssumption DEF IsDocument
<1>2. Winner(context) = IF (IF I # {} THEN Min(I) ELSE 0) = 0 THEN "absent"
                        ELSE context[IF I # {} THEN Min(I) ELSE 0]
    BY DEF Winner, FirstWhere, SelectInSeq
<1>3. \A i \in DOMAIN context : FirstParsed(i) <=> i \in I /\ \A j \in I : i <= j
    BY <1>1 DEF FirstParsed
<1>4. CASE I = {}
    BY <1>2, <1>3, <1>4
<1>5. CASE I # {}
    <2>1. Min(I) \in I /\ \A j \in I : Min(I) <= j
        BY <1>1, <1>5, SmallestIndex
    <2>2. Winner(context) = context[Min(I)]
        BY <1>1, <1>2, <1>5, <2>1
    <2>3. \A i \in I : (\A j \in I : i <= j) => i = Min(I)
        BY <1>1, <2>1
    <2>. QED  BY <1>1, <1>3, <2>1, <2>2, <2>3
<1>. QED  BY <1>4, <1>5

-----------------------------------------------------------------------------
(* The admission *)

LEMMA FirstTextType ==
    ASSUME NEW S, NEW texts \in Seq(S)
    PROVE  /\ IsText(FirstString(texts)) <=> ~NoText(texts)
           /\ FirstString(texts) # "absent" <=> ~NoText(texts)
<1>1. CASE NoText(texts) /\ FirstString(texts) = "absent"
    <2>1. ~IsText(FirstString(texts)) /\ FirstString(texts) = "absent"
        BY <1>1 DEF IsText
    <2>. QED  BY <1>1, <2>1
<1>2. ASSUME NEW i \in DOMAIN texts, IsText(texts[i]), FirstString(texts) = texts[i]
      PROVE  IsText(FirstString(texts)) /\ ~NoText(texts) /\ FirstString(texts) # "absent"
    <2>1. ~NoText(texts) /\ texts[i] # "absent"
        BY <1>2 DEF NoText, IsText
    <2>. QED  BY <1>2, <2>1
<1>. QED  BY <1>1, <1>2, FirstText

LEMMA InterviewNamed ==
    ASSUME NEW doc, WellFormed(doc)
    PROVE  (FirstString(doc.interviewId) # "absent") <=> ~NoText(doc.interviewId)
BY FirstTextType DEF WellFormed

LEMMA InstructionGiven ==
    ASSUME NEW doc, WellFormed(doc)
    PROVE  (SystemInstruction(doc) # "absent")
              <=> ~(NoText(doc.instruction) /\ NoText(doc.dataInstruction))
<1>. DEFINE top == TopInstruction(doc)
            data == DataInstruction(doc)
            both == <<top, data>>
<1>1. doc.instruction \in Seq(STRING) /\ doc.dataInstruction \in Seq(STRING)
    BY DEF WellFormed
<1>2. (IsText(top) <=> ~NoText(doc.instruction)) /\ (IsText(data) <=> ~NoText(doc.dataInstruction))
    BY <1>1, FirstTextType DEF TopInstruction, DataInstruction
<1>. HIDE DEF top, data
<1>3. both \in Seq({top, data}) /\ Len(both) = 2 /\ both[1] = top /\ both[2] = data
    OBVIOUS
<1>4. NoText(both) <=> ~IsText(top) /\ ~IsText(data)
    BY <1>3 DEF NoText
<1>5. SystemInstruction(doc) = FirstString(both)
    BY DEF SystemInstruction, top, data
<1>. HIDE DEF both
<1>6. (FirstString(both) # "absent") <=> ~NoText(both)
    BY <1>3, FirstTextType
<1>. QED  BY <1>2, <1>4, <1>5, <1>6

LEMMA DurationPositive ==
    ASSUME NEW doc, WellFormed(doc)
    PROVE  DurationMins(doc) > 0 <=>
              ~ \E i \in DOMAIN doc.duration :
                    /\ doc.duration[i].kind = "number" /\ doc.duration[i].value <= 0
                    /\ \A j \in 1..(i - 1) : doc.duration[j].kind # "number"
<1>. DEFINE numbers == doc.duration
            first(i) == /\ numbers[i].kind = "number"
                        /\ \A j \in 1..(i - 1) : numbers[j].kind # "number"
<1>1. numbers \in Seq([kind : {"number", "absent", "junk"}, value : Int])
    BY DEF WellFormed
<1>2. /\ DOMAIN numbers = 1..Len(numbers) /\ Len(numbers) \in Nat
      /\ \A i \in DOMAIN numbers : numbers[i].value \in Int
    <2>. HIDE DEF numbers
    <2>1. DOMAIN numbers = 1..Len(numbers) /\ Len(numbers) \in Nat
        BY <1>1
    <2>. DEFINE Number == [kind : {"number", "absent", "junk"}, value : Int]
    <2>2. \A i \in DOMAIN numbers : numbers[i] \in Number
        <3>1. numbers \in Seq(Number)
            BY <1>1
        <3>. HIDE DEF Number
        <3>. QED  BY <3>1
    <2>. QED  BY <2>1, <2>2
<1>3. DurationMins(doc) = FirstNumber(numbers, 30)
    BY DEF DurationMins
<1>. HIDE DEF numbers
<1>4. ASSUME NEW i \in DOMAIN numbers,
             numbers[i].kind = "number", FirstNumber(numbers, 30) = numbers[i].value,
             \A j \in DOMAIN numbers : numbers[j].kind = "number" => i <= j
      PROVE  /\ first(i) /\ \A k \in DOMAIN numbers : first(k) => k = i
             /\ DurationMins(doc) > 0 <=> ~(numbers[i].value <= 0)
    <2>1. first(i)
        BY <1>2, <1>4
    <2>2. \A k \in DOMAIN numbers : first(k) => k = i
        BY <1>2, <1>4
    <2>3. DurationMins(doc) > 0 <=> ~(numbers[i].value <= 0)
        BY <1>2, <1>3, <1>4
    <2>. QED  BY <2>1, <2>2, <2>3
<1>5. ASSUME NEW i \in DOMAIN numbers, first(i), \A k \in DOMAIN numbers : first(k) => k = i
      PROVE  (\E k \in DOMAIN numbers : first(k) /\ numbers[k].value <= 0)
                <=> numbers[i].value <= 0
    BY <1>5
<1>6. ASSUME NEW i \in DOMAIN numbers, numbers[i].kind = "number",
             FirstNumber(numbers, 30) = numbers[i].value,
             \A j \in DOMAIN numbers : numbers[j].kind = "number" => i <= j
      PROVE  DurationMins(doc) > 0 <=> ~ \E k \in DOMAIN numbers : first(k) /\ numbers[k].value <= 0
    <2>. HIDE DEF first
    <2>. QED  BY <1>4, <1>5, <1>6
<1>7. DurationMins(doc) > 0 <=> ~ \E k \in DOMAIN numbers : first(k) /\ numbers[k].value <= 0
    <2>1. (\A i \in DOMAIN numbers : numbers[i].kind # "number")
             => ~ \E k \in DOMAIN numbers : first(k) /\ numbers[k].value <= 0
        OBVIOUS
    <2>2. CASE /\ \A i \in DOMAIN numbers : numbers[i].kind # "number"
               /\ FirstNumber(numbers, 30) = 30
        <3>1. DurationMins(doc) > 0
            BY <1>3, <2>2
        <3>. QED  BY <2>1, <2>2, <3>1
    <2>. HIDE DEF first
    <2>. QED  BY <1>1, <1>6, <2>2, FirstNumberIs
<1>. QED  BY <1>7 DEF numbers, first

\* The first alias that holds a text says which provider is asked for.
Named(doc) == {i \in DOMAIN doc.provider : IsText(doc.provider[i])}

AsksOpenai(doc) ==
    \E i \in Named(doc) : doc.provider[i] = "openai" /\ \A j \in Named(doc) : i <= j

AsksGoogle(doc) ==
    \/ Named(doc) = {}
    \/ \E i \in Named(doc) : /\ doc.provider[i] \in {"google", "gemini"}
                             /\ \A j \in Named(doc) : i <= j

LEMMA ProviderAsked ==
    ASSUME NEW doc, WellFormed(doc)
    PROVE  /\ Provider(doc) = "openai" <=> AsksOpenai(doc)
           /\ Provider(doc) = "google" <=> AsksGoogle(doc)
           /\ Provider(doc) \in {"openai", "google", "unsupported"}
<1>1. doc.provider \in Seq(STRING) /\ \A i \in DOMAIN doc.provider : i \in Int
    <2>1. doc.provider \in Seq(STRING)
        BY DEF WellFormed
    <2>2. \A texts \in Seq(STRING) : \A i \in DOMAIN texts : i \in Int
        OBVIOUS
    <2>. QED  BY <2>1, <2>2
<1>2. CASE NoText(doc.provider) /\ FirstString(doc.provider) = "absent"
    <2>1. Named(doc) = {}
        BY <1>2 DEF NoText, Named
    <2>2. Provider(doc) = "google"
        BY <1>2 DEF Provider, ProviderNamed, Or
    <2>. QED  BY <2>1, <2>2 DEF AsksOpenai, AsksGoogle
<1>3. ASSUME NEW i \in DOMAIN doc.provider,
             IsText(doc.provider[i]), FirstString(doc.provider) = doc.provider[i],
             \A j \in DOMAIN doc.provider : IsText(doc.provider[j]) => i <= j
      PROVE  /\ Provider(doc) = "openai" <=> AsksOpenai(doc)
             /\ Provider(doc) = "google" <=> AsksGoogle(doc)
             /\ Provider(doc) \in {"openai", "google", "unsupported"}
    <2>1. i \in Named(doc) /\ \A j \in Named(doc) : i <= j
        BY <1>3 DEF Named
    <2>2. \A k \in Named(doc) : (\A j \in Named(doc) : k <= j) => k = i
        <3>1. \A k \in Named(doc) : k \in Int
            BY <1>1 DEF Named
        <3>. QED  BY <2>1, <3>1
    <2>3. Provider(doc) = ProviderNamed(doc.provider[i])
        BY <1>3 DEF Provider, Or, IsText
    <2>4. /\ AsksOpenai(doc) <=> doc.provider[i] = "openai"
          /\ AsksGoogle(doc) <=> doc.provider[i] \in {"google", "gemini"}
        BY <2>1, <2>2 DEF AsksOpenai, AsksGoogle
    <2>. QED  BY <2>3, <2>4 DEF ProviderNamed
<1>. QED  BY <1>1, <1>2, <1>3, FirstText

LEMMA ProviderCredentials ==
    ASSUME NEW doc, WellFormed(doc)
    PROVE  Provider(doc) # "unsupported" /\ ProviderAllowed(Config(doc, env), env)
              <=> \/ AsksOpenai(doc) /\ IsText(env.openaiApiKey)
                  \/ AsksGoogle(doc) /\ IsText(env.googleApiKey)
                  \/ /\ AsksGoogle(doc) /\ env.googleVertexai \in {"true", "TRUE"}
                     /\ IsText(env.googleProject)
<1>1. Config(doc, env).model_provider = Provider(doc)
    BY DEF Config
<1>2. VertexAuth(env) <=> env.googleVertexai \in {"true", "TRUE"} /\ IsText(env.googleProject)
    BY DEF VertexAuth, BoolOr, IsText
<1>. QED  BY <1>1, <1>2, ProviderAsked DEF ProviderAllowed, OpenaiAllowed, GoogleAllowed

LEMMA FlagsAccepted ==
    ASSUME NEW doc, WellFormed(doc)
    PROVE  EnableRecording(doc) \in {"absent", "true", "false"}
           /\ doc.audioOnly \in {"absent", "true", "false"}
              <=> {doc.enableRecording, doc.audioOnly} \cap {"junk", "text true", "text false"} = {}
<1>1. \A v : Booleanish(v) \in {"absent", "true", "false"}
    BY DEF Booleanish
<1>2. EnableRecording(doc) \in {"absent", "true", "false"}
         <=> doc.enableRecording \in {"absent", "true", "false"}
    BY <1>1 DEF EnableRecording
<1>3. /\ doc.enableRecording \in {"absent", "true", "false", "text true", "text false", "junk"}
      /\ doc.audioOnly \in {"absent", "true", "false", "text true", "text false", "junk"}
    BY DEF WellFormed
<1>. QED  BY <1>2, <1>3

\* A document is accepted unless there is a cause to refuse it.
LEMMA AcceptedUnlessUnusable ==
    ASSUME NEW doc, WellFormed(doc)
    PROVE  Accepted(doc, env) <=> ~Unusable(doc)
<1>1. Unusable(doc) <=>
        \/ NoText(doc.interviewId)
        \/ NoText(doc.instruction) /\ NoText(doc.dataInstruction)
        \/ ~(DurationMins(doc) > 0)
        \/ doc.interviewData = "junk" \/ doc.questions = "junk"
        \/ ~(EnableRecording(doc) \in {"absent", "true", "false"}
             /\ doc.audioOnly \in {"absent", "true", "false"})
        \/ ~(Provider(doc) # "unsupported" /\ ProviderAllowed(Config(doc, env), env))
    <2>1. (\E i \in DOMAIN doc.duration :
              /\ doc.duration[i].kind = "number" /\ doc.duration[i].value <= 0
              /\ \A j \in 1..(i - 1) : doc.duration[j].kind # "number")
             <=> ~(DurationMins(doc) > 0)
        BY DurationPositive
    <2>2. ({doc.enableRecording, doc.audioOnly} \cap {"junk", "text true", "text false"} # {})
             <=> ~(EnableRecording(doc) \in {"absent", "true", "false"}
                   /\ doc.audioOnly \in {"absent", "true", "false"})
        BY FlagsAccepted
    <2>3. (/\ ~(AsksOpenai(doc) /\ IsText(env.openaiApiKey))
           /\ ~(AsksGoogle(doc) /\ IsText(env.googleApiKey))
           /\ ~(AsksGoogle(doc) /\ env.googleVertexai \in {"true", "TRUE"}
                /\ IsText(env.googleProject)))
             <=> ~(Provider(doc) # "unsupported" /\ ProviderAllowed(Config(doc, env), env))
        BY ProviderCredentials
    <2>4. ("junk" \in {doc.interviewData, doc.questions})
             <=> doc.interviewData = "junk" \/ doc.questions = "junk"
        OBVIOUS
    <2>. QED  BY <2>1, <2>2, <2>3, <2>4, Zenon DEF Unusable, AsksOpenai, AsksGoogle, Named
<1>. QED  BY <1>1, InterviewNamed, InstructionGiven
          DEF Accepted, ConfigResolves, InterviewDataParses, SchemaAccepts

\* What is accepted is whole, whatever the document leaves out.
LEMMA AcceptedIsWhole ==
    ASSUME NEW doc, WellFormed(doc), Accepted(doc, env)
    PROVE  Whole(Config(doc, env))
<1>1. \A v : IsText(v) => v # "absent"
    BY DEF IsText
<1>2. IsText(ParticipantId(doc))
    <2>. DEFINE ids == Append(doc.participantId, StudentId(doc))
    <2>1. ids \in Seq(STRING \cup {StudentId(doc)})
        <3>1. doc.participantId \in Seq(STRING)
            BY DEF WellFormed
        <3>2. doc.participantId \in Seq(STRING \cup {StudentId(doc)})
            BY <3>1
        <3>. QED  BY <3>2
    <2>2. IsText(FirstString(ids)) \/ FirstString(ids) = "absent"
        BY <2>1, FirstTextType
    <2>3. IsText("participant")
        BY DEF IsText
    <2>4. ParticipantId(doc) = IF FirstString(ids) = "absent" THEN "participant" ELSE FirstString(ids)
        BY DEF ParticipantId, Or
    <2>. HIDE DEF ids
    <2>. QED  BY <2>2, <2>3, <2>4
<1>3. IsText(Model(doc, env))
    <2>1. \A v : IsText(NullableString(v)) \/ NullableString(v) = "absent"
        BY DEF NullableString
    <2>2. IsText("gpt-realtime-2") /\ IsText("gemini-3.8-live")
        BY DEF IsText
    <2>3. IsText(DefaultModel(Provider(doc), env))
        BY <2>1, <2>2 DEF DefaultModel, Or
    <2>4. IsText(FirstString(doc.modelName)) \/ FirstString(doc.modelName) = "absent"
        BY FirstTextType DEF WellFormed
    <2>. QED  BY <2>3, <2>4 DEF Model, Or
<1>4. StudentId(doc) # "absent" => IsText(StudentId(doc))
    BY DEF StudentId, NullableString
<1>5. StudentName(doc) # "absent"
    <2>1. ParticipantName(doc) # "absent"
        BY DEF ParticipantName, Or
    <2>. QED  BY <1>1, <2>1 DEF StudentName
<1>6. DurationMins(doc) > 0
    BY DEF Accepted, ConfigResolves, SchemaAccepts
<1>7. RecordingPolicy(doc, env).required => BoolOr(env.recordingRequired, FALSE)
    BY DEF RecordingPolicy, BoolOr, IsText
<1>. DEFINE cfg == Config(doc, env)
<1>8. /\ cfg.participant_id = ParticipantId(doc) /\ cfg.model = Model(doc, env)
      /\ cfg.student_id = StudentId(doc) /\ cfg.duration_minutes = DurationMins(doc)
      /\ cfg.recovery_snapshot = RecoverySnapshot(doc) /\ cfg.recording = RecordingPolicy(doc, env)
    BY DEF Config
<1>9. cfg.recovery_snapshot.candidate = StudentName(doc)
    BY <1>8 DEF RecoverySnapshot
<1>. HIDE DEF cfg
<1>10. Whole(cfg)
    BY <1>2, <1>3, <1>4, <1>5, <1>6, <1>7, <1>8, <1>9 DEF Whole
<1>. QED  BY <1>10 DEF cfg

\* A job is past its admission only with a document that was its first to parse; it is
\* rejected only if that document, or the lack of one, is why; and a first dispatch that
\* is being read or was rejected has found Redis empty and left it so.
AdmissionInv ==
    /\ context \in Contexts /\ dispatches \in Nat
    /\ child = "none" \/ dispatches > 0
    /\ dispatches = 0 \/ (dispatches = 1 /\ child \in {"reading", "rejected"}) =>
          present = {} /\ ~listed
    /\ child = "rejected" =>
          \A i \in DOMAIN context : FirstParsed(i) => Unusable(Documents[context[i]])
    /\ child \notin {"none", "reading", "rejected"} =>
          \E i \in DOMAIN context : /\ FirstParsed(i) /\ document = context[i]
                                    /\ Accepted(Documents[document], env)

\* The sources and the environment decide what a dispatch is admitted with, and while
\* it lasts neither changes.
LEMMA SameDispatch ==
    ASSUME AdmissionInv, UNCHANGED <<context, env, document, dispatches>>,
           child' = "rejected" => child = "rejected" /\ present' \subseteq present /\ listed' = listed,
           child' = "reading" => child = "reading" /\ present' \subseteq present /\ listed' = listed,
           child' = "none" => child = "none" /\ present' \subseteq present /\ listed' = listed,
           child \in {"none", "reading", "rejected"} => child' = child
    PROVE  AdmissionInv'
<1>1. \A i : FirstParsed(i)' = FirstParsed(i)
    BY DEF FirstParsed
<1>2. \A i \in DOMAIN context : Unusable(Documents[context[i]])' = Unusable(Documents[context[i]])
    BY DEF Unusable
<1>. QED  BY <1>1, <1>2 DEF AdmissionInv

LEMMA AdmissionInvInit == Init => AdmissionInv
BY DEF Init, AdmissionInv

\* The one step that admits or rejects.
LEMMA ReadAdmits == AdmissionInv /\ Read => AdmissionInv'
<1>. SUFFICES ASSUME AdmissionInv, Read PROVE AdmissionInv'
    OBVIOUS
<1>. DEFINE w == Winner(context)
<1>1. /\ child = "reading" /\ UNCHANGED <<dispatches, env, context, present, listed>>
      /\ IF w # "absent" /\ Accepted(Documents[w], env)
         THEN child' = "creating" /\ document' = w
         ELSE child' = "rejected" /\ UNCHANGED document
    BY DEF Read
<1>2. \A i : FirstParsed(i)' = FirstParsed(i)
    BY <1>1 DEF FirstParsed
<1>3. \A i \in DOMAIN context : Unusable(Documents[context[i]])' = Unusable(Documents[context[i]])
    BY <1>1 DEF Unusable
<1>4. /\ \A i \in DOMAIN context : FirstParsed(i) => w = context[i]
      /\ w # "absent" => \E i \in DOMAIN context : FirstParsed(i) /\ w = context[i]
    BY WinnerParsed DEF AdmissionInv
<1>5. ASSUME NEW i \in DOMAIN context, FirstParsed(i)
      PROVE  /\ w = context[i] /\ w # "absent"
             /\ Accepted(Documents[w], env) <=> ~Unusable(Documents[context[i]])
    <2>1. w = context[i] /\ w \in DOMAIN Documents
        BY <1>4, <1>5 DEF FirstParsed
    <2>2. w # "absent" /\ WellFormed(Documents[w])
        BY <2>1, JobStartAssumption
    <2>3. Accepted(Documents[w], env) <=> ~Unusable(Documents[w])
        BY <2>2, AcceptedUnlessUnusable
    <2>. QED  BY <2>1, <2>2, <2>3
<1>. HIDE DEF w
<1>6. CASE w # "absent" /\ Accepted(Documents[w], env)
    BY <1>1, <1>2, <1>4, <1>6 DEF AdmissionInv
<1>7. CASE ~(w # "absent" /\ Accepted(Documents[w], env))
    <2>1. \A i \in DOMAIN context : FirstParsed(i) => Unusable(Documents[context[i]])
        BY <1>5, <1>7
    <2>. QED  BY <1>1, <1>2, <1>3, <1>7, <2>1 DEF AdmissionInv
<1>. QED  BY <1>6, <1>7

LEMMA AdmissionInvPreserved == AdmissionInv /\ [Next]_vars => AdmissionInv'
<1>. SUFFICES ASSUME AdmissionInv, [Next]_vars PROVE AdmissionInv'
    OBVIOUS
<1>1. CASE Dispatch
    <2>1. /\ child' = "reading" /\ dispatches' = dispatches + 1 /\ UNCHANGED <<present, listed>>
          /\ child = "none"
        BY <1>1 DEF Dispatch
    <2>2. context' \in Contexts
        BY <1>1, JobStartAssumption DEF Dispatch, AdmissionInv
    <2>3. dispatches \in Nat /\ (dispatches = 0 => present = {} /\ ~listed)
        BY DEF AdmissionInv
    <2>4. dispatches' \in Nat /\ dispatches' > 0 /\ (dispatches' = 1 => dispatches = 0)
        BY <2>1, <2>3
    <2>. QED  BY <2>1, <2>2, <2>3, <2>4 DEF AdmissionInv
<1>2. CASE Read
    BY <1>2, ReadAdmits
<1>3. CASE Crash
    <2>1. /\ child' = "none" /\ UNCHANGED <<dispatches, context>>
          /\ child \notin {"none", "rejected", "ended"}
        BY <1>3 DEF Crash, Alive
    <2>2. dispatches' \in Nat /\ dispatches' # 0
        BY <2>1 DEF AdmissionInv
    <2>. QED  BY <2>1, <2>2 DEF AdmissionInv
<1>4. CASE CreateRecord \/ IndexRecord \/ SaveSnapshot \/ SaveInstruction \/ SaveInitialState
           \/ OpenFirstSession
    BY <1>4, SameDispatch DEF CreateRecord, IndexRecord, Index, SaveSnapshot, SaveInstruction,
                              SaveInitialState, OpenFirstSession
<1>5. CASE CountTranscript \/ AppendTurn \/ SaveTurnState \/ SaveTurnRecord \/ Reconnect
           \/ AnnounceReconnect \/ Reseed
    BY <1>5, SameDispatch DEF CountTranscript, AppendTurn, SaveTurnState, SaveTurnRecord, Reconnect,
                              AnnounceReconnect, Reseed
<1>6. ASSUME NEW s \in {"completed", "failed"}, Settle(s) PROVE AdmissionInv'
    BY <1>6, SameDispatch DEF Settle
<1>7. CASE Finalize \/ Report
    BY <1>7, SameDispatch DEF Finalize, Report
<1>8. ASSUME NEW k \in Keys, Expire(k) PROVE AdmissionInv'
    <2>1. present' \subseteq present /\ UNCHANGED <<childVars, listed>>
        BY <1>8 DEF Expire
    <2>. QED  BY <2>1, SameDispatch
<1>9. CASE UNCHANGED vars
    <2>1. present' \subseteq present /\ UNCHANGED <<childVars, listed>>
        BY <1>9 DEF vars
    <2>. QED  BY <2>1, SameDispatch
<1>. QED  BY <1>1, <1>2, <1>3, <1>4, <1>5, <1>6, <1>7, <1>8, <1>9
          DEF Next, Starting, Talking, Ending

\* Whatever the documents, the sources and the environment: a job is admitted exactly
\* when its first source that parses describes an interview the environment can hold,
\* what it is admitted with is whole, and a rejected one has written nothing
\* (agent.ts:57-60, metadata.ts:29-83, resolveConfig.ts:121-331).
THEOREM AdmittedExactly == Spec => []AdmissionIsExact
<1>1. AdmissionInv => AdmissionIsExact
    <2>. SUFFICES ASSUME AdmissionInv PROVE AdmissionIsExact
        OBVIOUS
    <2>1. ASSUME NEW i \in DOMAIN context, FirstParsed(i), document = context[i],
                 Accepted(Documents[document], env)
          PROVE  ~Unusable(Documents[context[i]]) /\ Whole(Cfg)
        <3>1. WellFormed(Documents[document])
            BY <2>1, JobStartAssumption DEF FirstParsed
        <3>. QED  BY <2>1, <3>1, AcceptedUnlessUnusable, AcceptedIsWhole DEF Cfg
    <2>2. child \notin {"none", "reading", "rejected"} =>
              \E i \in DOMAIN context : /\ FirstParsed(i) /\ document = context[i]
                                        /\ ~Unusable(Documents[context[i]]) /\ Whole(Cfg)
        BY <2>1 DEF AdmissionInv
    <2>3. child = "rejected" /\ dispatches = 1 => present = {} /\ ~listed
        BY DEF AdmissionInv
    <2>4. child = "rejected" =>
              \A i \in DOMAIN context : FirstParsed(i) => Unusable(Documents[context[i]])
        BY DEF AdmissionInv
    <2>. QED  BY <2>2, <2>3, <2>4 DEF AdmissionIsExact
<1>. QED  BY <1>1, AdmissionInvInit, AdmissionInvPreserved, PTL DEF Spec

=============================================================================
