-------------------------- MODULE BenchTurnsProofs --------------------------
(***************************************************************************)
(* For any number of turns and either harness: a timer or a close ends no  *)
(* wait but its own turn's, and as long as nothing goes wrong a row shows  *)
(* its turn's own content and its own usage.                               *)
(***************************************************************************)
EXTENDS BenchTurns, TLAPS, NaturalsInduction, WellFoundedInduction

USE DEF timerVars, connectionVars, serverVars

-----------------------------------------------------------------------------
(* The invariant *)

TurnRecords ==
    [id : Nat, first : Nat, usage : Nat, complete : BOOLEAN, counted : BOOLEAN]
Kinds == {"begin", "usage", "complete"}
Messages == [of : Nat, kind : Kinds]

TypeOK ==
    /\ harness \in Harnesses
    /\ driver \in {"resting", "speaking", "waiting", "connecting", "done"}
    /\ started \in 0..(Turns + 1) /\ turn \in TurnRecords /\ waiter \in Nat
    /\ watchdogs \in SUBSET Nat /\ graces \in [AllTurns -> Nat]
    /\ epoch \in Connections /\ connections \in SUBSET Connections
    /\ sessionClosed \in BOOLEAN
    /\ due \in [Connections -> Seq(Messages)] /\ answered \in SUBSET Nat
    /\ disturbed \in BOOLEAN

\* A turn is open from the call of speakTurn to its end, and is the one last started;
\* only while the loop waits are a resolver and a watchdog set, and they are that turn's.
WaitInv ==
    /\ driver = "waiting" => waiter = turn.id
    /\ driver # "waiting" => waiter = 0
    /\ driver \in {"speaking", "waiting"} => turn.id = started /\ started \in AllTurns
    /\ driver \notin {"speaking", "waiting"} => turn = NoTurn
    /\ watchdogs = {} \/ (driver = "waiting" /\ watchdogs = {turn.id})
    /\ epoch = 1 => started <= Turns
    /\ driver = "connecting" => epoch = 2 /\ started = Turns

Told(kinds) == Answer(started, kinds)
Given(first, usage, complete) ==
    [id |-> started, first |-> first, usage |-> usage, complete |-> complete,
     counted |-> usage # 0]
Begun == Given(started, 0, FALSE)
Counted == Given(started, started, FALSE)
Closed == Given(started, 0, TRUE)

\* What the open turn has been given of its answer and what is on its way are the
\* whole answer.
Rests ==
    IF started \in answered
    THEN \/ turn = NewTurn(started) /\ \E kinds \in WholeAnswers : due[epoch] = Told(kinds)
         \/ turn = Begun /\ due[epoch] = Told(<<"usage", "complete">>)
         \/ turn = Counted /\ due[epoch] = Told(<<"complete">>)
         \/ harness = "raw" /\ turn = Begun /\ due[epoch] = Told(<<"complete", "usage">>)
         \/ turn = Closed /\ due[epoch] = Told(<<"usage">>)
    ELSE turn = NewTurn(started) /\ due[epoch] = <<>>

\* As long as nothing goes wrong, nothing is on its way but the answer that the loop
\* waits for.
Calm ==
    /\ row.cause = "complete" /\ row.first = row.turn /\ row.usage = row.turn
    /\ \A c \in Connections \ {epoch} : due[c] = <<>>
    /\ \A t \in answered : t <= started
    /\ driver = "waiting" => Rests
    /\ driver = "speaking" =>
          turn = NewTurn(started) /\ due[epoch] = <<>> /\ started \notin answered
    /\ driver \notin {"waiting", "speaking"} =>
          due[epoch] = <<>> /\ (started = 0 \/ started \in answered)

CalmInv == ~disturbed => Calm

-----------------------------------------------------------------------------
(* The end of a turn *)

\* A new turn is a record of a turn.
LEMMA NewTurnType ==
    ASSUME NEW t \in Nat
    PROVE  NewTurn(t) \in TurnRecords /\ NewTurn(t).id = t
BY DEF NewTurn, TurnRecords

\* An end of the wait leaves neither resolver nor watchdog nor turn.
LEMMA EndedWait ==
    ASSUME TypeOK, WaitInv, waiter # 0, NEW cause, NEW of, NEW t,
           EndTurn(cause, of, t), UNCHANGED <<started, epoch>>
    PROVE  /\ WaitInv'
           /\ driver' = "resting" /\ turn' \in TurnRecords /\ waiter' \in Nat
           /\ watchdogs' \in SUBSET Nat
           /\ row' = [turn |-> t.id, cause |-> cause, of |-> of, first |-> t.first,
                      usage |-> t.usage]
<1>1. driver = "waiting" /\ waiter = turn.id
  BY DEF WaitInv
<1>2. watchdogs' = {}
  BY <1>1 DEF WaitInv, EndTurn, WatchdogsLeft
<1>3. driver' = "resting" /\ waiter' = 0 /\ turn' = NoTurn
  BY DEF EndTurn
<1>4. WaitInv'
  BY <1>2, <1>3 DEF WaitInv
<1>5. turn' \in TurnRecords
  BY <1>3, NewTurnType DEF NoTurn
<1> QED
  BY <1>2, <1>3, <1>4, <1>5 DEF EndTurn

\* A handler that leaves the open turn as t keeps the types and the wait; if a timer's
\* ends the turn, then in the turn's own name.
LEMMA SeenWait ==
    ASSUME TypeOK, WaitInv, EndedByItsOwn, turn # NoTurn,
           NEW t \in TurnRecords, t.id = turn.id,
           NEW cause, NEW of, cause = "complete" \/ of = t.id,
           TurnSeen(t) \/ MaybeFinishTurn(cause, of, t), UNCHANGED <<started, epoch>>
    PROVE  /\ WaitInv' /\ EndedByItsOwn'
           /\ driver' \in {"resting", "speaking", "waiting"} /\ turn' \in TurnRecords
           /\ waiter' \in Nat /\ watchdogs' \in SUBSET Nat
<1>1. driver \in {"speaking", "waiting"}
  BY DEF WaitInv
<1>2. CASE EndTurn(cause, of, t) /\ waiter # 0
  <2>1. row' = [turn |-> t.id, cause |-> cause, of |-> of, first |-> t.first, usage |-> t.usage]
    BY <1>2 DEF EndTurn
  <2>2. EndedByItsOwn'
    BY <2>1 DEF EndedByItsOwn
  <2> QED
    BY <1>2, <2>2, EndedWait
<1>3. CASE TurnSeen(t)
  <2>1. turn' = t /\ UNCHANGED <<row, driver, waiter, watchdogs>>
    BY <1>3 DEF TurnSeen
  <2>2. WaitInv'
    BY <1>1, <2>1 DEF WaitInv, AllTurns
  <2> QED
    BY <1>1, <2>1, <2>2 DEF EndedByItsOwn, TypeOK
<1> QED
  BY <1>2, <1>3 DEF MaybeFinishTurn

-----------------------------------------------------------------------------
(* The messages *)

\* What the server says in answer to a turn.
LEMMA AnswerType ==
    ASSUME NEW of \in Nat, NEW kinds \in Seq(Kinds)
    PROVE  Answer(of, kinds) \in Seq(Messages)
<1> DEFINE M(i) == [of |-> of, kind |-> kinds[i]]
<1>1. DOMAIN kinds = 1..Len(kinds) /\ Len(kinds) \in Nat
  OBVIOUS
<1>2. \A i \in 1..Len(kinds) : M(i) \in Messages
  BY DEF Messages
<1>3. Answer(of, kinds) = [i \in 1..Len(kinds) |-> M(i)]
  BY <1>1 DEF Answer
<1> HIDE DEF M
<1> QED
  BY <1>1, <1>2, <1>3

\* The lists the server may answer with.
LEMMA AnswerKinds ==
    ASSUME NEW kinds \in WholeAnswers \cup {<<"begin", "complete">>}
    PROVE  kinds \in Seq(Kinds)
<1>1. \/ kinds = <<"begin", "usage", "complete">>
      \/ kinds = <<"begin", "complete", "usage">>
      \/ kinds = <<"begin", "complete">>
  <2>1. WholeAnswers \subseteq {<<"begin", "usage", "complete">>, <<"begin", "complete", "usage">>}
    BY Zenon DEF WholeAnswers
  <2> QED
    BY <2>1, Zenon
<1>2. "begin" \in Kinds /\ "usage" \in Kinds /\ "complete" \in Kinds
  BY DEF Kinds
<1>3. \A a, b \in Kinds : <<a, b>> \in Seq(Kinds)
  OBVIOUS
<1>4. \A a, b, c \in Kinds : <<a, b, c>> \in Seq(Kinds)
  OBVIOUS
<1> QED
  BY <1>1, <1>2, <1>3, <1>4

\* The first place where a condition holds is a place of the sequence.
LEMMA FirstPlace ==
    ASSUME NEW S, NEW s \in Seq(S), NEW I \in SUBSET (1..Len(s)), I # {}
    PROVE  Min(I) \in I
<1>1. PICK n \in I : \A k \in I : ~(k < n)
  <2>1. IsWellFoundedOn(OpToRel(<, Nat), Nat)
    BY NatLessThanWellFounded
  <2>2. I \subseteq Nat
    OBVIOUS
  <2> DEFINE R == OpToRel(<, Nat)
  <2>3. \A k, n \in Nat : k < n => <<k, n>> \in R
    BY DEF OpToRel
  <2>4. PICK n \in I : \A k \in Nat : <<k, n>> \in R => k \notin I
    <3> HIDE DEF R
    <3> QED
      BY <2>1, <2>2, WFMin, Zenon DEF R
  <2> QED
    BY <2>2, <2>3, <2>4
<1>2. \A k \in I : n =< k
  BY <1>1
<1> QED
  BY <1>1, <1>2 DEF Min

\* What remains of a queue is still a queue.
LEMMA RemainingType ==
    ASSUME NEW queue \in Seq(Messages), queue # <<>>
    PROVE  Remaining(queue) \in Seq(Messages)
<1> DEFINE rest == Tail(queue)
           Closes(m) == m.kind = "complete"
           I == {i \in 1..Len(rest) : Closes(rest[i])}
<1>1. rest \in Seq(Messages)
  OBVIOUS
<1>2. ASSUME \E i \in 1..Len(rest) : Closes(rest[i])
      PROVE  RemoveAt(rest, SelectInSeq(rest, Closes)) \in Seq(Messages)
  <2>1. I # {} /\ I \in SUBSET (1..Len(rest))
    BY <1>2
  <2>2. SelectInSeq(rest, Closes) = Min(I)
    BY <2>1 DEF SelectInSeq
  <2>3. Min(I) \in 1..Len(rest)
    <3> HIDE DEF I, rest
    <3> QED
      BY <1>1, <2>1, FirstPlace
  <2> DEFINE n == Min(I)
  <2> HIDE DEF I, rest, n
  <2>4. RemoveAt(rest, n) \in Seq(Messages)
    BY <1>1, <2>3 DEF RemoveAt, n
  <2> QED
    BY <2>2, <2>4 DEF n
<1>3. Remaining(queue) = rest
      \/ Remaining(queue) = RemoveFirstMatch(rest, Closes)
  BY DEF Remaining
<1> QED
  BY <1>1, <1>2, <1>3 DEF RemoveFirstMatch

\* The open turn after a message: the same turn.
LEMMA SeenType ==
    ASSUME turn \in TurnRecords, NEW m \in Messages
    PROVE  Seen(m) \in TurnRecords /\ Seen(m).id = turn.id
<1>1. CASE m.kind = "begin"
  BY <1>1 DEF Seen, TurnRecords, Messages
<1>2. CASE m.kind = "usage"
  BY <1>2 DEF Seen, TurnRecords, Messages
<1>3. CASE m.kind = "complete"
  BY <1>3 DEF Seen, TurnRecords, Messages
<1> QED
  BY <1>1, <1>2, <1>3 DEF Messages, Kinds

-----------------------------------------------------------------------------
(* Types and the wait *)

\* What the loop does keeps the types.
LEMMA LoopTypes ==
    ASSUME TypeOK, WaitInv, Loop
    PROVE  TypeOK'
<1>1. CASE Speak
  <2>1. started < Turns + 1
    BY <1>1, BenchAssumption DEF Speak, TypeOK, Connections
  <2>2. started' \in 0..(Turns + 1) /\ started + 1 \in Nat
    BY <1>1, <2>1, BenchAssumption DEF Speak, TypeOK
  <2>3. turn' \in TurnRecords
    BY <1>1, <2>2, NewTurnType DEF Speak
  <2> QED
    BY <1>1, <2>2, <2>3 DEF Speak, TypeOK
<1>2. CASE Wait
  <2>1. turn.id \in Nat
    BY DEF TypeOK, TurnRecords
  <2> QED
    BY <1>2, <2>1 DEF Wait, SetWatchdog, TypeOK
<1>3. CASE Reconnect
  BY <1>3 DEF Reconnect, TypeOK, Connections
<1>4. CASE Connected
  BY <1>4 DEF Connected, TypeOK, Connections
<1>5. CASE Finish
  BY <1>5 DEF Finish, TypeOK
<1> QED
  BY <1>1, <1>2, <1>3, <1>4, <1>5 DEF Loop

\* What the loop does keeps the wait.
LEMMA LoopWait ==
    ASSUME TypeOK, WaitInv, EndedByItsOwn, Loop
    PROVE  WaitInv' /\ EndedByItsOwn'
<1>1. CASE Speak
  <2>1. started + 1 \in AllTurns /\ started \in Nat /\ Turns \in Nat
    BY <1>1, BenchAssumption DEF Speak, TypeOK, Connections, AllTurns
  <2>2. turn'.id = started'
    BY <1>1, <2>1, NewTurnType DEF Speak
  <2>3. watchdogs' = {} /\ waiter' = 0
    BY <1>1 DEF Speak, WaitInv
  <2>4. epoch' = 1 => started' <= Turns
    BY <1>1, <2>1 DEF Speak, WaitInv
  <2> QED
    BY <1>1, <2>1, <2>2, <2>3, <2>4 DEF Speak, WaitInv, EndedByItsOwn
<1>2. CASE Wait
  BY <1>2 DEF Wait, SetWatchdog, WaitInv, EndedByItsOwn
<1>3. CASE Reconnect
  BY <1>3 DEF Reconnect, WaitInv, EndedByItsOwn
<1>4. CASE Connected
  BY <1>4 DEF Connected, WaitInv, EndedByItsOwn
<1>5. CASE Finish
  BY <1>5 DEF Finish, WaitInv, EndedByItsOwn
<1> QED
  BY <1>1, <1>2, <1>3, <1>4, <1>5 DEF Loop

\* What the server says, at the end of a turn or before.
LEMMA ServerWait ==
    ASSUME TypeOK, WaitInv, EndedByItsOwn, Server
    PROVE  TypeOK' /\ WaitInv' /\ EndedByItsOwn'
<1>1. PICK kinds \in WholeAnswers \cup {<<"begin", "complete">>} :
         due' = [due EXCEPT ![epoch] = @ \o Answer(started, kinds)]
  BY DEF Server, ServerAnswers, ServerBargesIn
<1>2. due' \in [Connections -> Seq(Messages)]
  <2>1. Answer(started, kinds) \in Seq(Messages)
    BY AnswerType, AnswerKinds DEF TypeOK
  <2>2. due[epoch] \o Answer(started, kinds) \in Seq(Messages)
    BY <2>1 DEF TypeOK
  <2> QED
    BY <1>1, <2>2 DEF TypeOK
<1>3. answered' \in SUBSET Nat /\ disturbed' \in BOOLEAN
  <2>1. CASE ServerAnswers
    BY <2>1 DEF ServerAnswers, TypeOK
  <2>2. CASE ServerBargesIn
    BY <2>2 DEF ServerBargesIn, TypeOK
  <2> QED
    BY <2>1, <2>2 DEF Server
<1>4. UNCHANGED <<harness, driver, started, turn, waiter, timerVars, connectionVars, row>>
  BY DEF Server, ServerAnswers, ServerBargesIn
<1> QED
  BY <1>2, <1>3, <1>4 DEF TypeOK, WaitInv, EndedByItsOwn

\* A message is given to the turn that is open.
LEMMA MessageWait ==
    ASSUME TypeOK, WaitInv, EndedByItsOwn, NEW c \in Connections, Message(c)
    PROVE  TypeOK' /\ WaitInv' /\ EndedByItsOwn'
<1>1. due' \in [Connections -> Seq(Messages)]
  <2>1. Remaining(due[c]) \in Seq(Messages)
    BY RemainingType DEF Message, TypeOK
  <2> QED
    BY <2>1 DEF Message, TypeOK
<1>2. CASE turn = NoTurn
  <2>1. UNCHANGED <<turn, row, driver, waiter, timerVars>>
    BY <1>2 DEF Message
  <2> QED
    BY <1>1, <2>1 DEF Message, TypeOK, WaitInv, EndedByItsOwn
<1>3. CASE turn # NoTurn
  <2>1. Head(due[c]) \in Messages
    BY DEF Message, TypeOK
  <2>2. Seen(Head(due[c])) \in TurnRecords /\ Seen(Head(due[c])).id = turn.id
    BY <2>1, SeenType DEF TypeOK
  <2>3. /\ \/ TurnSeen(Seen(Head(due[c])))
           \/ MaybeFinishTurn("complete", Head(due[c]).of, Seen(Head(due[c])))
        /\ UNCHANGED <<started, epoch>>
    BY <1>3 DEF Message
  <2>4. /\ WaitInv' /\ EndedByItsOwn'
        /\ driver' \in {"resting", "speaking", "waiting"} /\ turn' \in TurnRecords
        /\ waiter' \in Nat /\ watchdogs' \in SUBSET Nat
    BY <1>3, <2>2, <2>3, SeenWait
  <2>5. graces' \in [AllTurns -> Nat]
    BY <1>3 DEF Message, TypeOK
  <2> QED
    BY <1>1, <2>4, <2>5 DEF Message, TypeOK
<1> QED
  BY <1>2, <1>3

\* The grace timer of a turn that has ended does nothing.
LEMMA GraceWait ==
    ASSUME TypeOK, WaitInv, EndedByItsOwn, NEW t \in AllTurns, Grace(t)
    PROVE  TypeOK' /\ WaitInv' /\ EndedByItsOwn'
<1>1. graces' \in [AllTurns -> Nat]
  BY DEF Grace, TypeOK
<1>2. CASE harness = "raw" /\ turn.id = t /\ waiter # 0
  <2>1. EndTurn("grace", t, turn) /\ disturbed' = TRUE
    BY <1>2 DEF Grace
  <2> QED
    BY <1>1, <1>2, <2>1, EndedWait DEF Grace, TypeOK, EndedByItsOwn
<1>3. CASE harness = "plugin" /\ turn.id = t /\ ~turn.counted
  <2>1. MaybeFinishTurn("grace", t, [turn EXCEPT !.counted = TRUE]) /\ disturbed' = TRUE
    BY <1>3 DEF Grace
  <2>2. turn # NoTurn
    BY <1>3, BenchAssumption DEF NoTurn, NewTurn, AllTurns
  <2>3. [turn EXCEPT !.counted = TRUE] \in TurnRecords
        /\ [turn EXCEPT !.counted = TRUE].id = turn.id
    BY DEF TypeOK, TurnRecords
  <2>4. /\ WaitInv' /\ EndedByItsOwn'
        /\ driver' \in {"resting", "speaking", "waiting"} /\ turn' \in TurnRecords
        /\ waiter' \in Nat /\ watchdogs' \in SUBSET Nat
    BY <1>3, <2>1, <2>2, <2>3, SeenWait DEF Grace
  <2> QED
    BY <1>1, <2>1, <2>4 DEF Grace, TypeOK
<1>4. CASE /\ ~(harness = "raw" /\ turn.id = t /\ waiter # 0)
           /\ ~(harness = "plugin" /\ turn.id = t /\ ~turn.counted)
  <2>1. UNCHANGED <<turn, row, driver, waiter, watchdogs, disturbed>>
    BY <1>4 DEF Grace
  <2> QED
    BY <1>1, <2>1 DEF Grace, TypeOK, WaitInv, EndedByItsOwn
<1> QED
  BY <1>2, <1>3, <1>4

\* The watchdog is the open turn's.
LEMMA WatchdogWait ==
    ASSUME TypeOK, WaitInv, EndedByItsOwn, NEW t \in AllTurns, Watchdog(t)
    PROVE  TypeOK' /\ WaitInv' /\ EndedByItsOwn'
<1>1. driver = "waiting" /\ t = turn.id /\ waiter # 0
  BY BenchAssumption DEF Watchdog, WaitInv, AllTurns
<1>2. EndTurn("watchdog", t, turn) /\ disturbed' = TRUE
  BY <1>1 DEF Watchdog
<1> QED
  BY <1>1, <1>2, EndedWait DEF Watchdog, TypeOK, EndedByItsOwn

\* The close of an earlier connection ends nothing.
LEMMA CloseWait ==
    ASSUME TypeOK, WaitInv, EndedByItsOwn, NEW c \in Connections, OnClose(c)
    PROVE  TypeOK' /\ WaitInv' /\ EndedByItsOwn'
<1>1. due' \in [Connections -> Seq(Messages)] /\ connections' \in SUBSET Connections
  <2>1. <<>> \in Seq(Messages)
    OBVIOUS
  <2> QED
    BY <2>1 DEF OnClose, TypeOK
<1>2. sessionClosed' \in BOOLEAN /\ disturbed' \in BOOLEAN
  <2>1. CASE Active(c)
    BY <2>1 DEF OnClose
  <2>2. CASE ~Active(c)
    BY <2>2 DEF OnClose, TypeOK
  <2> QED
    BY <2>1, <2>2
<1>3. CASE Active(c) /\ waiter # 0
  <2>1. EndTurn("close", turn.id, turn)
    BY <1>3 DEF OnClose, Active
  <2> QED
    BY <1>1, <1>2, <1>3, <2>1, EndedWait DEF OnClose, TypeOK, EndedByItsOwn
<1>4. CASE ~(Active(c) /\ waiter # 0)
  <2>1. UNCHANGED <<turn, row, driver, waiter, watchdogs>>
    BY <1>4 DEF OnClose
  <2> QED
    BY <1>1, <1>2, <2>1 DEF OnClose, TypeOK, WaitInv, EndedByItsOwn
<1> QED
  BY <1>3, <1>4

\* Whatever happens next, types, wait and row stay right.
LEMMA NextWait ==
    ASSUME TypeOK, WaitInv, EndedByItsOwn, [Next]_vars
    PROVE  TypeOK' /\ WaitInv' /\ EndedByItsOwn'
<1>1. CASE Loop
  BY <1>1, LoopTypes, LoopWait
<1>2. CASE Server
  BY <1>2, ServerWait
<1>3. CASE Callbacks
  BY <1>3, MessageWait, CloseWait, GraceWait, WatchdogWait DEF Callbacks
<1>4. CASE UNCHANGED vars
  BY <1>4 DEF vars, TypeOK, WaitInv, EndedByItsOwn
<1> QED
  BY <1>1, <1>2, <1>3, <1>4 DEF Next

\* The bench starts with nothing open and nothing on its way.
LEMMA InitWait ==
    ASSUME Init
    PROVE  TypeOK /\ WaitInv /\ EndedByItsOwn
<1>1. turn \in TurnRecords
  BY NewTurnType DEF Init, NoTurn
<1>2. due \in [Connections -> Seq(Messages)]
  <2>1. <<>> \in Seq(Messages)
    OBVIOUS
  <2> QED
    BY <2>1 DEF Init
<1>3. TypeOK
  <2>1. started \in 0..(Turns + 1) /\ waiter \in Nat
    BY BenchAssumption DEF Init
  <2>2. graces \in [AllTurns -> Nat]
    BY DEF Init
  <2>3. epoch \in Connections /\ connections \in SUBSET Connections
    BY DEF Init, Connections
  <2>4. sessionClosed \in BOOLEAN /\ disturbed \in BOOLEAN
    BY DEF Init
  <2>5. watchdogs \in SUBSET Nat /\ answered \in SUBSET Nat
    BY DEF Init
  <2>6. driver \in {"resting", "speaking", "waiting", "connecting", "done"}
    BY DEF Init
  <2>7. harness \in Harnesses
    BY DEF Init
  <2> QED
    BY <1>1, <1>2, <2>1, <2>2, <2>3, <2>4, <2>5, <2>6, <2>7, Zenon DEF TypeOK
<1>4. WaitInv
  BY BenchAssumption DEF Init, WaitInv
<1> QED
  BY <1>3, <1>4 DEF Init, EndedByItsOwn, NoRow

\* A timer or a close that ends a turn's wait belongs to that turn, however many turns
\* there are and whatever earlier turns and connections leave behind: a grace timer or
\* the watchdog set in it, or a close of the connection it is spoken over
\* (rawBench.mjs:212, 228, 302; pluginBench.mjs:177-179).
THEOREM WaitsEndByTheirOwn == Spec => []EndedByItsOwn
<1>1. Init => TypeOK /\ WaitInv /\ EndedByItsOwn
  BY InitWait
<1>2. TypeOK /\ WaitInv /\ EndedByItsOwn /\ [Next]_vars
      => (TypeOK /\ WaitInv /\ EndedByItsOwn)'
  BY NextWait
<1> QED
  BY <1>1, <1>2, PTL DEF Spec

-----------------------------------------------------------------------------
(* The rows *)

\* An answer comes message by message.
LEMMA AnswerComes ==
    ASSUME NEW of \in Nat, NEW kinds \in Seq(Kinds), kinds # <<>>
    PROVE  /\ Answer(of, kinds) # <<>>
           /\ Head(Answer(of, kinds)) = [of |-> of, kind |-> Head(kinds)]
           /\ Tail(Answer(of, kinds)) = Answer(of, Tail(kinds))
<1> DEFINE M(k) == [of |-> of, kind |-> k]
           answer == Answer(of, kinds)
           rest == Answer(of, Tail(kinds))
<1>1. /\ Len(kinds) \in Nat \ {0} /\ DOMAIN kinds = 1..Len(kinds)
      /\ Tail(kinds) \in Seq(Kinds) /\ Len(Tail(kinds)) = Len(kinds) - 1
      /\ DOMAIN Tail(kinds) = 1..(Len(kinds) - 1)
      /\ \A i \in 1..(Len(kinds) - 1) : Tail(kinds)[i] = kinds[i + 1]
      /\ Head(kinds) = kinds[1]
  OBVIOUS
<1>2. answer \in Seq(Messages) /\ rest \in Seq(Messages)
  BY <1>1, AnswerType
<1>3. answer = [i \in 1..Len(kinds) |-> M(kinds[i])]
  BY <1>1 DEF Answer
<1>4. rest = [i \in 1..(Len(kinds) - 1) |-> M(kinds[i + 1])]
  BY <1>1 DEF Answer
<1> HIDE DEF M, answer, rest
<1>5. Len(answer) = Len(kinds) /\ Len(rest) = Len(kinds) - 1
  BY <1>1, <1>2, <1>3, <1>4
<1>6. answer # <<>> /\ Head(answer) = M(kinds[1])
  BY <1>1, <1>2, <1>3, <1>5
<1>7. Tail(answer) = rest
  <2>1. /\ Tail(answer) \in Seq(Messages) /\ Len(Tail(answer)) = Len(rest)
        /\ \A i \in 1..Len(rest) : Tail(answer)[i] = answer[i + 1]
    BY <1>1, <1>2, <1>5, <1>6
  <2>2. \A i \in 1..Len(rest) : answer[i + 1] = rest[i]
    BY <1>1, <1>3, <1>4, <1>5
  <2> HIDE DEF answer, rest
  <2> QED
    BY <1>2, <2>1, <2>2
<1> QED
  BY <1>1, <1>6, <1>7 DEF M, answer, rest

\* The answers there are, taken message by message.
LEMMA AnswersCome ==
    ASSUME NEW of \in Nat
    PROVE  /\ \A kinds \in {<<"begin", "usage", "complete">>, <<"begin", "complete", "usage">>} :
                 /\ Answer(of, kinds) # <<>>
                 /\ Head(Answer(of, kinds)) = [of |-> of, kind |-> "begin"]
                 /\ Tail(Answer(of, kinds)) = Answer(of, Tail(kinds))
           /\ Head(Answer(of, <<"usage", "complete">>)) = [of |-> of, kind |-> "usage"]
           /\ Tail(Answer(of, <<"usage", "complete">>)) = Answer(of, <<"complete">>)
           /\ Head(Answer(of, <<"complete", "usage">>)) = [of |-> of, kind |-> "complete"]
           /\ Tail(Answer(of, <<"complete", "usage">>)) = Answer(of, <<"usage">>)
           /\ Head(Answer(of, <<"usage">>)) = [of |-> of, kind |-> "usage"]
           /\ Tail(Answer(of, <<"usage">>)) = <<>>
           /\ Head(Answer(of, <<"complete">>)) = [of |-> of, kind |-> "complete"]
           /\ Tail(Answer(of, <<"complete">>)) = <<>>
<1>1. "begin" \in Kinds /\ "usage" \in Kinds /\ "complete" \in Kinds
  BY DEF Kinds
<1>2. \A a \in Kinds : <<a>> \in Seq(Kinds) /\ <<a>> # <<>> /\ Head(<<a>>) = a /\ Tail(<<a>>) = <<>>
  OBVIOUS
<1>3. \A a, b \in Kinds :
         <<a, b>> \in Seq(Kinds) /\ <<a, b>> # <<>> /\ Head(<<a, b>>) = a /\ Tail(<<a, b>>) = <<b>>
  OBVIOUS
<1>4. \A a, b, d \in Kinds :
         <<a, b, d>> \in Seq(Kinds) /\ <<a, b, d>> # <<>> /\ Head(<<a, b, d>>) = a
  OBVIOUS
<1>5. Answer(of, <<>>) = <<>>
  <2>1. <<>> \in Seq(Kinds) /\ <<>> \in Seq(Messages) /\ DOMAIN <<>> = {}
    OBVIOUS
  <2>2. Answer(of, <<>>) \in Seq(Messages)
    BY <2>1, AnswerType
  <2>3. DOMAIN Answer(of, <<>>) = {}
    BY <2>1 DEF Answer
  <2> QED
    BY <2>2, <2>3
<1> DEFINE Comes(kinds, first, rest) ==
             /\ Head(Answer(of, kinds)) = [of |-> of, kind |-> first]
             /\ Tail(Answer(of, kinds)) = Answer(of, rest)
<1>c. \A kinds \in Seq(Kinds) : kinds # <<>> =>
         Answer(of, kinds) # <<>> /\ Comes(kinds, Head(kinds), Tail(kinds))
  BY AnswerComes
<1> HIDE DEF Comes
<1>6. \A a \in Kinds : Comes(<<a>>, a, <<>>)
  <2> TAKE a \in Kinds
  <2>1. <<a>> \in Seq(Kinds) /\ <<a>> # <<>> /\ Head(<<a>>) = a /\ Tail(<<a>>) = <<>>
    BY <1>2
  <2>2. Comes(<<a>>, Head(<<a>>), Tail(<<a>>))
    BY <1>c, <2>1, Zenon
  <2> QED
    BY <2>1, <2>2, Zenon
<1>7. \A a, b \in Kinds : Comes(<<a, b>>, a, <<b>>)
  <2> TAKE a, b \in Kinds
  <2>1. <<a, b>> \in Seq(Kinds) /\ <<a, b>> # <<>> /\ Head(<<a, b>>) = a /\ Tail(<<a, b>>) = <<b>>
    BY <1>3
  <2>2. Comes(<<a, b>>, Head(<<a, b>>), Tail(<<a, b>>))
    BY <1>c, <2>1, Zenon
  <2> QED
    BY <2>1, <2>2, Zenon
<1>8. \A a, b, d \in Kinds :
         Answer(of, <<a, b, d>>) # <<>> /\ Comes(<<a, b, d>>, a, Tail(<<a, b, d>>))
  <2> TAKE a, b, d \in Kinds
  <2>1. <<a, b, d>> \in Seq(Kinds) /\ <<a, b, d>> # <<>> /\ Head(<<a, b, d>>) = a
    BY <1>4
  <2>2. Answer(of, <<a, b, d>>) # <<>> /\ Comes(<<a, b, d>>, Head(<<a, b, d>>), Tail(<<a, b, d>>))
    BY <1>c, <2>1, Zenon
  <2> QED
    BY <2>1, <2>2, Zenon
<1>9. /\ Comes(<<"usage", "complete">>, "usage", <<"complete">>)
      /\ Comes(<<"complete", "usage">>, "complete", <<"usage">>)
      /\ Comes(<<"usage">>, "usage", <<>>) /\ Comes(<<"complete">>, "complete", <<>>)
  BY <1>1, <1>6, <1>7, Zenon
<1>10. \A kinds \in {<<"begin", "usage", "complete">>, <<"begin", "complete", "usage">>} :
          Answer(of, kinds) # <<>> /\ Comes(kinds, "begin", Tail(kinds))
  BY <1>1, <1>8, Zenon
<1> QED
  BY <1>5, <1>9, <1>10, Zenon DEF Comes

\* What a message of the open turn's own answer leaves of it, field by field.
LEMMA SeenOwn ==
    ASSUME NEW of \in Nat \ {0}, NEW first \in {0, of}, NEW usage \in Nat,
           NEW complete \in BOOLEAN, NEW counted \in BOOLEAN,
           turn = [id |-> of, first |-> first, usage |-> usage, complete |-> complete,
                   counted |-> counted]
    PROVE  /\ Seen([of |-> of, kind |-> "begin"])
              = [id |-> of, first |-> of, usage |-> usage, complete |-> complete,
                 counted |-> counted]
           /\ Seen([of |-> of, kind |-> "usage"])
              = [id |-> of, first |-> first, usage |-> of, complete |-> complete,
                 counted |-> TRUE]
           /\ first = of =>
              Seen([of |-> of, kind |-> "complete"])
              = [id |-> of, first |-> of, usage |-> usage, complete |-> TRUE,
                 counted |-> counted]
<1>1. Seen([of |-> of, kind |-> "begin"])
      = [id |-> of, first |-> of, usage |-> usage, complete |-> complete, counted |-> counted]
  <2>1. Seen([of |-> of, kind |-> "begin"]) = [turn EXCEPT !.first = IF @ = 0 THEN of ELSE @]
    BY DEF Seen
  <2> QED
    BY <2>1
<1>2. Seen([of |-> of, kind |-> "usage"])
      = [id |-> of, first |-> first, usage |-> of, complete |-> complete, counted |-> TRUE]
  <2>1. Seen([of |-> of, kind |-> "usage"]) = [turn EXCEPT !.usage = of, !.counted = TRUE]
    BY DEF Seen
  <2> QED
    BY <2>1
<1>3. ASSUME first = of
      PROVE  Seen([of |-> of, kind |-> "complete"])
             = [id |-> of, first |-> of, usage |-> usage, complete |-> TRUE, counted |-> counted]
  <2>1. turn.first = of
    BY <1>3
  <2>2. [turn EXCEPT !.first = IF @ = 0 THEN of ELSE @] = turn
    BY <1>3, <2>1
  <2>3. Seen([of |-> of, kind |-> "complete"]) = [turn EXCEPT !.complete = TRUE]
    BY <2>2 DEF Seen
  <2> QED
    BY <1>3, <2>3
<1> QED
  BY <1>1, <1>2, <1>3

\* The turn that a message of a whole answer leaves open has been given the rest; one
\* that it completes has been given all of its own.
LEMMA RestComes ==
    ASSUME started \in AllTurns, Rests, started \in answered
    PROVE  LET t == Seen(Head(due[epoch])) IN
           \/ /\ Finished(t) /\ t.first = started /\ t.usage = started
              /\ Tail(due[epoch]) = <<>> /\ Head(due[epoch]).kind # "begin"
           \/ /\ ~Finished(t)
              /\ \/ t = Begun /\ Tail(due[epoch]) = Told(<<"usage", "complete">>)
                 \/ t = Counted /\ Tail(due[epoch]) = Told(<<"complete">>)
                 \/ /\ harness = "raw" /\ t = Begun
                    /\ Tail(due[epoch]) = Told(<<"complete", "usage">>)
                 \/ t = Closed /\ Tail(due[epoch]) = Told(<<"usage">>)
<1> DEFINE queue == due[epoch]
           t == Seen(Head(queue))
<1>0. started \in Nat \ {0}
  BY BenchAssumption DEF AllTurns
<1>a. /\ NewTurn(started) = [id |-> started, first |-> 0, usage |-> 0, complete |-> FALSE,
                             counted |-> FALSE]
      /\ Begun = [id |-> started, first |-> started, usage |-> 0, complete |-> FALSE,
                  counted |-> FALSE]
      /\ Closed = [id |-> started, first |-> started, usage |-> 0, complete |-> TRUE,
                   counted |-> FALSE]
  BY DEF NewTurn, Begun, Closed, Given
<1>b. Counted = [id |-> started, first |-> started, usage |-> started, complete |-> FALSE,
                 counted |-> TRUE]
  BY <1>0 DEF Counted, Given
<1>1. ASSUME turn = NewTurn(started), NEW kinds \in WholeAnswers, queue = Told(kinds)
      PROVE  /\ t = Begun /\ ~Finished(t)
             /\ \/ Tail(queue) = Told(<<"usage", "complete">>)
                \/ harness = "raw" /\ Tail(queue) = Told(<<"complete", "usage">>)
  <2>1. \/ kinds = <<"begin", "usage", "complete">>
        \/ harness = "raw" /\ kinds = <<"begin", "complete", "usage">>
    BY Zenon DEF WholeAnswers
  <2>2. Head(queue) = [of |-> started, kind |-> "begin"] /\ Tail(queue) = Answer(started, Tail(kinds))
    BY <1>0, <1>1, <2>1, AnswersCome DEF Told
  <2>3. t = Begun
    <3>1. turn = [id |-> started, first |-> 0, usage |-> 0, complete |-> FALSE,
                  counted |-> FALSE]
      BY <1>1, <1>a
    <3>2. Seen([of |-> started, kind |-> "begin"])
          = [id |-> started, first |-> started, usage |-> 0, complete |-> FALSE,
             counted |-> FALSE]
      BY <1>0, <3>1, SeenOwn
    <3> QED
      BY <1>a, <2>2, <3>2
  <2>4. ~Finished(t)
    BY <1>a, <1>b, <2>3 DEF Finished
  <2>5. /\ Tail(<<"begin", "usage", "complete">>) = <<"usage", "complete">>
        /\ Tail(<<"begin", "complete", "usage">>) = <<"complete", "usage">>
    OBVIOUS
  <2> QED
    BY <2>1, <2>2, <2>3, <2>4, <2>5 DEF Told
<1>2. ASSUME turn = Begun, queue = Told(<<"usage", "complete">>)
      PROVE  /\ t = Counted /\ ~Finished(t)
             /\ Tail(queue) = Told(<<"complete">>)
  <2>1. Head(queue) = [of |-> started, kind |-> "usage"] /\ Tail(queue) = Told(<<"complete">>)
    BY <1>0, <1>2, AnswersCome DEF Told
  <2>2. t = Counted
    BY <1>0, <1>2, <1>a, <1>b, <2>1, SeenOwn
  <2> QED
    BY <1>a, <1>b, <2>1, <2>2 DEF Finished
<1>3. ASSUME turn = Counted, queue = Told(<<"complete">>)
      PROVE  Finished(t) /\ t.first = started /\ t.usage = started /\ Tail(queue) = <<>>
             /\ Head(queue).kind # "begin"
  <2>1. Head(queue) = [of |-> started, kind |-> "complete"] /\ Tail(queue) = <<>>
    BY <1>0, <1>3, AnswersCome DEF Told
  <2>2. t = [id |-> started, first |-> started, usage |-> started, complete |-> TRUE,
             counted |-> TRUE]
    <3>1. turn = [id |-> started, first |-> started, usage |-> started, complete |-> FALSE,
                  counted |-> TRUE]
      BY <1>3, <1>b
    <3>2. Seen([of |-> started, kind |-> "complete"])
          = [id |-> started, first |-> started, usage |-> started, complete |-> TRUE,
             counted |-> TRUE]
      BY <1>0, <3>1, SeenOwn
    <3> QED
      BY <2>1, <3>2
  <2> QED
    BY <2>1, <2>2 DEF Finished
<1>4. ASSUME turn = Begun, queue = Told(<<"complete", "usage">>)
      PROVE  /\ t = Closed /\ ~Finished(t)
             /\ Tail(queue) = Told(<<"usage">>)
  <2>1. Head(queue) = [of |-> started, kind |-> "complete"] /\ Tail(queue) = Told(<<"usage">>)
    BY <1>0, <1>4, AnswersCome DEF Told
  <2>2. t = Closed
    <3>1. turn = [id |-> started, first |-> started, usage |-> 0, complete |-> FALSE,
                  counted |-> FALSE]
      BY <1>4, <1>a
    <3>2. Seen([of |-> started, kind |-> "complete"])
          = [id |-> started, first |-> started, usage |-> 0, complete |-> TRUE,
             counted |-> FALSE]
      BY <1>0, <3>1, SeenOwn
    <3> QED
      BY <1>a, <2>1, <3>2
  <2> QED
    BY <1>a, <1>b, <2>1, <2>2 DEF Finished
<1>5. ASSUME turn = Closed, queue = Told(<<"usage">>)
      PROVE  Finished(t) /\ t.first = started /\ t.usage = started /\ Tail(queue) = <<>>
             /\ Head(queue).kind # "begin"
  <2>1. Head(queue) = [of |-> started, kind |-> "usage"] /\ Tail(queue) = <<>>
    BY <1>0, <1>5, AnswersCome DEF Told
  <2>2. t = [id |-> started, first |-> started, usage |-> started, complete |-> TRUE,
             counted |-> TRUE]
    BY <1>0, <1>5, <1>a, <2>1, SeenOwn
  <2> QED
    BY <2>1, <2>2 DEF Finished
<1> HIDE DEF queue, t
<1>6. \/ turn = NewTurn(started) /\ \E kinds \in WholeAnswers : queue = Told(kinds)
      \/ turn = Begun /\ queue = Told(<<"usage", "complete">>)
      \/ turn = Counted /\ queue = Told(<<"complete">>)
      \/ turn = Begun /\ queue = Told(<<"complete", "usage">>)
      \/ turn = Closed /\ queue = Told(<<"usage">>)
  BY Zenon DEF Rests, queue
<1>7. \/ /\ Finished(t) /\ t.first = started /\ t.usage = started
         /\ Tail(queue) = <<>> /\ Head(queue).kind # "begin"
      \/ /\ ~Finished(t)
         /\ \/ t = Begun /\ Tail(queue) = Told(<<"usage", "complete">>)
            \/ t = Counted /\ Tail(queue) = Told(<<"complete">>)
            \/ harness = "raw" /\ t = Begun /\ Tail(queue) = Told(<<"complete", "usage">>)
            \/ t = Closed /\ Tail(queue) = Told(<<"usage">>)
  BY <1>1, <1>2, <1>3, <1>4, <1>5, <1>6, Zenon
<1> QED
  BY <1>7, Zenon DEF queue, t

\* While the loop waits, a turn is open, its own.
LEMMA WaitingTurn ==
    ASSUME WaitInv, driver = "waiting"
    PROVE  /\ started \in AllTurns /\ turn.id = started /\ waiter = started
           /\ waiter # 0 /\ turn # NoTurn
<1>1. started \in AllTurns /\ turn.id = started /\ waiter = started
  BY DEF WaitInv
<1>2. started # 0
  BY <1>1, BenchAssumption DEF AllTurns
<1> QED
  BY <1>1, <1>2 DEF NoTurn, NewTurn

\* A message that arrives in calm is one of the open turn's answer.
LEMMA MessageCalm ==
    ASSUME TypeOK, WaitInv, Calm, NEW c \in Connections, Message(c)
    PROVE  Calm'
<1> DEFINE t == Seen(Head(due[c]))
<1>1. c = epoch /\ driver = "waiting" /\ Rests /\ started \in answered
  <2>1. c = epoch
    BY DEF Message, Calm
  <2>2. driver = "waiting"
    BY <2>1 DEF Message, Calm
  <2>3. Rests
    BY <2>2 DEF Calm
  <2> QED
    BY <2>1, <2>2, <2>3 DEF Message, Rests
<1>2. /\ started \in AllTurns /\ turn.id = started /\ waiter # 0 /\ turn # NoTurn
  BY <1>1, WaitingTurn
<1>3. t.id = started
  <2>1. Head(due[c]) \in Messages
    BY DEF Message, TypeOK
  <2> QED
    BY <1>2, <2>1, SeenType DEF TypeOK
<1>4. due' = [due EXCEPT ![epoch] = Tail(due[epoch])]
  BY <1>1, <1>2 DEF Message, Remaining
<1>5. due'[epoch] = Tail(due[epoch]) /\ \A d \in Connections \ {epoch} : due'[d] = <<>>
  BY <1>1, <1>4 DEF TypeOK, Calm
<1>6. /\ IF Head(due[epoch]).kind = "begin" THEN TurnSeen(t)
         ELSE MaybeFinishTurn("complete", Head(due[epoch]).of, t)
      /\ UNCHANGED <<harness, started, epoch, answered>>
  BY <1>1, <1>2 DEF Message
<1>7. \A a \in answered' : a <= started'
  BY <1>6 DEF Calm
<1>8. CASE /\ Finished(t) /\ t.first = started /\ t.usage = started
           /\ Tail(due[epoch]) = <<>> /\ Head(due[epoch]).kind # "begin"
  <2>1. EndTurn("complete", Head(due[epoch]).of, t)
    BY <1>2, <1>6, <1>8 DEF MaybeFinishTurn
  <2>2. row'.cause = "complete" /\ row'.first = row'.turn /\ row'.usage = row'.turn
    BY <1>3, <1>8, <2>1 DEF EndTurn
  <2>3. driver' = "resting"
    BY <2>1 DEF EndTurn
  <2> QED
    BY <1>1, <1>5, <1>6, <1>7, <1>8, <2>2, <2>3 DEF Calm
<1>9. CASE /\ ~Finished(t)
           /\ \/ t = Begun /\ Tail(due[epoch]) = Told(<<"usage", "complete">>)
              \/ t = Counted /\ Tail(due[epoch]) = Told(<<"complete">>)
              \/ /\ harness = "raw" /\ t = Begun
                 /\ Tail(due[epoch]) = Told(<<"complete", "usage">>)
              \/ t = Closed /\ Tail(due[epoch]) = Told(<<"usage">>)
  <2>1. turn' = t /\ UNCHANGED <<row, driver, waiter, watchdogs>>
    BY <1>6, <1>9 DEF TurnSeen, MaybeFinishTurn
  <2>2. Begun' = Begun /\ Counted' = Counted /\ Closed' = Closed
        /\ \A kinds : Told(kinds)' = Told(kinds)
    BY <1>6 DEF Begun, Counted, Closed, Given, Told, Answer
  <2>3. due'[epoch'] = Tail(due[epoch]) /\ started' \in answered' /\ harness' = harness
    BY <1>1, <1>5, <1>6
  <2>4. \/ turn' = Begun' /\ due'[epoch'] = Told(<<"usage", "complete">>)'
        \/ turn' = Counted' /\ due'[epoch'] = Told(<<"complete">>)'
        \/ harness' = "raw" /\ turn' = Begun' /\ due'[epoch'] = Told(<<"complete", "usage">>)'
        \/ turn' = Closed' /\ due'[epoch'] = Told(<<"usage">>)'
    BY <1>9, <2>1, <2>2, <2>3, Zenon
  <2>5. Rests'
    BY <2>3, <2>4, Zenon DEF Rests
  <2>6. row'.cause = "complete" /\ row'.first = row'.turn /\ row'.usage = row'.turn
    BY <2>1 DEF Calm
  <2> QED
    BY <1>1, <1>5, <1>6, <1>7, <2>1, <2>5, <2>6 DEF Calm
<1> QED
  BY <1>1, <1>2, <1>8, <1>9, RestComes, Zenon

\* The turn that waits is answered, and nothing else was on its way.
LEMMA AnswerCalm ==
    ASSUME TypeOK, WaitInv, Calm, ServerAnswers, ~disturbed'
    PROVE  Calm'
<1>1. PICK kinds \in WholeAnswers :
         due' = [due EXCEPT ![epoch] = @ \o Answer(started, kinds)]
  BY DEF ServerAnswers
<1>2. driver = "waiting" /\ started \notin answered
  BY DEF ServerAnswers, Calm
<1>3. Rests
  BY <1>2 DEF Calm
<1>4. turn = NewTurn(started) /\ due[epoch] = <<>>
  BY <1>2, <1>3 DEF Rests
<1>5. /\ answered' = answered \cup {started}
      /\ UNCHANGED <<harness, driver, started, turn, epoch, row>>
  BY DEF ServerAnswers
<1>6. due'[epoch] = Answer(started, kinds) /\ \A d \in Connections \ {epoch} : due'[d] = <<>>
  <2>1. Answer(started, kinds) \in Seq(Messages)
    BY AnswerType, AnswerKinds DEF TypeOK
  <2>2. <<>> \o Answer(started, kinds) = Answer(started, kinds)
    BY <2>1
  <2> QED
    BY <1>1, <1>4, <2>2 DEF TypeOK, Calm
<1>7. Rests'
  <2>1. started' \in answered' /\ turn' = NewTurn(started')
    BY <1>4, <1>5
  <2>2. kinds \in WholeAnswers' /\ due'[epoch'] = Told(kinds)'
    BY <1>5, <1>6 DEF WholeAnswers, Told, Answer
  <2> QED
    BY <2>1, <2>2, Zenon DEF Rests
<1>8. \A a \in answered' : a <= started'
  <2>1. started \in Nat
    BY BenchAssumption DEF TypeOK
  <2> QED
    BY <1>5, <2>1 DEF Calm
<1> QED
  BY <1>2, <1>5, <1>6, <1>7, <1>8 DEF Calm

\* The loop goes on only when the turn's answer is complete.
LEMMA LoopCalm ==
    ASSUME TypeOK, WaitInv, Calm, Loop
    PROVE  Calm'
<1>1. CASE Speak
  <2>1. started \in Nat /\ started' = started + 1
    BY <1>1, BenchAssumption DEF Speak, TypeOK
  <2>2. \A a \in answered' : a <= started' /\ a # started'
    BY <1>1, <2>1 DEF Speak, Calm, TypeOK
  <2> QED
    BY <1>1, <2>2 DEF Speak, Calm
<1>2. CASE Wait
  <2>1. driver = "speaking" /\ driver' = "waiting" /\ UNCHANGED <<harness, started, turn, epoch, due, answered, row>>
    BY <1>2 DEF Wait
  <2>2. turn' = NewTurn(started') /\ due'[epoch'] = <<>> /\ started' \notin answered'
    BY <2>1 DEF Calm
  <2>3. Rests'
    BY <2>2 DEF Rests
  <2> QED
    BY <2>1, <2>3 DEF Calm
<1>3. CASE Reconnect
  <2>1. /\ driver = "resting" /\ driver' = "connecting"
        /\ UNCHANGED <<started, due, answered, row>>
    BY <1>3 DEF Reconnect
  <2>2. due[epoch] = <<>> /\ (started = 0 \/ started \in answered)
    BY <2>1 DEF Calm
  <2>3. epoch' = 2 /\ \A d \in Connections : due[d] = <<>>
    BY <1>3, <2>2 DEF Reconnect, Calm
  <2> QED
    BY <2>1, <2>2, <2>3 DEF Calm, Connections
<1>4. CASE Connected
  BY <1>4 DEF Connected, Calm
<1>5. CASE Finish
  BY <1>5 DEF Finish, Calm
<1> QED
  BY <1>1, <1>2, <1>3, <1>4, <1>5 DEF Loop

\* A close or a timer that has nothing to do leaves the turn as it is.
LEMMA IdleCalm ==
    ASSUME Calm, \A c \in Connections \ {epoch} : due'[c] = <<>>, due'[epoch] = due[epoch],
           UNCHANGED <<harness, driver, started, turn, epoch, answered, row>>
    PROVE  Calm'
<1>1. Rests => Rests'
  <2>1. Begun' = Begun /\ Counted' = Counted /\ Closed' = Closed
        /\ (\A kinds : Told(kinds)' = Told(kinds)) /\ WholeAnswers' = WholeAnswers
    BY DEF Begun, Counted, Closed, Given, Told, Answer, WholeAnswers
  <2>2. due'[epoch'] = due[epoch]
    OBVIOUS
  <2> QED
    BY <2>1, <2>2, Zenon DEF Rests
<1> QED
  BY <1>1 DEF Calm

\* In calm, the callbacks are those of the open turn.
LEMMA CallbacksCalm ==
    ASSUME TypeOK, WaitInv, Calm, Callbacks, ~disturbed'
    PROVE  Calm'
<1>1. CASE \E c \in Connections : Message(c)
  BY <1>1, MessageCalm
<1>2. ASSUME NEW c \in Connections, OnClose(c)
      PROVE  Calm'
  <2>1. ~Active(c)
    BY <1>2 DEF OnClose
  <2>2. c # epoch /\ due' = [due EXCEPT ![c] = <<>>]
    BY <1>2, <2>1 DEF OnClose, Active
  <2>3. due'[epoch] = due[epoch] /\ \A d \in Connections \ {epoch} : due'[d] = <<>>
    BY <2>2 DEF TypeOK, Calm
  <2> QED
    BY <1>2, <2>1, <2>3, IdleCalm DEF OnClose
<1>3. ASSUME NEW t \in AllTurns, Grace(t)
      PROVE  Calm'
  <2>1. UNCHANGED <<turn, row, driver>>
    BY <1>3 DEF Grace
  <2>2. UNCHANGED <<harness, started, epoch, due, answered>>
    BY <1>3 DEF Grace
  <2> QED
    BY <2>1, <2>2, IdleCalm DEF Calm
<1>4. ASSUME NEW t \in AllTurns, Watchdog(t)
      PROVE  Calm'
  <2>1. UNCHANGED <<turn, row, driver>>
    BY <1>4 DEF Watchdog
  <2>2. UNCHANGED <<harness, started, epoch, due, answered>>
    BY <1>4 DEF Watchdog
  <2> QED
    BY <2>1, <2>2, IdleCalm DEF Calm
<1> QED
  BY <1>1, <1>2, <1>3, <1>4 DEF Callbacks

\* Once something has gone wrong, it stays noted.
LEMMA DisturbedStays ==
    ASSUME TypeOK, disturbed, [Next]_vars
    PROVE  disturbed'
<1>1. CASE Loop
  BY <1>1 DEF Loop, Speak, Wait, Reconnect, Connected, Finish
<1>2. CASE Server
  BY <1>2 DEF Server, ServerAnswers, ServerBargesIn
<1>3. CASE Callbacks
  BY <1>3 DEF Callbacks, Message, OnClose, Grace, Watchdog
<1>4. CASE UNCHANGED vars
  BY <1>4 DEF vars
<1> QED
  BY <1>1, <1>2, <1>3, <1>4 DEF Next

\* Whatever happens next keeps the calm.
LEMMA NextCalm ==
    ASSUME TypeOK, WaitInv, CalmInv, [Next]_vars
    PROVE  CalmInv'
<1> SUFFICES ASSUME ~disturbed'
             PROVE  Calm'
  BY DEF CalmInv
<1>1. Calm
  BY DisturbedStays DEF CalmInv
<1>2. CASE Loop
  BY <1>1, <1>2, LoopCalm
<1>3. CASE Server
  BY <1>1, <1>3, AnswerCalm DEF Server, ServerBargesIn
<1>4. CASE Callbacks
  BY <1>1, <1>4, CallbacksCalm
<1>5. CASE UNCHANGED vars
  BY <1>1, <1>5, IdleCalm DEF vars, Calm
<1> QED
  BY <1>2, <1>3, <1>4, <1>5 DEF Next

\* As long as nothing goes wrong, the row of a turn shows the content and the token
\* counts of that very turn: it waits for both the end of the generation and its
\* usage, in whichever order they come (rawBench.mjs:132-134, pluginBench.mjs:122-126).
THEOREM CalmRowsAreTheirOwn == Spec => []RowsOfTheirOwn
<1>1. Init => TypeOK /\ WaitInv /\ EndedByItsOwn /\ CalmInv
  <2> SUFFICES ASSUME Init
               PROVE  CalmInv
    BY InitWait
  <2>1. /\ driver = "resting" /\ started = 0 /\ answered = {} /\ row = NoRow
        /\ \A c \in Connections : due[c] = <<>>
        /\ epoch \in Connections
    BY DEF Init, Connections
  <2> QED
    BY <2>1 DEF CalmInv, Calm, NoRow
<1>2. TypeOK /\ WaitInv /\ EndedByItsOwn /\ CalmInv /\ [Next]_vars
      => (TypeOK /\ WaitInv /\ EndedByItsOwn /\ CalmInv)'
  BY NextWait, NextCalm
<1>3. CalmInv => RowsOfTheirOwn
  BY DEF CalmInv, Calm, RowsOfTheirOwn
<1> QED
  BY <1>1, <1>2, <1>3, PTL DEF Spec

=============================================================================
