------------------------------ MODULE BenchTurns ------------------------------
(***************************************************************************)
(* How the latency benchmarks keep their turns apart: the loop that speaks *)
(* a turn and waits for its end (scripts/bench/lib/common.mjs), and the    *)
(* callbacks and timers that may end it, of the raw Gemini socket          *)
(* (rawBench.mjs) and of the LiveKit plugin (pluginBench.mjs).  The raw    *)
(* harness can also close its session and talk on over a second one.       *)
(*                                                                         *)
(* The model server answers a turn once its speech has ended.  It may also *)
(* take a pause in the speech for the end, answer, and be interrupted: a   *)
(* barge-in.  An answer is a sequence of messages:                         *)
(*    "begin"    the first content     (generation_created)                *)
(*    "usage"    its token counts      (metrics_collected)                 *)
(*    "complete" turnComplete          (the generation's streams close).   *)
(* What continues after a resolver is called runs before any other         *)
(* callback, and is part of the step.                                      *)
(***************************************************************************)
EXTENDS Integers, Sequences, SequencesExt

CONSTANTS
    Harnesses, \* those of "raw" and "plugin" that are looked at
    Turns      \* turns of the loop, at least one

ASSUME BenchAssumption == Harnesses \subseteq {"raw", "plugin"} /\ Turns \in Nat \ {0}

VARIABLES
    harness,
    driver,        \* "resting", "speaking", "waiting", "connecting", "done"
    started,       \* turns started
    turn,          \* the record of the open turn, or NoTurn
    waiter,        \* the turn whose resolver is turnEnded, or 0
    watchdogs,     \* turns whose watchdog is set
    graces,        \* turn -> grace timers set for it
    epoch,         \* connectEpoch
    connections,   \* connections whose onclose is still to come
    sessionClosed,
    due,           \* connection -> messages on their way
    answered,      \* turns the server has answered at their end
    row,           \* of the last turn: what ended it, and what it was given
    disturbed      \* history: a barge-in, an answer short of its usage, a close or
                   \* a timer that had something to do

timerVars == <<watchdogs, graces>>
connectionVars == <<epoch, connections, sessionClosed>>
serverVars == <<due, answered>>
vars == <<harness, driver, started, turn, waiter, timerVars, connectionVars,
          serverVars, row, disturbed>>

\* The turn after the reconnect comes on top.
AllTurns == 1..(Turns + 1)
Connections == {1, 2}

\* openTurn: nothing has been seen yet.  first and usage name the turns whose content
\* came first and whose usage came last, complete and counted are the flags
\* turnCompleteSeen and usageSeen (generationDone, metricsReceived).
NewTurn(t) == [id |-> t, first |-> 0, usage |-> 0, complete |-> FALSE, counted |-> FALSE]
NoTurn == NewTurn(0)
NoRow == [turn |-> 0, cause |-> "complete", of |-> 0, first |-> 0, usage |-> 0]

Init ==
    /\ harness \in Harnesses
    /\ driver = "resting" /\ started = 0
    /\ turn = NoTurn /\ waiter = 0 /\ watchdogs = {} /\ graces = [t \in AllTurns |-> 0]
    /\ epoch = 1 /\ connections = {1} /\ sessionClosed = FALSE
    /\ due = [c \in Connections |-> <<>>] /\ answered = {}
    /\ row = NoRow /\ disturbed = FALSE

-----------------------------------------------------------------------------
(* The end of a turn *)

\* Mutation: the watchdog of a turn that has ended is left set.
WatchdogsKept == watchdogs

\* clearTimeout after the wait.
WatchdogsLeft == watchdogs \ {waiter}

\* turnEnded is called: waitForTurnEnd returns what the turn, t, has been given.  `of'
\* is the turn the cause comes from: the one the message answers, the one the timer was
\* set in, or the one that is spoken over the closed connection.
EndTurn(cause, of, t) ==
    /\ row' = [turn |-> t.id, cause |-> cause, of |-> of, first |-> t.first, usage |-> t.usage]
    /\ driver' = "resting" /\ waiter' = 0 /\ turn' = NoTurn
    /\ watchdogs' = WatchdogsLeft

\* Mutation: the turn ends with turnComplete.
FinishedUncounted(t) == t.complete

Finished(t) == t.complete /\ t.counted

\* A handler leaves the open turn as t.
TurnSeen(t) == turn' = t /\ UNCHANGED <<row, driver, waiter, watchdogs>>

\* maybeFinishTurn, after that.
MaybeFinishTurn(cause, of, t) ==
    IF waiter # 0 /\ Finished(t) THEN EndTurn(cause, of, t) ELSE TurnSeen(t)

-----------------------------------------------------------------------------
(* The loop *)

\* speakTurn: openTurn, and the utterance is queued.
Speak ==
    /\ driver = "resting"
    /\ \/ started < Turns
       \/ started = Turns /\ epoch = 2
    /\ driver' = "speaking" /\ started' = started + 1
    /\ turn' = NewTurn(started + 1)
    /\ UNCHANGED <<harness, waiter, timerVars, connectionVars, serverVars, row, disturbed>>

\* Mutation: no watchdog.
NoWatchdog == watchdogs

SetWatchdog == watchdogs \cup {turn.id}

\* The pacer has sent the last chunk of speech; waitForTurnEnd.
Wait ==
    /\ driver = "speaking"
    /\ driver' = "waiting" /\ waiter' = turn.id /\ watchdogs' = SetWatchdog
    /\ UNCHANGED <<harness, started, turn, graces, connectionVars, serverVars, row, disturbed>>

\* --resume-test, with a handle: the session is closed and the next one asked for.
Reconnect ==
    /\ driver = "resting" /\ started = Turns /\ epoch = 1 /\ harness = "raw"
    /\ driver' = "connecting" /\ epoch' = 2
    /\ UNCHANGED <<harness, started, turn, waiter, timerVars, connections, sessionClosed,
                   serverVars, row, disturbed>>

Connected ==
    /\ driver = "connecting"
    /\ driver' = "resting" /\ connections' = connections \cup {2} /\ sessionClosed' = FALSE
    /\ UNCHANGED <<harness, started, turn, waiter, timerVars, epoch, serverVars, row, disturbed>>

\* The loop is over, or the second connection cannot be made.
Finish ==
    /\ \/ driver = "connecting"
       \/ driver = "resting" /\ epoch = 1 /\ started = Turns
       \/ driver = "resting" /\ started = Turns + 1
    /\ driver' = "done"
    /\ UNCHANGED <<harness, started, turn, waiter, timerVars, connectionVars, serverVars, row, disturbed>>

-----------------------------------------------------------------------------
(* The server *)

Answer(of, kinds) == [i \in DOMAIN kinds |-> [of |-> of, kind |-> kinds[i]]]

\* The plugin reports the usage before it closes the streams.
WholeAnswers ==
    {<<"begin", "usage", "complete">>}
    \cup IF harness = "raw" THEN {<<"begin", "complete", "usage">>} ELSE {}

Hears == driver # "done" /\ epoch \in connections /\ ~sessionClosed

\* The end of a turn's speech is answered, however late.
ServerAnswers ==
    /\ Hears /\ started # 0 /\ driver # "speaking" /\ started \notin answered
    /\ \E kinds \in WholeAnswers \cup {<<"begin", "complete">>} :
          /\ due' = [due EXCEPT ![epoch] = @ \o Answer(started, kinds)]
          /\ disturbed' = (disturbed \/ kinds \notin WholeAnswers)
    /\ answered' = answered \cup {started}
    /\ UNCHANGED <<harness, driver, started, turn, waiter, timerVars, connectionVars, row>>

\* Bound: a barge-in is the first thing that goes wrong.
ServerBargesIn ==
    /\ Hears /\ driver = "speaking" /\ ~disturbed
    /\ disturbed' = TRUE
    /\ \E kinds \in WholeAnswers \cup {<<"begin", "complete">>} :
          due' = [due EXCEPT ![epoch] = @ \o Answer(started, kinds)]
    /\ UNCHANGED <<harness, driver, started, turn, waiter, timerVars, connectionVars,
                   answered, row>>

-----------------------------------------------------------------------------
(* The callbacks *)

\* The plugin's streams are only read if a turn was open when they began: nobody
\* sees their end, the first one on its way.
Remaining(queue) ==
    IF harness = "plugin" /\ turn = NoTurn /\ Head(queue).kind = "begin"
    THEN RemoveFirstMatch(Tail(queue), LAMBDA m : m.kind = "complete")
    ELSE Tail(queue)

\* The open turn after a message m.
Seen(m) ==
    LET begun == [turn EXCEPT !.first = IF @ = 0 THEN m.of ELSE @]
    IN  CASE m.kind = "begin" -> begun
          [] m.kind = "usage" -> [turn EXCEPT !.usage = m.of, !.counted = TRUE]
          [] m.kind = "complete" ->
                [IF harness = "raw" THEN begun ELSE turn EXCEPT !.complete = TRUE]

\* onServerMessage, or the handler of the plugin's event; nothing is kept of what
\* comes while no turn is open.  Content finishes no turn, only the usage and the
\* end of an answer do.
Message(c) ==
    /\ driver # "done" /\ c \in connections /\ due[c] # <<>>
    /\ due' = [due EXCEPT ![c] = Remaining(@)]
    /\ LET m == Head(due[c])
       IN  IF turn = NoTurn
           THEN UNCHANGED <<turn, row, driver, waiter, timerVars>>
           ELSE /\ IF m.kind = "begin" THEN TurnSeen(Seen(m))
                   ELSE MaybeFinishTurn("complete", m.of, Seen(m))
                /\ graces' = IF m.kind = "complete"
                             THEN [graces EXCEPT ![turn.id] = @ + 1] ELSE graces
    /\ UNCHANGED <<harness, started, connectionVars, answered, disturbed>>

\* The grace timer of a turn: the raw harness ends it, the plugin's takes the
\* metrics for received.
Grace(t) ==
    /\ driver # "done" /\ graces[t] > 0 /\ graces' = [graces EXCEPT ![t] = @ - 1]
    /\ CASE harness = "raw" /\ turn.id = t /\ waiter # 0 ->
               EndTurn("grace", t, turn) /\ disturbed' = TRUE
         [] harness = "plugin" /\ turn.id = t /\ ~turn.counted ->
               /\ MaybeFinishTurn("grace", t, [turn EXCEPT !.counted = TRUE])
               /\ disturbed' = TRUE
         [] OTHER -> UNCHANGED <<turn, row, driver, waiter, watchdogs, disturbed>>
    /\ UNCHANGED <<harness, started, connectionVars, serverVars>>

\* Max-wait is over; at once if the session is closed.
Watchdog(t) ==
    /\ driver # "done" /\ t \in watchdogs
    /\ IF waiter # 0
       THEN EndTurn("watchdog", t, turn) /\ disturbed' = TRUE
       ELSE watchdogs' = watchdogs \ {t} /\ UNCHANGED <<turn, row, driver, waiter, disturbed>>
    /\ UNCHANGED <<harness, started, graces, connectionVars, serverVars>>

\* Mutation: an onclose is taken for the present connection's.
AnyConnection(c) == TRUE

\* A newer connection is active otherwise.
Active(c) == c = epoch

\* onclose of the raw harness: by the server, or after session.close().
OnClose(c) ==
    /\ driver # "done" /\ harness = "raw" /\ c \in connections
    /\ connections' = connections \ {c} /\ due' = [due EXCEPT ![c] = <<>>]
    /\ IF Active(c)
       THEN /\ sessionClosed' = TRUE /\ disturbed' = TRUE
            /\ IF waiter # 0 THEN EndTurn("close", IF c = epoch THEN turn.id ELSE 0, turn)
               ELSE UNCHANGED <<turn, row, driver, waiter, watchdogs>>
       ELSE UNCHANGED <<sessionClosed, disturbed, turn, row, driver, waiter, watchdogs>>
    /\ UNCHANGED <<harness, started, graces, epoch, answered>>

-----------------------------------------------------------------------------

Loop == Speak \/ Wait \/ Reconnect \/ Connected \/ Finish
Server == ServerAnswers \/ ServerBargesIn
Callbacks == \/ \E c \in Connections : Message(c) \/ OnClose(c)
             \/ \E t \in AllTurns : Grace(t) \/ Watchdog(t)

\* After the loop the report is written, and no callback adds to it.
Next == Loop \/ Server \/ Callbacks

\* Timers fire, the pacer comes to the end of its queue, the loop goes on, and an
\* attempt to connect succeeds or fails; the server owes nothing.
Spec == Init /\ [][Next]_vars /\ WF_vars(Speak \/ Wait) /\ WF_vars(Finish)
        /\ \A t \in AllTurns : WF_vars(Watchdog(t))

-----------------------------------------------------------------------------
(* Properties *)

\* A timer or a close that ends a turn's wait belongs to that turn: a grace timer or a
\* watchdog that was set in it, or the close of the connection it is spoken over, and
\* none that an earlier turn or connection has left behind (rawBench.mjs:212, 228, 302).
\* A late answer to an earlier turn can end it: see CompletedByItsAnswer.
EndedByItsOwn == row.cause # "complete" => row.of = row.turn

\* As long as nothing goes wrong, a row shows the content and the token counts of
\* its own turn, whichever of the two comes first (rawBench.mjs:132-134).
RowsOfTheirOwn ==
    ~disturbed => row.cause = "complete" /\ row.first = row.turn /\ row.usage = row.turn

\* Every turn has its end, if the server falls silent, its socket dies or its
\* messages come while the bench still speaks (rawBench.mjs:287-304).
BenchEnds == <>(driver = "done")

-----------------------------------------------------------------------------
(* A statement of the repository the code does not keep *)

\* scripts/bench/lib/common.mjs:119-120: a wait ends with "the turn's recorded event
\* timestamps once the model finished responding": what completes it answers that turn.
\* In BenchTurns.cfg in place of the invariants, TLC refutes it.
CompletedByItsAnswer == row.cause = "complete" => row.of = row.turn

=============================================================================
