------------------------------ MODULE Delivery ------------------------------
(***************************************************************************)
(* What the child process sends over HTTP: one usage receipt for each      *)
(* realtime response (deliverUsage, src/ops/aiUsage.ts) while the          *)
(* interview goes on, and the final-state webhook (sendWebhook,            *)
(* src/ops/webhook.ts) after the finally block of src/agent.ts has waited  *)
(* for the receipts.                                                       *)
(*                                                                         *)
(* The receiver is outside the code: it takes a request or not, and its    *)
(* answer may be lost, late or not 2xx either way.                         *)
(***************************************************************************)
EXTENDS UsageReceipt

CONSTANTS
    Responses,       \* realtime responses of the interview, one receipt each
    Metrics,         \* what the plugin may report for one of them
    RetrySettings,   \* what WEBHOOK_MAX_RETRIES may be
    MaxSessions      \* bound: realtime sessions of the interview

ASSUME DeliveryAssumption ==
    /\ Metrics \subseteq UsageMetrics
    /\ RetrySettings \subseteq Int      \* intOr: any integer
    /\ "webhook" \notin Responses
    /\ MaxSessions \in Nat

Webhook == "webhook"
Items == Responses \cup {Webhook}

VARIABLES
    maxRetries,      \* env.webhookMaxRetries
    configured,      \* env.webhookUrl and env.aiUsageUrl with its token
    session,         \* a realtime session is live, between two, or the run is over
    sessions,        \* sessions started so far
    main,            \* where the finally block is
    awaited,         \* the deliveries allSettled was given
    metrics,         \* response -> what the plugin reported, for those it did
    receipt,         \* response -> the receipt built for it
    sending,         \* item -> where its delivery is
    attempt,         \* item -> its attempt counter
    taken,           \* item -> how often the receiver has taken it
    unanswered       \* item -> how often it was taken and the sender not told

settings == <<maxRetries, configured>>
interviewVars == <<session, sessions>>
receiptVars == <<metrics, receipt>>
deliveryVars == <<sending, attempt, taken, unanswered>>
vars == <<settings, interviewVars, main, awaited, receiptVars, deliveryVars>>

InFlight(i) == sending[i] \in {"posting", "sleeping"}

Init ==
    /\ maxRetries \in RetrySettings
    /\ configured \in SUBSET {"webhook", "usage"}
    /\ session = "live" /\ sessions = 1
    /\ main = "interview" /\ awaited = {}
    /\ metrics = <<>> /\ receipt = <<>>
    /\ sending = [i \in Items |-> "none"]
    /\ attempt = [i \in Items |-> 0]
    /\ taken = [i \in Items |-> 0] /\ unanswered = [i \in Items |-> 0]

-----------------------------------------------------------------------------
(* The two retry loops *)

\* sendWebhook makes maxRetries + 1 attempts, deliverUsage three.
TotalAttempts(i) == IF i = Webhook THEN maxRetries + 1 ELSE 3

\* Mutation: an attempt that failed does not count.
SleepWithoutCounting(i) ==
    /\ sending' = [sending EXCEPT ![i] = "sleeping"]
    /\ UNCHANGED attempt

\* Backoff before the next attempt, or false after the last.
TryAgain(i) ==
    IF attempt[i] + 1 < TotalAttempts(i)
    THEN /\ sending' = [sending EXCEPT ![i] = "sleeping"]
         /\ attempt' = [attempt EXCEPT ![i] = @ + 1]
    ELSE sending' = [sending EXCEPT ![i] = "failed"] /\ UNCHANGED attempt

\* Mutation: response.ok is not looked at.
AnswerIgnored(i) == TryAgain(i)

\* response.ok
Acknowledged(i) == sending' = [sending EXCEPT ![i] = "delivered"] /\ UNCHANGED attempt

\* fetchFn settles: with a 2xx, or with an error, another status or (usage only)
\* the timeout, whether or not the receiver has taken the request.
Posted(i) ==
    /\ sending[i] = "posting"
    /\ \/ /\ taken' = [taken EXCEPT ![i] = @ + 1]
          /\ Acknowledged(i) /\ UNCHANGED unanswered
       \/ /\ taken' = [taken EXCEPT ![i] = @ + 1]
          /\ unanswered' = [unanswered EXCEPT ![i] = @ + 1]
          /\ TryAgain(i)
       \/ TryAgain(i) /\ UNCHANGED <<taken, unanswered>>
    /\ UNCHANGED <<settings, interviewVars, main, awaited, receiptVars>>

\* The backoff is over.
WakesUp(i) ==
    /\ sending[i] = "sleeping"
    /\ sending' = [sending EXCEPT ![i] = "posting"]
    /\ UNCHANGED <<settings, interviewVars, main, awaited, receiptVars, attempt, taken, unanswered>>

-----------------------------------------------------------------------------
(* The interview *)

\* MetricsCollected of a session: nothing without URL and token.
MetricsCollected(r) ==
    /\ session = "live" /\ "usage" \in configured /\ r \notin DOMAIN receipt
    /\ \E m \in Metrics :
         /\ metrics' = [x \in DOMAIN metrics \cup {r} |-> IF x = r THEN m ELSE metrics[x]]
         /\ receipt' = [x \in DOMAIN receipt \cup {r} |->
                           IF x = r THEN BuildReceipt(m) ELSE receipt[x]]
    /\ sending' = [sending EXCEPT ![r] = "posting"]
    /\ UNCHANGED <<settings, interviewVars, main, awaited, attempt, taken, unanswered>>

\* A session of the run is closed, and another one follows or the run settles.
SessionOver ==
    /\ session = "live"
    /\ session' \in {"between", "over"}
    /\ UNCHANGED <<settings, sessions, main, awaited, receiptVars, deliveryVars>>

Reconnects ==
    /\ session = "between"
    /\ \/ session' = "live" /\ sessions < MaxSessions /\ sessions' = sessions + 1
       \/ session' = "over" /\ UNCHANGED sessions
    /\ UNCHANGED <<settings, main, awaited, receiptVars, deliveryVars>>

-----------------------------------------------------------------------------
(* The finally block *)

\* Mutation: the receipts are awaited before the run has settled.
RunNotAwaited == TRUE

\* await interviewRun
RunAwaited == session = "over"

\* Promise.allSettled([...usageDeliveries]): the deliveries in flight by now.
AwaitReceipts ==
    /\ main = "interview" /\ RunAwaited
    /\ awaited' = {r \in Responses : InFlight(r)}
    /\ main' = "settling"
    /\ UNCHANGED <<settings, interviewVars, receiptVars, deliveryVars>>

ReceiptsSettled ==
    /\ main = "settling" /\ \A r \in awaited : ~InFlight(r)
    /\ main' = "finalizing"
    /\ UNCHANGED <<settings, interviewVars, awaited, receiptVars, deliveryVars>>

\* The record is read, or is not there, and sendWebhook called: it skips without
\* a URL and fails at once without an attempt to make.
SendWebhook ==
    /\ main = "finalizing"
    /\ main' = "reporting"
    /\ sending' = [sending EXCEPT ![Webhook] =
                      IF Webhook \notin configured THEN "skipped"
                      ELSE IF TotalAttempts(Webhook) > 0 THEN "posting" ELSE "failed"]
    /\ UNCHANGED <<settings, interviewVars, awaited, receiptVars, attempt, taken, unanswered>>

\* tracker.get finds no record or rejects: there is no webhook.
NothingToReport ==
    /\ main = "finalizing"
    /\ main' = "done"
    /\ UNCHANGED <<settings, interviewVars, awaited, receiptVars, deliveryVars>>

WebhookSettled ==
    /\ main = "reporting" /\ ~InFlight(Webhook)
    /\ main' = "done"
    /\ UNCHANGED <<settings, interviewVars, awaited, receiptVars, deliveryVars>>

Finally == AwaitReceipts \/ ReceiptsSettled \/ SendWebhook \/ NothingToReport \/ WebhookSettled

Finished == main = "done" /\ UNCHANGED vars

Next ==
    \/ \E r \in Responses : MetricsCollected(r)
    \/ \E i \in Items : Posted(i) \/ WakesUp(i)
    \/ SessionOver \/ Reconnects
    \/ Finally \/ Finished

\* fetch settles and sleeps end; the run settles (JobSettles of InterviewJob).
Fairness ==
    /\ \A i \in Items : WF_vars(Posted(i)) /\ WF_vars(WakesUp(i))
    /\ WF_vars(SessionOver) /\ WF_vars(Reconnects) /\ WF_vars(Finally)

Spec == Init /\ [][Next]_vars
FairSpec == Spec /\ Fairness

-----------------------------------------------------------------------------
(* Properties *)

TypeOK ==
    /\ maxRetries \in RetrySettings /\ configured \subseteq {"webhook", "usage"}
    /\ session \in {"live", "between", "over"} /\ sessions \in Nat
    /\ main \in {"interview", "settling", "finalizing", "reporting", "done"}
    /\ awaited \subseteq Responses
    /\ DOMAIN metrics = DOMAIN receipt /\ DOMAIN receipt \subseteq Responses
    /\ sending \in [Items -> {"none", "posting", "sleeping", "delivered", "failed", "skipped"}]
    /\ attempt \in [Items -> Nat]
    /\ \A i \in Items : attempt[i] > 0 => attempt[i] < TotalAttempts(i)
    /\ taken \in [Items -> Nat] /\ unanswered \in [Items -> Nat]

\* When the job reports, no usage receipt is under way, also none that was built
\* after allSettled was given its list: the process may exit (agent.ts:515-516).
ReceiptsBeforeReport ==
    main \in {"finalizing", "reporting", "done"} => \A r \in Responses : ~InFlight(r)

\* The receiver gets an item once more only for an answer that was lost, and
\* each outcome is the truth: delivered was taken, failed was never acknowledged.
DuplicatesOnlyAfterLoss ==
    \A i \in Items :
        /\ taken[i] <= unanswered[i] + 1
        /\ sending[i] = "delivered" => taken[i] = unanswered[i] + 1
        /\ sending[i] = "failed" => taken[i] = unanswered[i]

\* Every receipt states the tokens of its response, or that it does not know them.
TokensAccountedFor ==
    \A r \in DOMAIN receipt :
        AccountsFor(metrics[r], receipt[r]) /\ NoOvercharge(metrics[r], receipt[r])

\* Retries come to an end, and so does the job, whatever the receiver does.
DeliverySettles == <>(main = "done")

=============================================================================
