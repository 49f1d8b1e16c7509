--------------------------- MODULE DeliveryProofs ---------------------------
(***************************************************************************)
(* Theorems about Delivery and UsageReceipt: for every report of a plugin  *)
(* the receipt accounts for its tokens, and for every number of responses, *)
(* sessions and retries the receipts are settled before the job reports    *)
(* and a receiver gets nothing twice but for a lost answer.                *)
(***************************************************************************)
EXTENDS Delivery, TLAPS

-----------------------------------------------------------------------------
(* The receipt *)

\* The units of a receipt built from any report add up to the report, or say they
\* are unknown (buildUsageReceipt).
THEOREM ReceiptAccounts ==
    ASSUME NEW m \in UsageMetrics
    PROVE  AccountsFor(m, BuildReceipt(m)) /\ NoOvercharge(m, BuildReceipt(m))
<1> DEFINE r == BuildReceipt(m)
<1>0. /\ m.inputTokens \in Nat /\ m.outputTokens \in Nat /\ m.reasoningTokens \in Nat
      /\ m.cachedTokens \in Nat /\ m.cachedKnown \in BOOLEAN
      /\ m.input \in Tokens /\ m.cached \in Tokens /\ m.output \in Tokens
  BY DEF UsageMetrics
<1>1. \A x \in Modalities : m.input[x] \in Nat /\ m.cached[x] \in Nat /\ m.output[x] \in Nat
  BY <1>0 DEF Tokens
<1>2. "text" \in Modalities /\ "audio" \in Modalities /\ "image" \in Modalities
  BY DEF Modalities
<1>3. \A x \in Modalities : Hit(m, x) \in Nat
  BY <1>0, <1>1 DEF Hit
<1>4. \A x \in Modalities :
        /\ r.input[x] = IF Stated(m, x) THEN m.input[x] - Hit(m, x) ELSE 0
        /\ r.cacheRead[x] = IF Stated(m, x) THEN Hit(m, x) ELSE 0
        /\ r.output[x] = m.output[x] + (IF x = "text" /\ RemainderIsReasoning(m)
                                        THEN Remainder(m) ELSE 0)
  BY DEF BuildReceipt
<1>5. /\ r.inputUnknown <=> InputInconsistent(m) \/ \E x \in Modalities : OverHit(m, x)
      /\ r.outputUnknown <=> ~RemainderIsReasoning(m) /\ (Unknown(m) \/ Remainder(m) # 0)
  BY DEF BuildReceipt
<1>6. \A x \in Modalities :
        /\ r.input[x] \in Nat /\ r.cacheRead[x] \in Nat
        /\ r.input[x] + r.cacheRead[x] = IF Stated(m, x) THEN m.input[x] ELSE 0
  <2> SUFFICES ASSUME NEW x \in Modalities
               PROVE  /\ r.input[x] \in Nat /\ r.cacheRead[x] \in Nat
                      /\ r.input[x] + r.cacheRead[x] = IF Stated(m, x) THEN m.input[x] ELSE 0
    OBVIOUS
  <2>0. Hit(m, x) \in Nat /\ m.input[x] \in Nat
    BY <1>1, <1>3
  <2>1. CASE Stated(m, x)
    <3>1. r.input[x] = m.input[x] - Hit(m, x) /\ r.cacheRead[x] = Hit(m, x)
      BY <1>4, <2>1
    <3>2. Hit(m, x) <= m.input[x]
      BY <2>0, <2>1 DEF Stated, OverHit
    <3> HIDE DEF r
    <3> QED BY <2>0, <2>1, <3>1, <3>2
  <2>2. CASE ~Stated(m, x)
    <3>1. r.input[x] = 0 /\ r.cacheRead[x] = 0
      BY <1>4, <2>2
    <3> HIDE DEF r
    <3> QED BY <2>2, <3>1
  <2> QED BY <2>1, <2>2
<1>7. \A x \in Modalities : r.input[x] \in Nat /\ r.cacheRead[x] \in Nat
  BY <1>6
<1>8. Total(r.input) + Total(r.cacheRead)
        = (r.input["text"] + r.cacheRead["text"]) + (r.input["audio"] + r.cacheRead["audio"])
          + (r.input["image"] + r.cacheRead["image"])
  BY <1>2, <1>7 DEF Total
<1>9. ASSUME ~r.inputUnknown
      PROVE  /\ Total(r.input) + Total(r.cacheRead) = m.inputTokens
             /\ m.cachedTokens > 0 => Total(r.cacheRead) = m.cachedTokens
  <2>1. ~InputInconsistent(m) /\ \A x \in Modalities : Stated(m, x)
    BY <1>5, <1>9 DEF Stated
  <2>2. Total(m.input) = m.inputTokens
    BY <2>1 DEF InputInconsistent
  <2>3. Total(r.input) + Total(r.cacheRead) = m.inputTokens
    BY <1>2, <1>6, <1>8, <2>1, <2>2 DEF Total
  <2>4. ASSUME m.cachedTokens > 0 PROVE Total(r.cacheRead) = m.cachedTokens
    <3>1. m.cachedKnown /\ Total(m.cached) = m.cachedTokens
      BY <2>1, <2>4 DEF InputInconsistent
    <3>2. \A x \in Modalities : r.cacheRead[x] = m.cached[x]
      BY <1>4, <2>1, <3>1 DEF Hit
    <3> QED BY <1>2, <3>1, <3>2 DEF Total
  <2> QED BY <2>3, <2>4
<1>10. ASSUME ~r.outputUnknown PROVE Total(r.output) = m.outputTokens
  <2>1. Total(m.output) \in Nat /\ Remainder(m) = m.outputTokens - Total(m.output)
    BY <1>1, <1>2 DEF Total, Remainder
  <2>2. CASE RemainderIsReasoning(m)
    <3>1. /\ r.output["text"] = m.output["text"] + Remainder(m)
          /\ r.output["audio"] = m.output["audio"] /\ r.output["image"] = m.output["image"]
      BY <1>0, <1>1, <1>2, <1>4, <2>1, <2>2
    <3> QED BY <1>0, <1>1, <1>2, <2>1, <3>1 DEF Total
  <2>3. CASE ~RemainderIsReasoning(m)
    <3>1. Remainder(m) = 0
      BY <1>5, <1>10, <2>3
    <3>2. \A x \in Modalities : r.output[x] = m.output[x]
      <4> SUFFICES ASSUME NEW x \in Modalities PROVE r.output[x] = m.output[x]
        OBVIOUS
      <4>1. m.output[x] \in Nat
        BY <1>1
      <4>2. r.output[x] = m.output[x] + 0
        BY <1>4, <2>3
      <4> HIDE DEF r
      <4> QED BY <4>1, <4>2
    <3> QED BY <1>0, <1>2, <2>1, <3>1, <3>2 DEF Total
  <2> QED BY <2>2, <2>3
<1>11. NoOvercharge(m, r)
  <2>1. CASE InputInconsistent(m)
    <3>1. \A x \in Modalities : r.input[x] = 0 /\ r.cacheRead[x] = 0
      BY <1>4, <2>1 DEF Stated
    <3> QED BY <1>0, <1>2, <3>1 DEF NoOvercharge, Total
  <2>2. CASE ~InputInconsistent(m)
    <3>1. m.input["text"] + m.input["audio"] + m.input["image"] = m.inputTokens
      BY <2>2 DEF InputInconsistent, Total
    <3>2. ASSUME NEW x \in Modalities
          PROVE  /\ r.input[x] + r.cacheRead[x] \in Nat
                 /\ r.input[x] + r.cacheRead[x] <= m.input[x]
      <4>1. r.input[x] \in Nat /\ r.cacheRead[x] \in Nat /\ m.input[x] \in Nat
        BY <1>1, <1>7
      <4>2. r.input[x] + r.cacheRead[x] = m.input[x] \/ r.input[x] + r.cacheRead[x] = 0
        BY <1>6
      <4> HIDE DEF r
      <4> QED BY <4>1, <4>2
    <3> QED BY <1>1, <1>2, <1>8, <3>1, <3>2 DEF NoOvercharge
  <2> QED BY <2>1, <2>2
<1> QED BY <1>9, <1>10, <1>11 DEF AccountsFor

-----------------------------------------------------------------------------
(* Type correctness *)

\* What TryAgain makes of an item under way is typed, and its attempts stay within bounds.
LEMMA TryAgainType ==
    ASSUME TypeOK, NEW i \in Items, InFlight(i), TryAgain(i)
    PROVE  /\ sending' \in [Items -> {"none", "posting", "sleeping", "delivered", "failed", "skipped"}]
           /\ attempt' \in [Items -> Nat]
           /\ \A x \in Items : attempt'[x] > 0 => attempt'[x] < TotalAttempts(x)
           /\ \A x \in Items \ {i} : sending'[x] = sending[x]
           /\ sending'[i] \in {"sleeping", "failed"}
<1>1. attempt[i] \in Nat
  BY DEF TypeOK
<1>2. CASE attempt[i] + 1 < TotalAttempts(i)
  BY <1>1, <1>2 DEF TryAgain, TypeOK
<1>3. CASE ~(attempt[i] + 1 < TotalAttempts(i))
  BY <1>3 DEF TryAgain, TypeOK
<1> QED BY <1>2, <1>3

\* Every variable of the deliveries keeps its type and its bound, for every number
\* of responses and every setting of the retries.
THEOREM TypeCorrect == Spec => []TypeOK
<1>1. Init => TypeOK
  BY DEF Init, TypeOK, Items
<1>2. TypeOK /\ [Next]_vars => TypeOK'
  <2> SUFFICES ASSUME TypeOK, [Next]_vars PROVE TypeOK'
    OBVIOUS
  <2>0. ASSUME UNCHANGED settings PROVE \A x \in Items : TotalAttempts(x)' = TotalAttempts(x)
    BY <2>0 DEF settings, TotalAttempts
  <2>1. ASSUME NEW r \in Responses, MetricsCollected(r) PROVE TypeOK'
    <3>1. r \in Items
      BY DEF Items
    <3> QED BY <2>0, <2>1, <3>1 DEF MetricsCollected, TypeOK, settings, interviewVars
  <2>2. ASSUME NEW i \in Items, Posted(i) PROVE TypeOK'
    <3>1. InFlight(i)
      BY <2>2 DEF Posted, InFlight
    <3>2. CASE TryAgain(i)
      BY <2>0, <2>2, <3>1, <3>2, TryAgainType
         DEF Posted, TypeOK, settings, interviewVars, receiptVars
    <3>3. CASE Acknowledged(i)
      BY <2>0, <2>2, <3>3 DEF Posted, Acknowledged, TypeOK, settings, interviewVars, receiptVars
    <3> QED BY <2>2, <3>2, <3>3 DEF Posted
  <2>3. ASSUME NEW i \in Items, WakesUp(i) PROVE TypeOK'
    BY <2>0, <2>3 DEF WakesUp, TypeOK, settings, interviewVars, receiptVars
  <2>4. CASE SessionOver
    BY <2>0, <2>4 DEF SessionOver, TypeOK, settings, receiptVars, deliveryVars
  <2>5. CASE Reconnects
    BY <2>0, <2>5 DEF Reconnects, TypeOK, settings, receiptVars, deliveryVars
  <2>6. CASE Finally
    <3>1. CASE SendWebhook
      BY <2>0, <3>1 DEF SendWebhook, TypeOK, settings, interviewVars, receiptVars, Items
    <3>2. CASE AwaitReceipts \/ ReceiptsSettled \/ NothingToReport \/ WebhookSettled
      BY <2>0, <3>2 DEF AwaitReceipts, ReceiptsSettled, NothingToReport, WebhookSettled, TypeOK,
         settings, interviewVars, receiptVars, deliveryVars
    <3> QED BY <2>6, <3>1, <3>2 DEF Finally
  <2>7. CASE Finished \/ UNCHANGED vars
    BY <2>0, <2>7 DEF Finished, vars, TypeOK, settings, interviewVars, receiptVars, deliveryVars
  <2> QED BY <2>1, <2>2, <2>3, <2>4, <2>5, <2>6, <2>7 DEF Next
<1> QED BY <1>1, <1>2, PTL DEF Spec

-----------------------------------------------------------------------------
(* The accounting of every receipt of a run *)

\* A receipt is the one built from the report of its response.
ReceiptInv ==
    /\ DOMAIN metrics = DOMAIN receipt
    /\ \A r \in DOMAIN receipt : metrics[r] \in UsageMetrics /\ receipt[r] = BuildReceipt(metrics[r])

\* Every receipt sent states the tokens of its response, or that it does not know
\* them, whatever the plugin reports (agent.ts:284-295).
THEOREM TokensCorrect == Spec => []TokensAccountedFor
<1>1. Init => ReceiptInv
  BY DEF Init, ReceiptInv
<1>2. ReceiptInv /\ [Next]_vars => ReceiptInv'
  <2> SUFFICES ASSUME ReceiptInv, [Next]_vars PROVE ReceiptInv'
    OBVIOUS
  <2>1. ASSUME NEW r \in Responses, MetricsCollected(r) PROVE ReceiptInv'
    <3>1. PICK m \in Metrics :
            /\ metrics' = [x \in DOMAIN metrics \cup {r} |-> IF x = r THEN m ELSE metrics[x]]
            /\ receipt' = [x \in DOMAIN receipt \cup {r} |->
                              IF x = r THEN BuildReceipt(m) ELSE receipt[x]]
      BY <2>1 DEF MetricsCollected
    <3>2. m \in UsageMetrics
      BY DeliveryAssumption
    <3> QED BY <3>1, <3>2 DEF ReceiptInv
  <2>2. CASE UNCHANGED receiptVars
    BY <2>2 DEF receiptVars, ReceiptInv
  <2>3. (\E i \in Items : Posted(i) \/ WakesUp(i)) \/ SessionOver \/ Reconnects \/ Finally
          \/ Finished \/ UNCHANGED vars => UNCHANGED receiptVars
    BY DEF Posted, WakesUp, SessionOver, Reconnects, Finally, AwaitReceipts, ReceiptsSettled,
       SendWebhook, NothingToReport, WebhookSettled, Finished, vars, receiptVars
  <2> QED BY <2>1, <2>2, <2>3 DEF Next
<1>3. ReceiptInv => TokensAccountedFor
  BY ReceiptAccounts DEF ReceiptInv, TokensAccountedFor
<1> QED BY <1>1, <1>2, <1>3, PTL DEF Spec

-----------------------------------------------------------------------------
(* Duplicates *)

\* Nothing is sent before its time: a delivery begins where there was none.
NotYetSent ==
    /\ \A r \in Responses : r \notin DOMAIN receipt => sending[r] = "none"
    /\ main \in {"interview", "settling", "finalizing"} => sending[Webhook] = "none"

\* Every item taken has an answer that was lost, but for the one that was heard.
AnswersInv ==
    \A i \in Items : taken[i] = unanswered[i] + (IF sending[i] = "delivered" THEN 1 ELSE 0)

\* What one delivery does to the others and to its own state.
LEMMA PostedChanges ==
    ASSUME TypeOK, NEW i \in Items, Posted(i)
    PROVE  /\ sending[i] = "posting"
           /\ sending'[i] \in {"delivered", "sleeping", "failed"}
           /\ \A x \in Items \ {i} : sending'[x] = sending[x]
<1>1. sending[i] = "posting" /\ InFlight(i)
  BY DEF Posted, InFlight
<1>2. CASE TryAgain(i)
  BY <1>1, <1>2, TryAgainType
<1>3. CASE Acknowledged(i)
  BY <1>1, <1>3 DEF Acknowledged, TypeOK
<1> QED BY <1>1, <1>2, <1>3 DEF Posted

\* No step touches an item whose delivery has not begun, but the one that begins it.
LEMMA NotYetSentPreserved == TypeOK /\ NotYetSent /\ [Next]_vars => NotYetSent'
<1> SUFFICES ASSUME TypeOK, NotYetSent, [Next]_vars PROVE NotYetSent'
  OBVIOUS
<1>0. Webhook \in Items /\ Webhook \notin Responses /\ Responses \subseteq Items /\ DOMAIN sending = Items
  BY DeliveryAssumption DEF Items, Webhook, TypeOK
<1>1. ASSUME NEW r \in Responses, MetricsCollected(r) PROVE NotYetSent'
  <2>1. DOMAIN receipt' = DOMAIN receipt \cup {r}
    BY <1>1 DEF MetricsCollected
  <2>2. main' = main /\ sending' = [sending EXCEPT ![r] = "posting"]
    BY <1>1 DEF MetricsCollected
  <2> QED BY <1>0, <2>1, <2>2 DEF NotYetSent
<1>2. ASSUME NEW i \in Items, Posted(i) PROVE NotYetSent'
  <2>1. main' = main /\ receipt' = receipt
    BY <1>2 DEF Posted, receiptVars
  <2> QED BY <1>0, <1>2, <2>1, PostedChanges DEF NotYetSent
<1>3. ASSUME NEW i \in Items, WakesUp(i) PROVE NotYetSent'
  <2>1. sending[i] = "sleeping" /\ main' = main /\ receipt' = receipt
        /\ \A x \in Items \ {i} : sending'[x] = sending[x]
    BY <1>0, <1>3 DEF WakesUp, receiptVars
  <2> QED BY <1>0, <2>1 DEF NotYetSent
<1>4. CASE SessionOver \/ Reconnects \/ Finished \/ UNCHANGED vars
  BY <1>4 DEF SessionOver, Reconnects, Finished, vars, receiptVars, deliveryVars, NotYetSent
<1>5. CASE SendWebhook
  BY <1>0, <1>5 DEF SendWebhook, receiptVars, NotYetSent
<1>6. CASE AwaitReceipts \/ ReceiptsSettled \/ NothingToReport \/ WebhookSettled
  BY <1>6 DEF AwaitReceipts, ReceiptsSettled, NothingToReport, WebhookSettled, receiptVars,
     deliveryVars, NotYetSent
<1> QED BY <1>1, <1>2, <1>3, <1>4, <1>5, <1>6 DEF Next, Finally

\* Every settled fetch keeps the books: what was taken and not acknowledged is unanswered.
LEMMA AnswersInvPreserved == TypeOK /\ NotYetSent /\ AnswersInv /\ [Next]_vars => AnswersInv'
<1> USE DEF AnswersInv
<1> SUFFICES ASSUME TypeOK, NotYetSent, AnswersInv, [Next]_vars PROVE AnswersInv'
  OBVIOUS
<1>0. /\ \A x \in Items : taken[x] \in Nat /\ unanswered[x] \in Nat
      /\ DOMAIN taken = Items /\ DOMAIN unanswered = Items /\ DOMAIN sending = Items
      /\ Webhook \in Items /\ Responses \subseteq Items
  BY DEF TypeOK, Items
<1>1. ASSUME NEW i \in Items, Posted(i) PROVE AnswersInv'
  <2>1. /\ sending[i] = "posting"
        /\ \A x \in Items \ {i} : sending'[x] = sending[x]
    BY <1>1, PostedChanges
  <2>2. taken[i] = unanswered[i]
    BY <1>0, <2>1
  <2>3. ASSUME TryAgain(i) PROVE sending'[i] # "delivered"
    BY <2>1, <2>3, TryAgainType DEF InFlight
  <2>4. CASE /\ taken' = [taken EXCEPT ![i] = @ + 1]
             /\ Acknowledged(i) /\ UNCHANGED unanswered
    <3>1. sending'[i] = "delivered"
      BY <1>0, <2>4 DEF Acknowledged
    <3> QED BY <1>0, <2>1, <2>2, <2>4, <3>1
  <2>5. CASE /\ taken' = [taken EXCEPT ![i] = @ + 1]
             /\ unanswered' = [unanswered EXCEPT ![i] = @ + 1]
             /\ TryAgain(i)
    BY <1>0, <2>1, <2>2, <2>3, <2>5
  <2>6. CASE TryAgain(i) /\ UNCHANGED <<taken, unanswered>>
    BY <1>0, <2>1, <2>2, <2>3, <2>6
  <2> QED BY <1>1, <2>4, <2>5, <2>6 DEF Posted
<1>2. ASSUME NEW i \in Items, WakesUp(i) PROVE AnswersInv'
  BY <1>0, <1>2 DEF WakesUp
<1>3. ASSUME NEW r \in Responses, MetricsCollected(r) PROVE AnswersInv'
  <2>1. sending[r] = "none"
    BY <1>3 DEF MetricsCollected, NotYetSent
  <2> QED BY <1>0, <1>3, <2>1 DEF MetricsCollected
<1>4. CASE SendWebhook
  <2>1. sending[Webhook] = "none"
    BY <1>4 DEF SendWebhook, NotYetSent
  <2> QED BY <1>0, <1>4, <2>1 DEF SendWebhook
<1>5. CASE SessionOver \/ Reconnects \/ Finished \/ UNCHANGED vars
  BY <1>5 DEF SessionOver, Reconnects, Finished, vars, deliveryVars
<1>6. CASE AwaitReceipts \/ ReceiptsSettled \/ NothingToReport \/ WebhookSettled
  BY <1>6 DEF AwaitReceipts, ReceiptsSettled, NothingToReport, WebhookSettled, deliveryVars
<1> QED BY <1>1, <1>2, <1>3, <1>4, <1>5, <1>6 DEF Next, Finally

\* A receiver sees an item again only because an answer was lost, and every
\* outcome is the truth, for every number of retries (webhook.ts:58, aiUsage.ts:97).
THEOREM DuplicatesExplained == Spec => []DuplicatesOnlyAfterLoss
<1>1. Init => NotYetSent /\ AnswersInv
  BY DEF Init, NotYetSent, AnswersInv, Items
<1>2. TypeOK /\ AnswersInv => DuplicatesOnlyAfterLoss
  BY DEF TypeOK, AnswersInv, DuplicatesOnlyAfterLoss
<1> QED
  BY <1>1, <1>2, TypeCorrect, NotYetSentPreserved, AnswersInvPreserved, PTL DEF Spec

-----------------------------------------------------------------------------
(* Receipts before the report *)

\* Once the finally block has its list of deliveries there is no session left to
\* add to them; the list has all that are in flight.
TeardownInv ==
    /\ main # "interview" => session = "over"
    /\ main = "settling" => \A r \in Responses : InFlight(r) => r \in awaited
    /\ main \in {"finalizing", "reporting", "done"} => \A r \in Responses : ~InFlight(r)

\* No usage receipt is under way when the job reports, whatever sessions and
\* retries there were (agent.ts:515-516).
THEOREM ReceiptsSettledFirst == Spec => []ReceiptsBeforeReport
<1>1. Init => TeardownInv
  BY DEF Init, TeardownInv
<1>2. TypeOK /\ TeardownInv /\ [Next]_vars => TeardownInv'
  <2> SUFFICES ASSUME TypeOK, TeardownInv, [Next]_vars PROVE TeardownInv'
    OBVIOUS
  <2>0. Webhook \notin Responses /\ Responses \subseteq Items /\ DOMAIN sending = Items
    BY DeliveryAssumption DEF Items, Webhook, TypeOK
  <2>1. ASSUME NEW r \in Responses, MetricsCollected(r) PROVE TeardownInv'
    BY <2>1 DEF MetricsCollected, interviewVars, TeardownInv
  <2>2. ASSUME NEW i \in Items, Posted(i) PROVE TeardownInv'
    <3>1. /\ main' = main /\ session' = session /\ awaited' = awaited
          /\ InFlight(i)
          /\ \A x \in Items \ {i} : sending'[x] = sending[x]
      BY <2>2, PostedChanges DEF Posted, interviewVars, InFlight
    <3> QED BY <2>0, <3>1 DEF TeardownInv, InFlight
  <2>3. ASSUME NEW i \in Items, WakesUp(i) PROVE TeardownInv'
    <3>1. /\ main' = main /\ session' = session /\ awaited' = awaited
          /\ InFlight(i)
          /\ \A x \in Items \ {i} : sending'[x] = sending[x]
      BY <2>0, <2>3 DEF WakesUp, interviewVars, InFlight
    <3> QED BY <2>0, <3>1 DEF TeardownInv, InFlight
  <2>4. CASE SessionOver \/ Reconnects
    BY <2>4 DEF SessionOver, Reconnects, deliveryVars, TeardownInv, InFlight
  <2>5. CASE SendWebhook
    BY <2>0, <2>5 DEF SendWebhook, interviewVars, TeardownInv, InFlight
  <2>6. CASE AwaitReceipts \/ ReceiptsSettled \/ NothingToReport \/ WebhookSettled
    BY <2>6 DEF AwaitReceipts, ReceiptsSettled, NothingToReport, WebhookSettled, RunAwaited,
       interviewVars, deliveryVars, TeardownInv, InFlight
  <2>7. CASE Finished \/ UNCHANGED vars
    BY <2>7 DEF Finished, vars, interviewVars, deliveryVars, TeardownInv, InFlight
  <2> QED BY <2>1, <2>2, <2>3, <2>4, <2>5, <2>6, <2>7 DEF Next, Finally
<1>3. TeardownInv => ReceiptsBeforeReport
  BY DEF TeardownInv, ReceiptsBeforeReport
<1> QED BY <1>1, <1>2, <1>3, TypeCorrect, PTL DEF Spec

=============================================================================
