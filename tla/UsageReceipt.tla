---------------------------- MODULE UsageReceipt ----------------------------
(***************************************************************************)
(* buildUsageReceipt (src/ops/aiUsage.ts): how the tokens a realtime       *)
(* plugin reports for one response become the billing units of a receipt.  *)
(* Units of zero are left out by the code and are 0 here.                  *)
(***************************************************************************)
EXTENDS Integers

Modalities == {"text", "audio", "image"}
Tokens == [Modalities -> Nat]

\* What the plugin reports.  cachedKnown: cachedTokensDetails is there.
\* reasoningTokens is 0 when it is absent; a remainder it may explain is not 0.
UsageMetrics ==
    [inputTokens : Nat, outputTokens : Nat, reasoningTokens : Nat,
     input : Tokens, cachedTokens : Nat, cachedKnown : BOOLEAN, cached : Tokens,
     output : Tokens]

\* total(details)
Total(details) == details["text"] + details["audio"] + details["image"]

\* Both plugins fill absent usage with zeros.
Unknown(m) == m.inputTokens = 0 /\ m.outputTokens = 0

\* Mutation: the cached details are not compared with their total.
InputIgnoringCache(m) == Unknown(m) \/ Total(m.input) # m.inputTokens

\* The modalities do not add up, and no input unit is stated.
InputInconsistent(m) ==
    \/ Unknown(m)
    \/ Total(m.input) # m.inputTokens
    \/ m.cachedTokens > 0 /\ (~m.cachedKnown \/ Total(m.cached) # m.cachedTokens)

Hit(m, modality) == IF m.cachedKnown THEN m.cached[modality] ELSE 0

\* More tokens of a modality came from the cache than there were.
OverHit(m, modality) == Hit(m, modality) > m.input[modality]

Stated(m, modality) == ~InputInconsistent(m) /\ ~OverHit(m, modality)

Remainder(m) == m.outputTokens - Total(m.output)

\* The tokens no modality accounts for are the reasoning tokens.
RemainderIsReasoning(m) == Remainder(m) > 0 /\ Remainder(m) = m.reasoningTokens

BuildReceipt(m) ==
    [input |-> [x \in Modalities |-> IF Stated(m, x) THEN m.input[x] - Hit(m, x) ELSE 0],
     cacheRead |-> [x \in Modalities |-> IF Stated(m, x) THEN Hit(m, x) ELSE 0],
     inputUnknown |-> InputInconsistent(m) \/ \E x \in Modalities : OverHit(m, x),
     output |-> [x \in Modalities |->
                    m.output[x] + (IF x = "text" /\ RemainderIsReasoning(m)
                                   THEN Remainder(m) ELSE 0)],
     outputUnknown |-> ~RemainderIsReasoning(m) /\ (Unknown(m) \/ Remainder(m) # 0)]

-----------------------------------------------------------------------------
(* What a receipt must satisfy *)

\* Tokens are neither dropped nor charged twice: units that are not marked as
\* unknown add up to what the plugin reported, cached ones apart (aiUsage.test.ts:23).
AccountsFor(m, r) ==
    /\ ~r.inputUnknown =>
         /\ Total(r.input) + Total(r.cacheRead) = m.inputTokens
         /\ m.cachedTokens > 0 => Total(r.cacheRead) = m.cachedTokens
    /\ ~r.outputUnknown => Total(r.output) = m.outputTokens

\* What is stated beside an unknown unit never charges more input than reported.
NoOvercharge(m, r) == Total(r.input) + Total(r.cacheRead) <= m.inputTokens

=============================================================================
