----------------------------- MODULE MCDelivery -----------------------------
EXTENDS Delivery

CONSTANTS r1, r2

TextAndAudio(t, a) ==
    [x \in Modalities |-> CASE x = "text" -> t [] x = "audio" -> a [] x = "image" -> 0]

\* Five tokens of input, two of them cached, and an output with a reasoning token
\* that no modality counts: once consistent, once with a cached token missing.
MCMetrics ==
    {[inputTokens |-> 5, outputTokens |-> 3, reasoningTokens |-> 1,
      input |-> TextAndAudio(2, 3), cachedTokens |-> 2, cachedKnown |-> TRUE,
      cached |-> cached, output |-> TextAndAudio(0, 2)] :
        cached \in {TextAndAudio(1, 1), TextAndAudio(1, 0)}}

MCRetrySettings == {-1, 0, 2}

=============================================================================
