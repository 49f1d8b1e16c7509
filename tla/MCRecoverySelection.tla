------------------------ MODULE MCRecoverySelection ------------------------
EXTENDS RecoverySelection

\* Up to four turns: of a speaker with up to three characters, or a system note.
SmallTurns == {[role |-> "candidate", length |-> n] : n \in 0..3}
              \cup {[role |-> "system", length |-> 1]}
MCTranscripts == UNION {[1..n -> SmallTurns] : n \in 0..4}

=============================================================================
