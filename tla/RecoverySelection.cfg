SPECIFICATION Spec
CONSTANTS
    MaxTurnsSettings = {1, 2, 3}
    MaxCharsSettings = {1, 2, 4, 6}
    Transcripts <- MCTranscripts
INVARIANTS
    SelectsNewest
    LimitsKept
