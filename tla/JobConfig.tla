------------------------------ MODULE JobConfig ------------------------------
(***************************************************************************)
(* What a job is to do: the dispatch metadata and the environment, made    *)
(* into the configuration of one interview (src/config/, and the           *)
(* credentials checks of src/providers/).  Operators only; JobStart runs   *)
(* them.                                                                   *)
(*                                                                         *)
(* A metadata document has, for each value, the list of the keys it may    *)
(* come under, in the order in which the code looks at them.  What is      *)
(* found under a key is a text, or one of                                  *)
(*    "absent"  the key is missing, null or undefined                      *)
(*    "blank"   an empty text, or white space                              *)
(*    "junk"    a value of another type; null too, where the code asks for *)
(*              the key itself (the flags in options, the student's name). *)
(* doc.questions stands for all that the schema looks at and nothing else  *)
(* here uses: the questions, and the flags and texts beside them.          *)
(***************************************************************************)
EXTENDS Integers, Sequences, SequencesExt

\* What is found in such a document: lists of texts and of numbers, and two flags.
WellFormed(doc) ==
    /\ {doc.interviewId, doc.participantId, doc.studentId, doc.name, doc.instruction,
        doc.dataInstruction, doc.recordingKey, doc.topEnableRecording, doc.provider,
        doc.modelName} \subseteq Seq(STRING)
    /\ doc.duration \in Seq([kind : {"number", "absent", "junk"}, value : Int])
    /\ {doc.enableRecording, doc.audioOnly}
          \subseteq {"absent", "true", "false", "text true", "text false", "junk"}

-----------------------------------------------------------------------------
(* Looking a value up *)

\* typeof value === "string" && value.trim() !== ""
IsText(value) == value \notin {"absent", "blank", "junk"}

\* values[SelectInSeq(...)], or "absent" if no value passes the test.
FirstWhere(values, Test(_)) ==
    LET i == SelectInSeq(values, Test) IN IF i = 0 THEN "absent" ELSE values[i]

\* a ?? b ?? c: a blank text or a value of the wrong type hides the ones after it.
Given(values) == FirstWhere(values, LAMBDA v : v # "absent")

\* Mutation: the aliases are chained with ?? throughout.
FirstGiven(values) == LET v == Given(values) IN IF IsText(v) THEN v ELSE "absent"

\* firstString, firstNonBlankStringPreservingValue
FirstString(values) == FirstWhere(values, IsText)

NullableString(value) == IF IsText(value) THEN value ELSE "absent"

Or(value, default) == IF value = "absent" THEN default ELSE value

\* firstNumber, of numbers tagged as "number", "absent" or "junk"; a text that reads as
\* a finite number counts as one.
FirstNumber(values, default) ==
    LET i == SelectInSeq(values, LAMBDA v : v.kind = "number")
    IN  IF i = 0 THEN default ELSE values[i].value

\* Flags of a document: a boolean, or its name as a text.
Booleanish(value) ==
    CASE value \in {"true", "text true"}   -> "true"
      [] value \in {"false", "text false"} -> "false"
      [] OTHER                             -> "absent"

-----------------------------------------------------------------------------
(* The environment (loadEnv) *)

\* The integer settings, their defaults, and those that must be positive.
KnobDefaults ==
    [MAX_CONCURRENT_INTERVIEWS |-> 8, NUM_IDLE_PROCESSES |-> 3,
     DRAIN_TIMEOUT_SECONDS |-> 3900, WEBHOOK_MAX_RETRIES |-> 3,
     WEBHOOK_RETRY_BASE_MS |-> 1000, RECONNECT_MAX_RETRIES |-> 3,
     PARTICIPANT_ABSENCE_GRACE_MS |-> 15000, RECOVERY_MAX_TURNS |-> 24,
     RECOVERY_MAX_CHARS |-> 24000, FORWARD_AUDIO_IDLE_TIMEOUT_MS |-> 300000,
     MONITORING_PORT |-> 8080]
PositiveKnobs ==
    {"PARTICIPANT_ABSENCE_GRACE_MS", "RECOVERY_MAX_TURNS", "RECOVERY_MAX_CHARS"}

\* intOr
Knob(env, k) ==
    IF env.knobs[k].kind = "absent" THEN KnobDefaults[k] ELSE env.knobs[k].value

\* boolOr: any spelling of true, and nothing else.
BoolOr(value, default) == IF IsText(value) THEN value \in {"true", "TRUE"} ELSE default

\* optionalPositiveIntString: no setting, or a positive one.
TriggerTokensLoad(env) ==
    \/ env.triggerTokens.kind = "absent"
    \/ env.triggerTokens.kind = "number" /\ env.triggerTokens.value > 0

\* loadEnv returns; the parent has called it, so that a child never sees another.
EnvLoads(env) ==
    /\ IsText(env.aiUsageUrl) <=> IsText(env.aiUsageToken)
    /\ env.aiUsageUrl # "not a url"
    /\ \A k \in DOMAIN KnobDefaults : env.knobs[k].kind # "junk"
    /\ \A k \in PositiveKnobs : Knob(env, k) > 0
    /\ TriggerTokensLoad(env)

-----------------------------------------------------------------------------
(* The document's source (extractJobMetadata) *)

\* A source holds a document's name, nothing ("absent", also a blank text), or
\* what is not a JSON object ("invalid"), in the order of metadataSources.
SourceCount == 6

\* parseMetadataValue
IsDocument(source) == source \notin {"absent", "invalid"}

\* The first source that parses; an invalid one is only remembered.
Winner(sources) == FirstWhere(sources, IsDocument)

-----------------------------------------------------------------------------
(* The document's values (normalizeMetadata) *)

ProviderNamed(text) ==
    CASE text = "openai"                -> "openai"
      [] text \in {"google", "gemini"}  -> "google"
      [] OTHER                          -> "unsupported"

Provider(doc) == ProviderNamed(Or(FirstString(doc.provider), "google"))

DefaultModel(provider, env) ==
    IF provider = "openai" THEN Or(NullableString(env.openaiModel), "gpt-realtime-2")
    ELSE Or(NullableString(env.geminiModel), "gemini-3.8-live")

\* Gemini's model never comes from the document.
Model(doc, env) ==
    LET default == DefaultModel(Provider(doc), env)
    IN  IF Provider(doc) = "google" THEN default ELSE Or(FirstString(doc.modelName), default)

StudentId(doc) == NullableString(Given(doc.studentId))

ParticipantId(doc) == Or(FirstString(Append(doc.participantId, StudentId(doc))), "participant")

ParticipantName(doc) == Or(FirstString(doc.name), "Participant")

\* The student's own name, last of doc.name, counts if the key is there at all.
StudentName(doc) ==
    LET own == Last(doc.name)
    IN  CASE own = "absent" -> ParticipantName(doc)
          [] IsText(own)    -> own
          [] OTHER          -> "blank"

DurationMins(doc) == FirstNumber(doc.duration, 30)

\* The top level's flag counts where the options have none.
EnableRecording(doc) ==
    IF doc.enableRecording = "absent" THEN Booleanish(Given(doc.topEnableRecording))
    ELSE doc.enableRecording

-----------------------------------------------------------------------------
(* The configuration (resolveJobConfig) *)

\* AgentMetadataSchema.parse accepts the normalized document.
SchemaAccepts(doc) ==
    /\ FirstString(doc.interviewId) # "absent"
    /\ DurationMins(doc) > 0
    /\ EnableRecording(doc) \in {"absent", "true", "false"}
    /\ doc.audioOnly \in {"absent", "true", "false"}
    /\ doc.questions # "junk"

TopInstruction(doc) == FirstString(doc.instruction)

DataInstruction(doc) == FirstString(doc.dataInstruction)

\* The top level's instruction before the interview data's.
SystemInstruction(doc) == FirstString(<<TopInstruction(doc), DataInstruction(doc)>>)

\* parseInterviewData: a text must be the JSON of an object.
InterviewDataParses(doc) == doc.interviewData # "junk"

\* resolveJobConfig returns.
ConfigResolves(doc) ==
    /\ InterviewDataParses(doc)
    /\ Provider(doc) # "unsupported"
    /\ SchemaAccepts(doc)
    /\ SystemInstruction(doc) # "absent"

\* buildRecoverySnapshot
RecoverySnapshot(doc) ==
    [system_instruction |-> SystemInstruction(doc), duration_minutes |-> DurationMins(doc),
     candidate |-> StudentName(doc)]

\* RECORDING_REQUIRED is compared with "true" here, while loadEnv takes any
\* spelling of it (BoolOr); envStr is NullableString.
RecordingPolicy(doc, env) ==
    [enabled    |-> EnableRecording(doc) = "true",
     required   |-> env.recordingRequired = "true",
     audio_only |-> IF doc.audioOnly # "absent" THEN doc.audioOnly = "true"
                    ELSE env.recordingAudioOnly = "true",
     key        |-> Or(FirstString(doc.recordingKey), "blank"),
     s3_bucket  |-> Or(FirstString(<<env.recordingBucket, env.s3Bucket>>), "blank")]

Config(doc, env) ==
    [interview_id       |-> FirstString(doc.interviewId),
     student_id         |-> StudentId(doc),
     participant_id     |-> ParticipantId(doc),
     model_provider     |-> Provider(doc),
     model              |-> Model(doc, env),
     system_instruction |-> SystemInstruction(doc),
     duration_minutes   |-> DurationMins(doc),
     recovery_snapshot  |-> RecoverySnapshot(doc),
     recording          |-> RecordingPolicy(doc, env)]

VertexAuth(env) == BoolOr(env.googleVertexai, FALSE) /\ IsText(env.googleProject)

\* assertConfig of the two providers
GoogleAllowed(env) == IsText(env.googleApiKey) \/ VertexAuth(env)

OpenaiAllowed(env) == IsText(env.openaiApiKey)

ProviderAllowed(cfg, env) ==
    IF cfg.model_provider = "openai" THEN OpenaiAllowed(env) ELSE GoogleAllowed(env)

\* Neither the metadata nor the environment makes entry() throw before the job's record
\* is created.  resolveAssignedRoomName, which throws in a room without a name
\* (agent.ts:556-565), is left out: LiveKit dispatches jobs to rooms it has named.
Accepted(doc, env) == ConfigResolves(doc) /\ ProviderAllowed(Config(doc, env), env)

=============================================================================
