----------------------------- MODULE MCJobStart -----------------------------
EXTENDS JobStart

Number(n) == [kind |-> "number", value |-> n]
NoNumber == [kind |-> "absent", value |-> 0]
NotANumber == [kind |-> "junk", value |-> 0]

Good ==
    [interviewId |-> <<"interview", "absent">>, participantId |-> <<"p", "absent">>,
     studentId |-> <<"s", "absent">>, name |-> <<"Ann", "absent", "absent">>,
     instruction |-> <<"first", "absent">>, dataInstruction |-> <<"absent", "absent">>,
     recordingKey |-> <<"key", "absent">>, enableRecording |-> "true",
     topEnableRecording |-> <<"absent", "absent">>, audioOnly |-> "absent",
     interviewData |-> "given", questions |-> "given",
     provider |-> <<"absent", "absent", "absent">>,
     modelName |-> <<"absent", "absent", "absent", "absent">>,
     duration |-> <<Number(45), NoNumber, NoNumber, NoNumber>>]

\* What a source may hold: a whole document, one under its other keys, and one for
\* each way to be refused or to come close.
MCDocuments ==
    [good            |-> Good,
     other           |-> [Good EXCEPT !.instruction = <<"second", "absent">>],
     aliased         |-> [Good EXCEPT !.interviewId = <<"blank", "interview">>,
                                      !.studentId = <<"blank", "s">>,
                                      !.instruction = <<"junk", "blank">>,
                                      !.dataInstruction = <<"blank", "first">>,
                                      !.duration = <<NotANumber, NoNumber, Number(45), Number(0)>>,
                                      !.enableRecording = "absent",
                                      !.topEnableRecording = <<"absent", "text true">>],
     bare            |-> [Good EXCEPT !.participantId = <<"absent", "blank">>,
                                      !.studentId = <<"absent", "absent">>,
                                      !.name = <<"absent", "absent", "blank">>,
                                      !.enableRecording = "absent",
                                      !.duration = <<NoNumber, NoNumber, NoNumber, NoNumber>>],
     noInterview     |-> [Good EXCEPT !.interviewId = <<"blank", "junk">>],
     noInstruction   |-> [Good EXCEPT !.instruction = <<"blank", "absent">>],
     noTime          |-> [Good EXCEPT !.duration = <<NotANumber, Number(0), Number(45), NoNumber>>],
     textFlag        |-> [Good EXCEPT !.enableRecording = "text true"],
     badFlag         |-> [Good EXCEPT !.audioOnly = "junk"],
     badData         |-> [Good EXCEPT !.interviewData = "junk"],
     badQuestion     |-> [Good EXCEPT !.questions = "junk"],
     gemini          |-> [Good EXCEPT !.provider = <<"blank", "gemini", "openai">>],
     openai          |-> [Good EXCEPT !.provider = <<"absent", "openai", "google">>],
     unknownProvider |-> [Good EXCEPT !.provider = <<"claude", "openai", "google">>]]

Plain ==
    [recordingRequired |-> "absent", recordingAudioOnly |-> "absent",
     recordingBucket |-> "absent", s3Bucket |-> "bucket",
     geminiModel |-> "absent", openaiModel |-> "absent",
     googleApiKey |-> "key", googleVertexai |-> "absent", googleProject |-> "absent",
     openaiApiKey |-> "absent", aiUsageUrl |-> "absent", aiUsageToken |-> "absent",
     triggerTokens |-> NoNumber,
     knobs |-> [k \in DOMAIN KnobDefaults |->
                   IF k = "RECONNECT_MAX_RETRIES" THEN Number(1) ELSE NoNumber]]

MCEnvironments ==
    {Plain,
     [Plain EXCEPT !.googleApiKey = "blank", !.openaiApiKey = "key", !.aiUsageUrl = "http", !.aiUsageToken = "t"],
     [Plain EXCEPT !.googleApiKey = "absent", !.googleVertexai = "TRUE", !.googleProject = "project",
                    !.recordingRequired = "true", !.geminiModel = "blank"],
     [Plain EXCEPT !.googleApiKey = "absent", !.googleVertexai = "true", !.recordingRequired = "TRUE"],
     [Plain EXCEPT !.googleApiKey = "absent", !.googleVertexai = "yes", !.googleProject = "project"],
     [Plain EXCEPT !.knobs["RECONNECT_MAX_RETRIES"] = Number(0)],
     [Plain EXCEPT !.aiUsageUrl = "http"],
     [Plain EXCEPT !.knobs["RECOVERY_MAX_TURNS"] = Number(0)],
     [Plain EXCEPT !.knobs["MONITORING_PORT"] = NotANumber],
     [Plain EXCEPT !.triggerTokens = Number(-1)]}

Sources(first, last) == [i \in 1..SourceCount |-> CASE i = 1 -> first [] i = SourceCount -> last [] OTHER -> "absent"]

MCFollowed == {Sources("good", "absent"), Sources("other", "absent")}

MCContexts ==
    MCFollowed
    \cup {Sources("absent", d) : d \in DOMAIN MCDocuments}
    \cup {Sources(f, l) : f, l \in {"absent", "invalid", "good", "noInstruction"}}

=============================================================================
