--------------------------- MODULE MCInterviewJob ---------------------------
EXTENDS InterviewJob

=============================================================================
