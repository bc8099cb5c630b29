-------------------------- MODULE MCInterviewClient -------------------------
EXTENDS InterviewClient
=============================================================================
