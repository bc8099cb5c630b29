---------------------------- MODULE MCReplyStream ---------------------------
EXTENDS ReplyStream
=============================================================================
