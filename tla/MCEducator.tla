----------------------------- MODULE MCEducator ----------------------------
EXTENDS Educator
=============================================================================
