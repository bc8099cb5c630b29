--------------------------- MODULE MCTurnExecution -------------------------
EXTENDS TurnExecution, TLC

\* Turns are interchangeable, and so are the calls that end the session.
TurnSymmetry == Permutations(Turns) \cup Permutations(Enders)
=============================================================================
