------------------------ MODULE MCEvaluationPipeline -----------------------
EXTENDS EvaluationPipeline
=============================================================================
