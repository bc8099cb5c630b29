----------------------------- MODULE MCProgress -----------------------------
(***************************************************************************)
(* The two components with something that must come to an end, in one run: *)
(* a behaviour is one of the reply, of the pipeline as it may be, or of a  *)
(* calm pipeline, with neither retries nor faults.  The others stay as     *)
(* they begin.                                                             *)
(***************************************************************************)
EXTENDS EvaluationPipeline, ReplyStream

VARIABLE focus

progressVars == <<focus, vars, streamVars>>

Calm == INSTANCE EvaluationPipeline WITH Retries <- {}, Faults <- {}

ProgressInit ==
    /\ focus \in {"pipeline", "calm", "reply"}
    /\ IF focus = "calm" THEN Calm!Init ELSE Init
    /\ StreamInit
    /\ focus = "reply" => talk = "empty"
    /\ focus # "reply" => ~tts

ProgressNext ==
    /\ UNCHANGED focus
    /\ \/ focus = "pipeline" /\ Next /\ UNCHANGED streamVars
       \/ focus = "calm" /\ Calm!Next /\ UNCHANGED streamVars
       \/ focus = "reply" /\ StreamNext /\ UNCHANGED vars

\* FairSpec and StreamFairSpec, each for the behaviours it is about.
ProgressSpec ==
    /\ ProgressInit /\ [][ProgressNext]_progressVars
    /\ \A j \in Jobs : WF_vars(focus = "calm" /\ Calm!JobStep(j))
    /\ WF_streamVars(focus = "reply" /\ MainStep)
    /\ WF_streamVars(focus = "reply" /\ LoopStep)
    /\ SF_streamVars(focus = "reply" /\ StreamOver)

(***************************************************************************)
(* Without retries and faults a session does not stay 'evaluating' for     *)
(* ever: it is reviewed, or given up after the last attempt ("Retries      *)
(* exhausted -> status to evaluation_failed").                             *)
(***************************************************************************)
CalmEvaluatingEnds == focus = "calm" => EvaluatingEnds

(***************************************************************************)
(* The turn whose reply is in focus comes to an end: Close does not wait   *)
(* for ever, on either path.                                               *)
(***************************************************************************)
ReplyReturns == focus = "reply" => TurnReturns
=============================================================================
