------------------------------- MODULE Instance -------------------------------
(***************************************************************************)
(* One instance of the server: what runWithContext and backend.New set up, *)
(* step by step, what they undo when a step fails, and the shutdown.       *)
(*                                                                         *)
(* Tasks stand for what goes on in it: HTTP requests, River jobs, and the  *)
(* goroutines that a request leaves behind (TouchAuthSession, the upload   *)
(* of an answer's audio).  A task works with the database a statement at a *)
(* time.  pgxpool.Close hands out no connection any more and waits for the *)
(* ones in use; a task that asks for one then is cut short.                *)
(***************************************************************************)
EXTENDS Naturals

CONSTANT Tasks

VARIABLES
    lifecycle,      \* where runWithContext is
    pool,       \* "none", "open", "closing" or "closed"
    river,      \* "none", "running", "stopping", "stopped" or "abandoned"
    riverUI,    \* its goroutines are running
    http,       \* "none", "listening", "draining", "drained", "abandoned" or "failed"
    task,       \* "none", "request", "job" or "left behind"
    doing,      \* "nothing", "thinking", "querying" or "cut short"
    signalled   \* SIGTERM or SIGINT has come

taskVars     == <<task, doing>>
instanceVars == <<lifecycle, pool, river, riverUI, http, taskVars, signalled>>

InstanceInit ==
    /\ lifecycle = "configured" /\ pool = "none" /\ river = "none" /\ riverUI = FALSE
    /\ http = "none" /\ signalled = FALSE
    /\ task = [t \in Tasks |-> "none"] /\ doing = [t \in Tasks |-> "nothing"]
-----------------------------------------------------------------------------
(***************************************************************************)
(* Start                                                                   *)
(***************************************************************************)
PhaseGoes(from, to) == lifecycle = from /\ lifecycle' = to

\* Configuration, migrations, telemetry, the sample, storage and Gemini: a
\* failure leaves nothing that is shared.
Prepare ==
    /\ PhaseGoes("configured", "prepared") \/ PhaseGoes("configured", "exited")
    /\ UNCHANGED <<pool, river, riverUI, http, taskVars, signalled>>

OpenPool ==
    /\ \/ PhaseGoes("prepared", "connected") /\ pool' = "open"
       \/ PhaseGoes("prepared", "exited") /\ pool' = pool
       \* It does not answer the ping.
       \/ PhaseGoes("prepared", "closing") /\ pool' = "open"
    /\ UNCHANGED <<river, riverUI, http, taskVars, signalled>>

\* River's own migrations and its client; the jobs run from here on.
StartRiver ==
    /\ \/ PhaseGoes("connected", "working") /\ river' = "running"
       \/ PhaseGoes("connected", "closing") /\ river' = river
    /\ UNCHANGED <<pool, riverUI, http, taskVars, signalled>>

StartRiverUI ==
    /\ \/ PhaseGoes("working", "backed") /\ riverUI' = TRUE
       \* cleanupUI
       \/ PhaseGoes("working", "closing UI") /\ riverUI' \in BOOLEAN
    /\ UNCHANGED <<pool, river, http, taskVars, signalled>>

\* The routes; without them the deferred Close runs.
BuildHandler ==
    /\ PhaseGoes("backed", "serving") \/ PhaseGoes("backed", "closing UI")
    /\ http' = (IF lifecycle' = "serving" THEN "listening" ELSE http)
    /\ UNCHANGED <<pool, river, riverUI, taskVars, signalled>>
-----------------------------------------------------------------------------
(***************************************************************************)
(* Shutdown                                                                *)
(***************************************************************************)
Signal ==
    /\ ~signalled /\ signalled' = TRUE
    /\ UNCHANGED <<lifecycle, pool, river, riverUI, http, taskVars>>

\* A signal that came while the server was starting is seen here, too.
BeginDrain ==
    /\ PhaseGoes("serving", "draining") /\ signalled /\ http' = "draining"
    /\ UNCHANGED <<pool, river, riverUI, taskVars, signalled>>

\* The port is taken, or the listener breaks: no Shutdown.
ServeFails ==
    /\ PhaseGoes("serving", "closing UI") /\ http' = "failed"
    /\ UNCHANGED <<pool, river, riverUI, taskVars, signalled>>

Running(kind) == \E t \in Tasks : task[t] = kind /\ doing[t] \in {"thinking", "querying"}

\* srv.Shutdown waits for the requests, or for its timeout.
EndDrain ==
    /\ PhaseGoes("draining", "closing UI")
    /\ http' = (IF Running("request") THEN "abandoned" ELSE "drained")
    /\ UNCHANGED <<pool, river, riverUI, taskVars, signalled>>

\* Mutant: the pool is closed while River runs.
CloseWithoutStop ==
    /\ PhaseGoes("closing UI", "closing") /\ riverUI' = FALSE /\ river' = river
    /\ UNCHANGED <<pool, http, taskVars, signalled>>

\* Backend.Close, and cleanupUI
CloseRiverUI ==
    /\ PhaseGoes("closing UI", "stopping River") /\ riverUI' = FALSE /\ river' = "stopping"
    /\ UNCHANGED <<pool, http, taskVars, signalled>>

\* Stop waits for the jobs that run, or for its timeout; it starts no more.
RiverStopped ==
    /\ PhaseGoes("stopping River", "closing")
    /\ river' = (IF Running("job") THEN "abandoned" ELSE "stopped")
    /\ UNCHANGED <<pool, riverUI, http, taskVars, signalled>>

BeginClosePool ==
    /\ lifecycle = "closing" /\ pool = "open" /\ pool' = "closing"
    /\ UNCHANGED <<lifecycle, river, riverUI, http, taskVars, signalled>>

\* With the process whatever still runs in it ends.
Exit ==
    /\ PhaseGoes("closing", "exited") /\ pool = "closing" /\ pool' = "closed"
    /\ \A t \in Tasks : doing[t] # "querying"
    /\ doing' = [t \in Tasks |-> IF doing[t] = "thinking" THEN "cut short" ELSE doing[t]]
    /\ UNCHANGED <<river, riverUI, http, task, signalled>>
-----------------------------------------------------------------------------
(***************************************************************************)
(* What goes on meanwhile                                                  *)
(***************************************************************************)
Begins(t, kind) ==
    /\ task[t] = "none" /\ task' = [task EXCEPT ![t] = kind]
    /\ doing' = [doing EXCEPT ![t] = "thinking"]
    /\ UNCHANGED <<lifecycle, pool, river, riverUI, http, signalled>>

BeginRequest(t) == http = "listening" /\ Begins(t, "request")
BeginJob(t)     == river = "running" /\ Begins(t, "job")
LeaveBehind(t)  == Running("request") /\ Begins(t, "left behind")

TaskGoes(t, from, to) ==
    /\ doing[t] = from /\ doing' = [doing EXCEPT ![t] = to]
    /\ UNCHANGED <<lifecycle, pool, river, riverUI, http, task, signalled>>

Query(t)       == TaskGoes(t, "thinking", IF pool = "open" THEN "querying" ELSE "cut short")
QueryDone(t)   == TaskGoes(t, "querying", "thinking")
TaskFinishes(t) == TaskGoes(t, "thinking", "nothing")
-----------------------------------------------------------------------------
StartStep    == Prepare \/ OpenPool \/ StartRiver \/ StartRiverUI \/ BuildHandler
ShutdownStep ==
    \/ Signal \/ BeginDrain \/ ServeFails \/ EndDrain \/ CloseRiverUI \/ RiverStopped
    \/ BeginClosePool \/ Exit
TaskStep(t) ==
    \/ BeginRequest(t) \/ BeginJob(t) \/ LeaveBehind(t)
    \/ lifecycle # "exited" /\ (Query(t) \/ QueryDone(t) \/ TaskFinishes(t))

InstanceNext == StartStep \/ ShutdownStep \/ \E t \in Tasks : TaskStep(t)

InstanceSpec == InstanceInit /\ [][InstanceNext]_instanceVars
-----------------------------------------------------------------------------
(***************************************************************************)
(* However far the start got: River never runs on a pool that is being     *)
(* closed, a process that gives up or ends leaves neither a pool nor River *)
(* behind, and a request or a job is cut short only when its own timeout   *)
(* has run out or the listener has failed.  What requests leave behind is  *)
(* not waited for.                                                         *)
(***************************************************************************)
ShutdownInOrder ==
    /\ river = "running" => pool = "open"
    /\ lifecycle = "exited" =>
          pool \in {"none", "closed"} /\ river \in {"none", "stopped", "abandoned"} /\ ~riverUI
    /\ \A t \in Tasks : doing[t] = "cut short" =>
          \/ task[t] = "left behind"
          \/ task[t] = "request" /\ http \in {"abandoned", "failed"}
          \/ task[t] = "job" /\ river = "abandoned"
=============================================================================
