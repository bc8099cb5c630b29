---------------------------- MODULE Conversation ---------------------------
(***************************************************************************)
(* What an interview session promises to whoever reads its transcript, in  *)
(* terms of the session alone: no requests, locks, jobs or crashes.        *)
(*                                                                         *)
(* Turns are taken one at a time, a turn begins only while the session is  *)
(* open, messages are said only within a turn, they are numbered without   *)
(* gaps, and no one speaks twice running.  A session closes once; a turn   *)
(* it closes under may still finish what it was saying.                    *)
(***************************************************************************)
EXTENDS Naturals

VARIABLES open,     \* the session has not ended
          busy,     \* a turn is being taken
          said      \* the transcript: numbered messages and who said them

vars == <<open, busy, said>>

Init == open = TRUE /\ busy = FALSE /\ said = {}

BeginTurn == open /\ ~busy /\ busy' = TRUE /\ UNCHANGED <<open, said>>

EndTurn == busy /\ busy' = FALSE /\ UNCHANGED <<open, said>>

Say(role) ==
    /\ busy
    /\ \E n \in {0} \cup {m.seq : m \in said} :
           /\ \A m \in said : m.seq <= n /\ (m.seq = n => m.role # role)
           /\ said' = said \cup {[seq |-> n + 1, role |-> role]}
    /\ UNCHANGED <<open, busy>>

Close == open /\ open' = FALSE /\ UNCHANGED <<busy, said>>

Next == BeginTurn \/ EndTurn \/ Say("candidate") \/ Say("interviewer") \/ Close

Spec == Init /\ [][Next]_vars
=============================================================================
