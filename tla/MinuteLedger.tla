---------------------------- MODULE MinuteLedger ---------------------------
(***************************************************************************)
(* One user's minutes: grants, the sessions that reserve minutes from them *)
(* and give back what they did not use, and the append-only ledger.        *)
(*                                                                         *)
(* The ledger is kept as sums: what entries of one reason say of a session *)
(* and a grant.  The grants' own first entries are their initial minutes.  *)
(* A SQL statement that debits or credits several grants locks the rows it *)
(* touches, so it is one step, with the transaction it is committed in.    *)
(* CreateSession is two: its checks read committed rows and lock nothing.  *)
(*                                                                         *)
(* Time is counted in minutes, rounded up as the refund rounds it.         *)
(* Bounds: MaxMinutes of a grant; Horizon, when the clock stops.           *)
(***************************************************************************)
EXTENDS Integers, FiniteSets, Functions

CONSTANTS Trial,      \* the one free_grant, the only grant that expires
          Paid,       \* the other grants: purchase, subscription, admin
          Sessions,
          Talkative,  \* the sessions in which turns are submitted
          Endings,    \* the calls by which users end sessions
          Failures,   \* FailSession calls
          Durations,  \* the durations the plan allows
          Limit,      \* the plan's ConcurrentSessions
          Grace,      \* 5 minutes past the end of the session
          MaxMinutes,
          Horizon

ASSUME GrantsAssumption == Trial \notin Paid
ASSUME DurationsAssumption == Durations \subseteq Nat \ {0}
ASSUME LimitsAssumption == {Limit, Grace, MaxMinutes, Horizon} \subseteq Nat
ASSUME TalkAssumption == Talkative \subseteq Sessions
\* The rows of two tables.
ASSUME RowsAssumption == IsFiniteSet(Paid) /\ IsFiniteSet(Sessions)
ASSUME EndingsAssumption == Endings \subseteq {"end", "cancel"}

Grants == {Trial} \cup Paid

VARIABLES
    now,        \* minutes
    expired,    \* the trial grant's expires_at has passed
    initial,    \* initial_minutes of each grant; 0 before the grant exists
    remaining,  \* remaining_minutes of each grant
    status,     \* of each session, its CreateSession call included
    duration,   \* reserved_minutes, config_duration_minutes
    started,    \* started_at
    answered,   \* the session has a candidate message
    reserved,   \* session_reserve entries, by session and grant
    refunded,   \* session_refund entries
    returned,   \* error_refund entries
    failing     \* the FailSession calls that have read 'active', and of which session

money    == <<initial, remaining, reserved, refunded, returned>>
sessions == <<status, duration, started, answered>>
vars     == <<now, expired, money, sessions, failing>>

Open     == {"active", "generating"}
Over     == {"completed", "cancelled", "failed"}
Statuses == {"unused", "checked", "refused"} \cup Open \cup Over

Nothing == [g \in Grants |-> 0]

Init ==
    /\ now = 0 /\ expired = FALSE
    /\ \E m \in 1..MaxMinutes : initial = [Nothing EXCEPT ![Trial] = m]
    /\ remaining = initial
    /\ status = [s \in Sessions |-> "unused"]
    /\ duration = [s \in Sessions |-> 0]
    /\ started = [s \in Sessions |-> 0]
    /\ answered = [s \in Sessions |-> FALSE]
    /\ reserved = [s \in Sessions |-> Nothing]
    /\ refunded = [s \in Sessions |-> Nothing]
    /\ returned = [s \in Sessions |-> Nothing]
    /\ failing = {}
-----------------------------------------------------------------------------
AtLeast(a, b) == IF a > b THEN a ELSE b
Minus(a, b) == IF a > b THEN a - b ELSE 0

Usable == [g \in Grants |-> IF g = Trial /\ expired THEN 0 ELSE remaining[g]]
Balance == SumFunction(Usable)

\* GetUsageSummary, whose SELECTs each see what is committed when they begin.
ListActiveGrants == {g \in Grants : Usable[g] > 0}
UserUsageSummary ==
    [total |-> Balance, free |-> Usable[Trial], paid |-> SumFunction([Usable EXCEPT ![Trial] = 0])]
\* expires_at of the trial only.
GrantToProto(g) ==
    [grant |-> g, initial |-> initial[g], remaining |-> remaining[g], expires |-> g = Trial]
GetUsage == [summary |-> UserUsageSummary, grants |-> {GrantToProto(g) : g \in ListActiveGrants}]

\* The ways a walk over the grants in some order can spread the minutes:
\* as much as the cap of each allows until all are placed.
Walks(minutes, cap) ==
    {w \in [Grants -> 0..MaxMinutes] :
        /\ \A g \in Grants : w[g] <= cap[g]
        /\ SumFunction(w) = minutes
        /\ \A g, h \in Grants : w[g] \in 1..(cap[g] - 1) /\ w[h] > 0 /\ w[h] < cap[h] => g = h}

\* The reservation walks in the order of expiry.
TrialFirst(w) == (\E g \in Paid : w[g] > 0) => w[Trial] = Usable[Trial]

Elapsed(s) == now - started[s]
Overdue(s) == Elapsed(s) > duration[s] + Grace

\* CountActiveSessionsByUser
ActiveCount == Cardinality({s \in Sessions : status[s] = "active"})
-----------------------------------------------------------------------------
\* CreatePurchaseGrant, CreateSubscriptionGrant, CreateAdminGrant.
CreateGrant(g, m) ==
    /\ initial[g] = 0
    /\ initial' = [initial EXCEPT ![g] = m]
    /\ remaining' = [remaining EXCEPT ![g] = m]
    /\ UNCHANGED <<now, expired, reserved, refunded, returned, sessions, failing>>

TrialExpires ==
    /\ ~expired /\ expired' = TRUE
    /\ UNCHANGED <<now, money, sessions, failing>>

Tick ==
    /\ now < Horizon /\ now' = now + 1
    /\ UNCHANGED <<expired, money, sessions, failing>>

\* CreateSession begins its transaction, whose time is started_at, and checks
\* CheckTx and CountActiveSessionsByUser.
CheckLimits(s, d) ==
    /\ status[s] = "unused"
    /\ IF ActiveCount < Limit /\ Balance >= d
         THEN /\ status' = [status EXCEPT ![s] = "checked"]
              /\ duration' = [duration EXCEPT ![s] = d]
              /\ started' = [started EXCEPT ![s] = now]
         ELSE /\ status' = [status EXCEPT ![s] = "refused"]
              /\ UNCHANGED <<duration, started>>
    /\ UNCHANGED <<now, expired, money, answered, failing>>

\* Mutant: the ledger entry is written with the grant's old balance.
ReserveOldBalance(s, w) ==
    /\ remaining' = [g \in Grants |-> Minus(remaining[g], w[g])]
    /\ reserved' = [reserved EXCEPT ![s] =
                       [g \in Grants |-> IF w[g] > 0 THEN remaining[g] ELSE 0]]

\* ReserveMinutes
Reserve(s, w) ==
    /\ remaining' = [g \in Grants |-> Minus(remaining[g], w[g])]
    /\ reserved' = [reserved EXCEPT ![s] = w]

\* CreateSession: the insert, the reservation, the commit.
CreateSession(s) ==
    /\ status[s] = "checked"
    /\ IF Balance >= duration[s]
         THEN /\ status' = [status EXCEPT ![s] = "active"]
              /\ \E w \in Walks(duration[s], Usable) : TrialFirst(w) /\ Reserve(s, w)
         ELSE /\ status' = [status EXCEPT ![s] = "refused"]
              /\ UNCHANGED <<remaining, reserved>>
    /\ UNCHANGED <<now, expired, initial, refunded, returned, duration, started,
                   answered, failing>>

\* A turn of the interview, which may save a candidate message.
BeginTurn(s) ==
    /\ status[s] = "active" /\ s \in Talkative
    /\ status' = [status EXCEPT ![s] = "generating"]
    /\ \E a \in {answered[s], TRUE} : answered' = [answered EXCEPT ![s] = a]
    /\ UNCHANGED <<now, expired, money, duration, started, failing>>

EndTurn(s) ==
    /\ status[s] = "generating"
    /\ status' = [status EXCEPT ![s] = "active"]
    /\ UNCHANGED <<now, expired, money, duration, started, answered, failing>>
-----------------------------------------------------------------------------
\* Mutant: no look at initial_minutes.
CreditAll(w) == w

\* The credit of a grant that would exceed its initial minutes is dropped.
Creditable(w) == [g \in Grants |-> IF remaining[g] + w[g] <= initial[g] THEN w[g] ELSE 0]

\* Mutants: the refund does not look for an earlier one; forgets the minimum.
Repay(s) ==
    \E w \in Walks(Minus(duration[s], AtLeast(1, Elapsed(s))), reserved[s]) :
        /\ remaining' = [g \in Grants |-> remaining[g] + Creditable(w)[g]]
        /\ refunded' = [refunded EXCEPT ![s] = [g \in Grants |-> @[g] + Creditable(w)[g]]]
RepayNoMinimum(s) ==
    IF refunded[s] = Nothing
      THEN \E w \in Walks(Minus(duration[s], Elapsed(s)), reserved[s]) :
             /\ remaining' = [g \in Grants |-> remaining[g] + Creditable(w)[g]]
             /\ refunded' = [refunded EXCEPT ![s] = Creditable(w)]
      ELSE UNCHANGED <<remaining, refunded>>

\* RefundSessionMinutes: nothing once there is a session_refund entry.
RefundSessionMinutes(s) ==
    IF refunded[s] = Nothing
      THEN \E w \in Walks(Minus(duration[s], AtLeast(1, Elapsed(s))), reserved[s]) :
             /\ remaining' = [g \in Grants |-> remaining[g] + Creditable(w)[g]]
             /\ refunded' = [refunded EXCEPT ![s] = Creditable(w)]
      ELSE UNCHANGED <<remaining, refunded>>

\* FullRefundSessionMinutes
FullCredit(s) == Creditable(reserved[s])

\* CompleteSession, CancelSession: whatever the status; again, if called again.
EndSession(s, to) ==
    /\ status[s] \in Open \cup Over
    /\ status' = [status EXCEPT ![s] = to]
    /\ RefundSessionMinutes(s)
    /\ UNCHANGED <<now, expired, initial, reserved, returned, duration, started,
                   answered, failing>>

CompleteSession(s) == "end" \in Endings /\ EndSession(s, "completed")
CancelSession(s)   == "cancel" \in Endings /\ EndSession(s, "cancelled")

\* CleanupAbandonedSessionsWorker, for one session.
SweepEmpty(s) ==
    /\ status[s] = "active" /\ Overdue(s) /\ ~answered[s]
    /\ status' = [status EXCEPT ![s] = "cancelled"]
    /\ remaining' = [g \in Grants |-> remaining[g] + FullCredit(s)[g]]
    /\ refunded' = [refunded EXCEPT ![s] = FullCredit(s)]
    /\ UNCHANGED <<now, expired, initial, reserved, returned, duration, started,
                   answered, failing>>

SweepAnswered(s) ==
    /\ status[s] = "active" /\ Overdue(s) /\ answered[s]
    /\ status' = [status EXCEPT ![s] = "completed"]
    /\ UNCHANGED <<now, expired, money, duration, started, answered, failing>>

\* FailSession reads the status ...
CheckFail(f, s) ==
    /\ status[s] = "active"
    /\ failing' = failing \cup {<<f, s>>}
    /\ UNCHANGED <<now, expired, money, sessions>>

\* ... and later gives back all, unless there is a session_refund entry.
FailSession(f, s) ==
    /\ <<f, s>> \in failing
    /\ failing' = failing \ {<<f, s>>}
    /\ status' = [status EXCEPT ![s] = "failed"]
    /\ IF refunded[s] = Nothing
         THEN /\ remaining' = [g \in Grants |-> remaining[g] + FullCredit(s)[g]]
              /\ returned' = [returned EXCEPT ![s] =
                                 [g \in Grants |-> @[g] + FullCredit(s)[g]]]
         ELSE UNCHANGED <<remaining, returned>>
    /\ UNCHANGED <<now, expired, initial, reserved, refunded, duration, started, answered>>
-----------------------------------------------------------------------------
Next ==
    \/ Tick \/ TrialExpires
    \/ \E g \in Paid, m \in 1..MaxMinutes : CreateGrant(g, m)
    \/ \E s \in Sessions, d \in Durations : CheckLimits(s, d)
    \/ \E s \in Sessions :
          \/ CreateSession(s) \/ BeginTurn(s) \/ EndTurn(s)
          \/ CompleteSession(s) \/ CancelSession(s)
          \/ SweepEmpty(s) \/ SweepAnswered(s)
          \/ \E f \in Failures : CheckFail(f, s) \/ FailSession(f, s)

Spec == Init /\ [][Next]_vars
-----------------------------------------------------------------------------
PerGrant == [Sessions -> [Grants -> 0..MaxMinutes]]

\* Types, and the CHECK constraints of the grants table.
TypeOK ==
    /\ now \in 0..Horizon /\ expired \in BOOLEAN
    /\ initial \in [Grants -> 0..MaxMinutes]
    /\ \A g \in Grants : remaining[g] \in 0..initial[g]
    /\ status \in [Sessions -> Statuses]
    /\ duration \in [Sessions -> Durations \cup {0}]
    /\ started \in [Sessions -> 0..Horizon]
    /\ answered \in [Sessions -> BOOLEAN]
    /\ reserved \in PerGrant /\ refunded \in PerGrant
    /\ returned \in [Sessions -> [Grants -> Nat]]
    /\ failing \subseteq Failures \X Sessions

(***************************************************************************)
(* The ledger is the audit log of every balance mutation: what is left of  *)
(* a grant is what it began with, less what its entries took, plus what    *)
(* they gave back (ReserveMinutes, RefundSessionMinutes, FullRefund...).   *)
(* And the page that GetUsage fills adds up, as long as nothing is         *)
(* committed between its statements: what the listed grants hold is the    *)
(* total of the free and the paid minutes.                                 *)
(***************************************************************************)
LedgerExplainsBalance ==
    /\ \A g \in Grants :
          remaining[g] + SumFunction([s \in Sessions |->
                             reserved[s][g] - (refunded[s][g] + returned[s][g])]) = initial[g]
    /\ LET usage == GetUsage IN
          /\ usage.summary.total = usage.summary.free + usage.summary.paid
          /\ usage.summary.total = SumFunction([grant \in usage.grants |-> grant.remaining])

\* What the session has cost by its ledger entries.
Charge(s) ==
    Minus(SumFunction(reserved[s]), SumFunction(refunded[s]) + SumFunction(returned[s]))

Used(s) == LET run == AtLeast(1, Elapsed(s)) IN IF run < duration[s] THEN run ELSE duration[s]

\* FailSession, which nothing but tests calls, has returned nothing so far.
NothingReturned == \A s \in Sessions : returned[s] = Nothing

\* What the end of a session may cost: only the sweep gives all back.
Dues(s) ==
    IF status[s] = "active" /\ Overdue(s) /\ ~answered[s] /\ status'[s] = "cancelled"
      THEN {0, duration[s]} ELSE {Used(s)}

(***************************************************************************)
(* When a session ends the user pays for the minutes it ran, at least one, *)
(* at most those reserved; nothing for one that is swept without a word    *)
(* from the candidate.                                                     *)
(***************************************************************************)
FairSettlement ==
    [][NothingReturned' =>
          \A s \in Sessions :
              status[s] \in Open /\ status'[s] \in Over => Charge(s)' \in Dues(s)]_vars

(***************************************************************************)
(* A session is settled once: ending it again, by a repeated or a late     *)
(* call, moves no more minutes.                                            *)
(***************************************************************************)
SettledOnce ==
    [][NothingReturned' =>
          \A s \in Sessions : status[s] \in Over => Charge(s)' = Charge(s)]_vars

(***************************************************************************)
(* A session is admitted only when fewer than the limit are open ("En-     *)
(* forcing plan limits").                                                  *)
(***************************************************************************)
AdmittedBelowLimit ==
    [][\A s \in Sessions : status[s] = "unused" /\ status'[s] = "checked" =>
          Cardinality({r \in Sessions : status[r] \in Open}) < Limit]_vars
=============================================================================
