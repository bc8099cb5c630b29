------------------------ MODULE MinuteLedger_proofs -------------------------
(***************************************************************************)
(* Proofs about MinuteLedger: for every set of grants, sessions and calls, *)
(* and whatever they do, no grant is overdrawn and none holds more than it *)
(* began with; the entries explain the balances; and what a session costs  *)
(* is fair and final while nothing is returned to it twice.                *)
(***************************************************************************)
EXTENDS MinuteLedger, FiniteSums

(***************************************************************************)
(* A walk never takes more of a grant than its cap (ReserveMinutes takes   *)
(* LEAST(remaining_minutes, requested) of each).                           *)
(***************************************************************************)
LEMMA WalkWithinCap ==
    ASSUME NEW minutes, NEW cap, NEW w \in Walks(minutes, cap)
    PROVE  /\ w \in [Grants -> 0..MaxMinutes]
           /\ \A g \in Grants : w[g] <= cap[g]
  BY DEF Walks

(***************************************************************************)
(* What is usable of a grant is at most what remains of it.                *)
(***************************************************************************)
LEMMA UsableRemains ==
    ASSUME TypeOK, NEW g \in Grants
    PROVE  Usable[g] \in 0..remaining[g]
  <1>1. remaining[g] \in Nat
    BY LimitsAssumption DEF TypeOK
  <1> QED BY <1>1 DEF Usable

(***************************************************************************)
(* Reserving a walk over the usable minutes overdraws nothing.             *)
(***************************************************************************)
LEMMA ReserveInBounds ==
    ASSUME TypeOK, NEW s \in Sessions, NEW minutes,
           NEW w \in Walks(minutes, Usable), Reserve(s, w)
    PROVE  /\ \A g \in Grants : remaining'[g] \in 0..initial[g]
           /\ reserved' \in PerGrant
  <1>1. w \in [Grants -> 0..MaxMinutes] /\ \A g \in Grants : w[g] <= Usable[g]
    BY WalkWithinCap
  <1>2. ASSUME NEW g \in Grants PROVE remaining'[g] \in 0..initial[g]
    <2>1. /\ initial[g] \in 0..MaxMinutes /\ remaining[g] \in 0..initial[g]
          /\ MaxMinutes \in Nat
      BY LimitsAssumption DEF TypeOK
    <2>2. remaining'[g] = Minus(remaining[g], w[g])
      BY DEF Reserve
    <2>3. w[g] \in Nat
      BY <1>1, <2>1
    <2> QED BY <2>1, <2>2, <2>3 DEF Minus
  <1>3. reserved' \in PerGrant
    BY <1>1 DEF Reserve, PerGrant, TypeOK
  <1> QED BY <1>2, <1>3

(***************************************************************************)
(* A credit that is dropped where it would exceed the initial minutes      *)
(* leaves every grant within its bounds (RefundSessionMinutes).            *)
(***************************************************************************)
LEMMA CreditInBounds ==
    ASSUME TypeOK, NEW w \in [Grants -> 0..MaxMinutes]
    PROVE  /\ Creditable(w) \in [Grants -> 0..MaxMinutes]
           /\ \A g \in Grants : remaining[g] + Creditable(w)[g] \in 0..initial[g]
  <1>1. MaxMinutes \in Nat
    BY LimitsAssumption
  <1>2. Creditable(w) \in [Grants -> 0..MaxMinutes]
    BY <1>1 DEF Creditable
  <1>3. ASSUME NEW g \in Grants
        PROVE  remaining[g] + Creditable(w)[g] \in 0..initial[g]
    <2>1. initial[g] \in 0..MaxMinutes /\ remaining[g] \in 0..initial[g] /\ w[g] \in 0..MaxMinutes
      BY DEF TypeOK
    <2>2. CASE remaining[g] + w[g] <= initial[g]
      <3>1. Creditable(w)[g] = w[g]
        BY <2>2 DEF Creditable
      <3> QED BY <1>1, <2>1, <2>2, <3>1
    <2>3. CASE ~(remaining[g] + w[g] <= initial[g])
      <3>1. Creditable(w)[g] = 0
        BY <2>3 DEF Creditable
      <3> QED BY <1>1, <2>1, <3>1
    <2> QED BY <2>2, <2>3
  <1> QED BY <1>2, <1>3

(***************************************************************************)
(* The refund of a session keeps every grant within its bounds.            *)
(***************************************************************************)
LEMMA RefundInBounds ==
    ASSUME TypeOK, NEW s \in Sessions, RefundSessionMinutes(s)
    PROVE  /\ \A g \in Grants : remaining'[g] \in 0..initial[g]
           /\ refunded' \in PerGrant
  <1>1. CASE refunded[s] = Nothing
    <2>1. PICK w \in Walks(Minus(duration[s], AtLeast(1, Elapsed(s))), reserved[s]) :
            /\ remaining' = [g \in Grants |-> remaining[g] + Creditable(w)[g]]
            /\ refunded' = [refunded EXCEPT ![s] = Creditable(w)]
      BY <1>1 DEF RefundSessionMinutes
    <2>2. w \in [Grants -> 0..MaxMinutes]
      BY WalkWithinCap
    <2>3. /\ Creditable(w) \in [Grants -> 0..MaxMinutes]
          /\ \A g \in Grants : remaining[g] + Creditable(w)[g] \in 0..initial[g]
      BY <2>2, CreditInBounds
    <2>4. refunded' \in PerGrant
      BY <2>1, <2>3 DEF TypeOK, PerGrant
    <2> QED BY <2>1, <2>3, <2>4
  <1>2. CASE refunded[s] # Nothing
    BY <1>2 DEF RefundSessionMinutes, TypeOK
  <1> QED BY <1>1, <1>2
-----------------------------------------------------------------------------
LEMMA InitTyped == Init => TypeOK
  <1> SUFFICES ASSUME Init PROVE TypeOK
    OBVIOUS
  <1>1. {Limit, Grace, MaxMinutes, Horizon} \subseteq Nat
    BY LimitsAssumption
  <1>2. PICK m \in 1..MaxMinutes : initial = [Nothing EXCEPT ![Trial] = m]
    BY DEF Init
  <1>3. Nothing \in [Grants -> 0..MaxMinutes]
    BY <1>1 DEF Nothing
  <1>4. initial \in [Grants -> 0..MaxMinutes]
    <2>1. m \in 0..MaxMinutes
      BY <1>1
    <2> QED BY <1>2, <1>3, <2>1
  <1>5. \A g \in Grants : remaining[g] \in 0..initial[g]
    BY <1>1, <1>4 DEF Init
  <1>6. /\ reserved \in PerGrant /\ refunded \in PerGrant
        /\ returned \in [Sessions -> [Grants -> Nat]]
    <2>1. Nothing \in [Grants -> Nat]
      BY DEF Nothing
    <2> QED BY <1>3, <2>1 DEF Init, PerGrant
  <1>7. now \in 0..Horizon /\ started \in [Sessions -> 0..Horizon]
    <2>1. 0 \in 0..Horizon
      BY <1>1
    <2> QED BY <2>1 DEF Init
  <1>8. /\ status \in [Sessions -> Statuses]
        /\ duration \in [Sessions -> Durations \cup {0}]
        /\ answered \in [Sessions -> BOOLEAN] /\ expired \in BOOLEAN
        /\ failing \subseteq Failures \X Sessions
    BY DEF Init, Statuses
  <1> QED BY <1>4, <1>5, <1>6, <1>7, <1>8 DEF TypeOK

LEMMA StepTyped == TypeOK /\ [Next]_vars => TypeOK'
  <1> SUFFICES ASSUME TypeOK, [Next]_vars PROVE TypeOK'
    OBVIOUS
  <1> USE DEF money, sessions
  <1>0. {Limit, Grace, MaxMinutes, Horizon} \subseteq Nat
    BY LimitsAssumption
  <1>1. CASE Tick
    BY <1>0, <1>1 DEF Tick, TypeOK
  <1>2. CASE TrialExpires
    BY <1>2 DEF TrialExpires, TypeOK
  <1>3. ASSUME NEW g \in Paid, NEW m \in 1..MaxMinutes, CreateGrant(g, m) PROVE TypeOK'
    <2>1. g \in Grants
      BY DEF Grants
    <2>2. initial' \in [Grants -> 0..MaxMinutes]
      BY <1>0, <1>3, <2>1 DEF CreateGrant, TypeOK
    <2>3. ASSUME NEW h \in Grants PROVE remaining'[h] \in 0..initial'[h]
      <3>1. CASE h # g
        BY <1>3, <3>1 DEF CreateGrant, TypeOK
      <3>2. CASE h = g
        <4>1. initial'[h] = m
          BY <1>3, <2>1, <3>2 DEF CreateGrant, TypeOK
        <4>2. remaining'[h] \in {m, remaining[h]}
          BY <1>3, <3>2 DEF CreateGrant
        <4>3. remaining[h] = 0
          BY <1>3, <3>2 DEF CreateGrant, TypeOK
        <4> QED BY <1>0, <4>1, <4>2, <4>3
      <3> QED BY <3>1, <3>2
    <2> QED BY <1>3, <2>2, <2>3 DEF CreateGrant, TypeOK
  <1>4. ASSUME NEW s \in Sessions, NEW d \in Durations, CheckLimits(s, d) PROVE TypeOK'
    BY <1>4 DEF CheckLimits, TypeOK, Statuses
  <1>5. ASSUME NEW s \in Sessions, CreateSession(s) PROVE TypeOK'
    <2>1. CASE Balance >= duration[s]
      <3>1. PICK w \in Walks(duration[s], Usable) : Reserve(s, w)
        BY <1>5, <2>1 DEF CreateSession
      <3>2. /\ \A g \in Grants : remaining'[g] \in 0..initial[g]
            /\ reserved' \in PerGrant
        BY <3>1, ReserveInBounds
      <3>3. status' \in [Sessions -> Statuses]
        BY <1>5 DEF CreateSession, TypeOK, Statuses, Open
      <3> QED BY <1>5, <3>2, <3>3 DEF CreateSession, TypeOK
    <2>2. CASE ~(Balance >= duration[s])
      BY <1>5, <2>2 DEF CreateSession, TypeOK, Statuses
    <2> QED BY <2>1, <2>2
  <1>6. ASSUME NEW s \in Sessions, BeginTurn(s) \/ EndTurn(s) PROVE TypeOK'
    <2>1. status' \in [Sessions -> Statuses] /\ answered' \in [Sessions -> BOOLEAN]
      BY <1>6 DEF BeginTurn, EndTurn, TypeOK, Statuses, Open
    <2> QED BY <1>6, <2>1 DEF BeginTurn, EndTurn, TypeOK
  <1>7. ASSUME NEW s \in Sessions, NEW to \in Over, EndSession(s, to) PROVE TypeOK'
    <2>1. /\ \A g \in Grants : remaining'[g] \in 0..initial[g]
          /\ refunded' \in PerGrant
      BY <1>7, RefundInBounds DEF EndSession
    <2>2. status' \in [Sessions -> Statuses]
      BY <1>7 DEF EndSession, TypeOK, Statuses
    <2> QED BY <1>7, <2>1, <2>2 DEF EndSession, TypeOK
  <1>8. ASSUME NEW s \in Sessions, SweepEmpty(s) PROVE TypeOK'
    <2>1. reserved[s] \in [Grants -> 0..MaxMinutes]
      BY DEF TypeOK, PerGrant
    <2>2. /\ FullCredit(s) \in [Grants -> 0..MaxMinutes]
          /\ \A g \in Grants : remaining[g] + FullCredit(s)[g] \in 0..initial[g]
      BY <2>1, CreditInBounds DEF FullCredit
    <2>3. refunded' \in PerGrant
      BY <1>8, <2>2 DEF SweepEmpty, TypeOK, PerGrant
    <2>4. \A g \in Grants : remaining'[g] \in 0..initial[g]
      BY <1>8, <2>2 DEF SweepEmpty
    <2> QED BY <1>8, <2>3, <2>4 DEF SweepEmpty, TypeOK, Statuses, Over
  <1>9. ASSUME NEW s \in Sessions, SweepAnswered(s) PROVE TypeOK'
    BY <1>9 DEF SweepAnswered, TypeOK, Statuses, Over
  <1>10. ASSUME NEW f \in Failures, NEW s \in Sessions, CheckFail(f, s) PROVE TypeOK'
    BY <1>10 DEF CheckFail, TypeOK
  <1>11. ASSUME NEW f \in Failures, NEW s \in Sessions, FailSession(f, s) PROVE TypeOK'
    <2>1. reserved[s] \in [Grants -> 0..MaxMinutes]
      BY DEF TypeOK, PerGrant
    <2>2. /\ FullCredit(s) \in [Grants -> 0..MaxMinutes]
          /\ \A g \in Grants : remaining[g] + FullCredit(s)[g] \in 0..initial[g]
      BY <2>1, CreditInBounds DEF FullCredit
    <2>3. /\ \A g \in Grants : remaining'[g] \in 0..initial[g]
          /\ returned' \in [Sessions -> [Grants -> Nat]]
      <3>1. CASE refunded[s] = Nothing
        <4>1. [g \in Grants |-> returned[s][g] + FullCredit(s)[g]]
                \in [Grants -> Nat]
          BY <1>0, <2>2 DEF TypeOK
        <4> QED BY <1>11, <2>2, <3>1, <4>1 DEF FailSession, TypeOK
      <3>2. CASE refunded[s] # Nothing
        BY <1>11, <3>2 DEF FailSession, TypeOK
      <3> QED BY <3>1, <3>2
    <2>4. status' \in [Sessions -> Statuses] /\ failing' \subseteq Failures \X Sessions
      BY <1>11 DEF FailSession, TypeOK, Statuses, Over
    <2> QED BY <1>11, <2>3, <2>4 DEF FailSession, TypeOK
  <1>12. CASE UNCHANGED vars
    BY <1>12 DEF vars, TypeOK
  <1> QED
    <2>1. \A s \in Sessions : CompleteSession(s) \/ CancelSession(s) =>
             \E to \in Over : EndSession(s, to)
      BY DEF CompleteSession, CancelSession, Over
    <2> QED BY <1>1, <1>2, <1>3, <1>4, <1>5, <1>6, <1>7, <1>8, <1>9, <1>10, <1>11,
               <1>12, <2>1 DEF Next

(***************************************************************************)
(* No grant is ever overdrawn and none ever holds more than it began with, *)
(* whatever sessions are created, ended twice, swept or failed.            *)
(***************************************************************************)
THEOREM GrantsInBounds == Spec => []TypeOK
  BY InitTyped, StepTyped, PTL DEF Spec
-----------------------------------------------------------------------------
(***************************************************************************)
(* What the entries of the sessions say, added up. LedgerExplainsBalance   *)
(* is not inductive: that a refund is an entry within the reservation, and *)
(* that a session without a reservation has no entries, is what keeps the  *)
(* sums.                                                                   *)
(***************************************************************************)
\* A session that has nothing reserved.
NotBegun == {"unused", "checked", "refused"}

\* What the ledger entries of a session have taken of a grant.
Taken(s, g) == reserved[s][g] - (refunded[s][g] + returned[s][g])
Entries(g)  == [s \in Sessions |-> Taken(s, g)]

\* What remains of a grant and what the entries have taken of it is what it
\* began with.
EntriesAddUp == \A g \in Grants : remaining[g] + SumFunction(Entries(g)) = initial[g]

\* The duration is reserved in full with the session's row; refunds and
\* returns come with its end.
ReservedOnCreate ==
    \A s \in Sessions :
        /\ status[s] \in NotBegun => reserved[s] = Nothing
        /\ status[s] \notin Over => refunded[s] = Nothing /\ returned[s] = Nothing
        /\ status[s] \notin {"unused", "refused"} => duration[s] \in Durations
        /\ status[s] \in Open \cup Over => SumFunction(reserved[s]) = duration[s]

\* A handler that fails a session has seen it begin.
FailsWhatBegan ==
    \A f \in Failures, s \in Sessions : <<f, s>> \in failing => status[s] \in Open \cup Over

\* No grant is refunded more than was reserved of it.
RefundsWithinReserve == \A s \in Sessions, g \in Grants : refunded[s][g] <= reserved[s][g]

\* remaining is a function of the grants, whatever else TypeOK leaves open.
OfGrants == remaining = [g \in Grants |-> remaining[g]]

\* The inductive invariant of the ledger.
LedgerInv == TypeOK /\ OfGrants /\ EntriesAddUp /\ ReservedOnCreate /\ FailsWhatBegan
    /\ RefundsWithinReserve

\* A session that is over without a refund has lasted as long as it was to
\* last: to end it once more refunds nothing.
NothingLeftToRefund ==
    NothingReturned =>
        \A s \in Sessions : status[s] \in Over /\ refunded[s] = Nothing =>
            duration[s] <= AtLeast(1, Elapsed(s))

\* The sums are over finite sets.
LEMMA Rows == IsFiniteSet(Sessions) /\ IsFiniteSet(Grants) /\ Nothing \in [Grants -> 0..MaxMinutes]
  <1>1. IsFiniteSet(Grants)
    <2>1. IsFiniteSet({Trial})
      BY FS_Singleton
    <2>2. QED
      BY <2>1, FS_Union, RowsAssumption DEF Grants
  <1>2. Nothing \in [Grants -> 0..MaxMinutes]
    BY LimitsAssumption DEF Nothing
  <1>3. QED
    BY <1>1, <1>2, RowsAssumption

\* The entries can be summed.
LEMMA TakenIsInteger ==
    ASSUME TypeOK, NEW g \in Grants
    PROVE  Entries(g) \in Numbers(Sessions) /\ \A s \in Sessions : Taken(s, g) \in Int
  <1>1. ASSUME NEW s \in Sessions PROVE Taken(s, g) \in Int
    <2>1. /\ reserved[s][g] \in 0..MaxMinutes /\ refunded[s][g] \in 0..MaxMinutes
          /\ returned[s][g] \in Nat
      BY DEF TypeOK, PerGrant
    <2>2. QED
      BY <2>1 DEF Taken
  <1>2. QED
    BY <1>1 DEF Entries, Numbers

\* Only the entries of s change.
OthersKeep(s) ==
    \A r \in Sessions \ {s} :
        reserved'[r] = reserved[r] /\ refunded'[r] = refunded[r] /\ returned'[r] = returned[r]

\* A step that moves minutes between a grant and the entries of one session.
LEMMA MoneyMoves ==
    ASSUME TypeOK, TypeOK', EntriesAddUp, UNCHANGED initial, NEW s \in Sessions, OthersKeep(s),
           \A g \in Grants : remaining'[g] + Taken(s, g)' = remaining[g] + Taken(s, g)
    PROVE  EntriesAddUp'
  <1>1. ASSUME NEW g \in Grants PROVE remaining'[g] + SumFunction(Entries(g)') = initial'[g]
    <2> DEFINE f == Entries(g)
               h == Entries(g)'
    <2>1. f \in Numbers(Sessions) /\ Taken(s, g) \in Int
      BY TakenIsInteger
    <2>2. h \in Numbers(Sessions) /\ Taken(s, g)' \in Int
      <3>1. ASSUME NEW r \in Sessions PROVE Taken(r, g)' \in Int
        <4>1. /\ reserved'[r][g] \in 0..MaxMinutes /\ refunded'[r][g] \in 0..MaxMinutes
              /\ returned'[r][g] \in Nat
          BY DEF TypeOK, PerGrant
        <4>2. QED
          BY <4>1 DEF Taken
      <3>2. QED
        BY <3>1 DEF Entries, Numbers
    <2>3. \A r \in Sessions \ {s} : h[r] = f[r]
      BY DEF OthersKeep, Entries, Taken
    <2>4. f[s] = Taken(s, g) /\ h[s] = Taken(s, g)'
      BY DEF Entries
    <2>5. remaining[g] + SumFunction(f) = initial[g]
      BY DEF EntriesAddUp
    <2>6. remaining[g] \in Int /\ remaining'[g] \in Int /\ initial[g] \in Int
      BY DEF TypeOK
    <2> HIDE DEF f, h
    <2>7. SumFunction(h) = SumFunction(f) + (h[s] - f[s]) /\ SumFunction(f) \in Int
      BY <2>1, <2>2, <2>3, Rows, SumChanges, SumIsInteger
    <2>8. remaining'[g] + SumFunction(h) = initial[g]
      BY <2>1, <2>2, <2>4, <2>5, <2>6, <2>7
    <2>9. QED
      BY <2>8 DEF h
  <1>2. QED
    BY <1>1 DEF EntriesAddUp

\* A step that moves none.
LEMMA MoneyStays ==
    ASSUME EntriesAddUp, UNCHANGED money PROVE EntriesAddUp'
  BY DEF EntriesAddUp, Entries, Taken, money

\* Nothing is taken of a grant that was not there.
LEMMA GrantArrives ==
    ASSUME TypeOK, TypeOK', OfGrants, EntriesAddUp, NEW g \in Paid, NEW m \in 1..MaxMinutes,
           CreateGrant(g, m)
    PROVE  EntriesAddUp'
  <1>1. ASSUME NEW h \in Grants PROVE remaining'[h] + SumFunction(Entries(h)') = initial'[h]
    <2> DEFINE sum == SumFunction(Entries(h))
    <2>1. Entries(h)' = Entries(h)
      BY DEF CreateGrant, Entries, Taken
    <2>2. remaining[h] + sum = initial[h] /\ sum \in Int
      BY Rows, TakenIsInteger, SumIsInteger DEF EntriesAddUp
    <2>3. remaining'[h] - remaining[h] = initial'[h] - initial[h]
      <3>1. CASE h = g
        <4>1. remaining[h] = 0 /\ initial[h] = 0
          BY <3>1 DEF CreateGrant, TypeOK
        <4>2. initial'[h] = m /\ remaining'[h] = m
          BY <3>1 DEF CreateGrant, TypeOK, OfGrants
        <4>3. m \in Int
          OBVIOUS
        <4>4. QED
          BY <4>1, <4>2, <4>3
      <3>2. CASE h # g
        <4>1. initial'[h] = initial[h] /\ remaining'[h] = remaining[h]
          BY <3>2 DEF CreateGrant, TypeOK
        <4>2. initial[h] \in Int /\ remaining[h] \in Int
          BY DEF TypeOK
        <4>3. QED
          BY <4>1, <4>2
      <3>3. QED
        BY <3>1, <3>2
    <2>4. initial[h] \in Int /\ remaining[h] \in Int /\ initial'[h] \in Int /\ remaining'[h] \in Int
      BY DEF TypeOK
    <2>5. SumFunction(Entries(h)') = sum
      BY <2>1
    <2> HIDE DEF sum
    <2>6. QED
      BY <2>2, <2>3, <2>4, <2>5
  <1>2. QED
    BY <1>1 DEF EntriesAddUp

\* The grants of an empty walk.
LEMMA NothingIsNothing == Nothing \in [Grants -> Nat] /\ \A g \in Grants : Nothing[g] = 0
  BY DEF Nothing
-----------------------------------------------------------------------------
\* What a step can do to the minutes.
Reserves(s, w) ==
    /\ status[s] = "checked" /\ w \in Walks(duration[s], Usable) /\ Reserve(s, w)
    /\ UNCHANGED <<initial, refunded, returned>>
Refunds(s, w) ==
    /\ status[s] \in Open \cup Over /\ refunded[s] = Nothing
    /\ w \in [Grants -> 0..MaxMinutes] /\ \A g \in Grants : w[g] <= reserved[s][g]
    /\ remaining' = [g \in Grants |-> remaining[g] + Creditable(w)[g]]
    /\ refunded' = [refunded EXCEPT ![s] = Creditable(w)]
    /\ UNCHANGED <<initial, reserved, returned>>
Returns(s) ==
    /\ status[s] \in Open \cup Over /\ refunded[s] = Nothing
    /\ remaining' = [g \in Grants |-> remaining[g] + FullCredit(s)[g]]
    /\ returned' = [returned EXCEPT ![s] = [g \in Grants |-> @[g] + FullCredit(s)[g]]]
    /\ UNCHANGED <<initial, reserved, refunded>>

\* Every step moves minutes in one of these ways.
Moved ==
    \/ UNCHANGED money
    \/ \E g \in Paid, m \in 1..MaxMinutes : CreateGrant(g, m)
    \/ \E s \in Sessions : (\E w : Reserves(s, w) \/ Refunds(s, w)) \/ Returns(s)

\* EndSession refunds once, within what was reserved.
LEMMA RefundOrNot ==
    ASSUME TypeOK, NEW s \in Sessions, NEW to \in Over, EndSession(s, to)
    PROVE  (refunded[s] # Nothing /\ UNCHANGED money)
           \/ \E w \in Walks(Minus(duration[s], AtLeast(1, Elapsed(s))), reserved[s]) : Refunds(s, w)
  <1>1. CASE refunded[s] = Nothing
    <2>1. PICK w \in Walks(Minus(duration[s], AtLeast(1, Elapsed(s))), reserved[s]) :
            /\ remaining' = [g \in Grants |-> remaining[g] + Creditable(w)[g]]
            /\ refunded' = [refunded EXCEPT ![s] = Creditable(w)]
      BY <1>1 DEF EndSession, RefundSessionMinutes
    <2>2. w \in [Grants -> 0..MaxMinutes] /\ \A g \in Grants : w[g] <= reserved[s][g]
      BY <2>1, WalkWithinCap
    <2>3. Refunds(s, w)
      BY <1>1, <2>1, <2>2 DEF EndSession, Refunds
    <2>4. QED
      BY <2>3
  <1>2. CASE refunded[s] # Nothing
    BY <1>2 DEF EndSession, RefundSessionMinutes, money
  <1>3. QED
    BY <1>1, <1>2

\* SweepEmpty refunds what was reserved.
LEMMA SweepRefunds ==
    ASSUME TypeOK, ReservedOnCreate, NEW s \in Sessions, SweepEmpty(s)
    PROVE  Refunds(s, reserved[s])
  <1>1. reserved[s] \in [Grants -> 0..MaxMinutes] /\ \A g \in Grants : reserved[s][g] <= reserved[s][g]
    BY LimitsAssumption DEF TypeOK, PerGrant
  <1>2. refunded[s] = Nothing /\ status[s] \in Open \cup Over
    BY DEF ReservedOnCreate, SweepEmpty, Over, Open
  <1>3. QED
    BY <1>1, <1>2 DEF SweepEmpty, Refunds, FullCredit

\* FailSession returns the reservation where nothing has been refunded.
LEMMA FailReturns ==
    ASSUME TypeOK, FailsWhatBegan, NEW f \in Failures, NEW s \in Sessions, FailSession(f, s)
    PROVE  (refunded[s] # Nothing /\ UNCHANGED money) \/ (refunded[s] = Nothing /\ Returns(s))
  BY DEF FailSession, FailsWhatBegan, Returns, money

\* Whatever the step, it moves minutes in one of those ways.
LEMMA StepMoves ==
    ASSUME LedgerInv, [Next]_vars PROVE Moved
  <1>1. CASE Tick \/ TrialExpires \/ UNCHANGED vars
    BY <1>1 DEF Tick, TrialExpires, vars, Moved
  <1>2. ASSUME NEW g \in Paid, NEW m \in 1..MaxMinutes, CreateGrant(g, m) PROVE Moved
    BY <1>2 DEF Moved
  <1>3. ASSUME NEW s \in Sessions, NEW d \in Durations, CheckLimits(s, d) PROVE Moved
    BY <1>3 DEF CheckLimits, Moved
  <1>4. ASSUME NEW s \in Sessions, BeginTurn(s) \/ EndTurn(s) \/ SweepAnswered(s) PROVE Moved
    BY <1>4 DEF BeginTurn, EndTurn, SweepAnswered, Moved
  <1>5. ASSUME NEW s \in Sessions, CreateSession(s) PROVE Moved
    <2>1. UNCHANGED money \/ \E w \in Walks(duration[s], Usable) : Reserve(s, w)
      BY <1>5 DEF CreateSession, money
    <2>2. ASSUME NEW w \in Walks(duration[s], Usable), Reserve(s, w) PROVE Reserves(s, w)
      BY <1>5, <2>2 DEF CreateSession, Reserves
    <2>3. QED
      BY <2>1, <2>2 DEF Moved
  <1>6. ASSUME NEW s \in Sessions, CompleteSession(s) \/ CancelSession(s) PROVE Moved
    <2>1. PICK to \in Over : EndSession(s, to)
      BY <1>6 DEF CompleteSession, CancelSession, Over
    <2>2. UNCHANGED money \/ \E w : Refunds(s, w)
      BY <2>1, RefundOrNot DEF LedgerInv
    <2>3. QED
      BY <2>2 DEF Moved
  <1>7. ASSUME NEW s \in Sessions, SweepEmpty(s) PROVE Moved
    <2>1. Refunds(s, reserved[s])
      BY <1>7, SweepRefunds DEF LedgerInv
    <2>2. QED
      BY <2>1 DEF Moved
  <1>8. ASSUME NEW f \in Failures, NEW s \in Sessions, CheckFail(f, s) PROVE Moved
    BY <1>8 DEF CheckFail, Moved
  <1>9. ASSUME NEW f \in Failures, NEW s \in Sessions, FailSession(f, s) PROVE Moved
    <2>1. UNCHANGED money \/ Returns(s)
      BY <1>9, FailReturns DEF LedgerInv
    <2>2. QED
      BY <2>1 DEF Moved
  <1>10. QED
    BY <1>1, <1>2, <1>3, <1>4, <1>5, <1>6, <1>7, <1>8, <1>9 DEF Next

\* What a reservation takes of a grant is what its entry says.
LEMMA ReserveMoves ==
    ASSUME LedgerInv, TypeOK', NEW s \in Sessions, NEW w, Reserves(s, w)
    PROVE  OthersKeep(s) /\ \A g \in Grants : remaining'[g] + Taken(s, g)' = remaining[g] + Taken(s, g)
  <1> USE DEF LedgerInv
  <1>1. w \in [Grants -> 0..MaxMinutes] /\ \A g \in Grants : w[g] <= Usable[g]
    BY WalkWithinCap DEF Reserves
  <1>2. reserved[s] = Nothing /\ reserved'[s] = w /\ refunded'[s] = refunded[s]
        /\ returned'[s] = returned[s]
    BY DEF Reserves, Reserve, ReservedOnCreate, NotBegun, TypeOK, PerGrant
  <1>3. OthersKeep(s)
    BY DEF OthersKeep, Reserves, Reserve, TypeOK, PerGrant
  <1>4. ASSUME NEW g \in Grants PROVE remaining'[g] + Taken(s, g)' = remaining[g] + Taken(s, g)
    <2>1. /\ remaining[g] \in Nat /\ w[g] \in Nat /\ w[g] <= remaining[g]
          /\ refunded[s][g] \in Nat /\ returned[s][g] \in Nat
      <3>1. initial[g] \in 0..MaxMinutes /\ remaining[g] \in 0..initial[g]
        BY DEF TypeOK
      <3>2. Usable[g] \in 0..remaining[g] /\ w[g] <= Usable[g] /\ w[g] \in 0..MaxMinutes
        BY <1>1, UsableRemains
      <3>3. refunded[s][g] \in 0..MaxMinutes /\ returned[s][g] \in Nat
        BY DEF TypeOK, PerGrant
      <3>4. QED
        BY <3>1, <3>2, <3>3, LimitsAssumption
    <2>2. remaining'[g] = remaining[g] - w[g]
      BY <2>1 DEF Reserves, Reserve, Minus
    <2>3. Taken(s, g) = 0 - (refunded[s][g] + returned[s][g])
          /\ Taken(s, g)' = w[g] - (refunded[s][g] + returned[s][g])
      BY <1>2, NothingIsNothing DEF Taken
    <2>4. QED
      BY <2>1, <2>2, <2>3
  <1>5. QED
    BY <1>3, <1>4

\* And what a refund gives back.
LEMMA RefundMoves ==
    ASSUME LedgerInv, TypeOK', NEW s \in Sessions, NEW w, Refunds(s, w)
    PROVE  OthersKeep(s) /\ \A g \in Grants : remaining'[g] + Taken(s, g)' = remaining[g] + Taken(s, g)
  <1> USE DEF LedgerInv
  <1> DEFINE c == Creditable(w)
  <1>1. c \in [Grants -> 0..MaxMinutes]
    BY CreditInBounds DEF Refunds
  <1>2. /\ refunded[s] = Nothing /\ refunded'[s] = c
        /\ reserved'[s] = reserved[s] /\ returned'[s] = returned[s]
    BY DEF Refunds, TypeOK, PerGrant
  <1>3. OthersKeep(s)
    BY DEF OthersKeep, Refunds, TypeOK, PerGrant
  <1>4. ASSUME NEW g \in Grants PROVE remaining'[g] + Taken(s, g)' = remaining[g] + Taken(s, g)
    <2>1. remaining'[g] = remaining[g] + c[g]
      BY DEF Refunds
    <2> HIDE DEF c
    <2>2. /\ remaining[g] \in Nat /\ c[g] \in Nat
          /\ reserved[s][g] \in Nat /\ returned[s][g] \in Nat
      BY <1>1, LimitsAssumption DEF TypeOK, PerGrant
    <2>3. Taken(s, g) = reserved[s][g] - returned[s][g]
          /\ Taken(s, g)' = reserved[s][g] - (c[g] + returned[s][g])
      BY <1>2, <2>2, NothingIsNothing DEF Taken
    <2>4. QED
      BY <2>1, <2>2, <2>3
  <1>5. QED
    BY <1>3, <1>4

\* And what FailSession gives back, which has no entry of its own.
LEMMA ReturnMoves ==
    ASSUME LedgerInv, TypeOK', NEW s \in Sessions, Returns(s)
    PROVE  OthersKeep(s) /\ \A g \in Grants : remaining'[g] + Taken(s, g)' = remaining[g] + Taken(s, g)
  <1> USE DEF LedgerInv
  <1> DEFINE c == FullCredit(s)
  <1>1. c \in [Grants -> 0..MaxMinutes]
    <2>1. reserved[s] \in [Grants -> 0..MaxMinutes]
      BY DEF TypeOK, PerGrant
    <2>2. QED
      BY <2>1, CreditInBounds DEF FullCredit
  <1>2. /\ returned'[s] = [g \in Grants |-> returned[s][g] + c[g]]
        /\ reserved'[s] = reserved[s] /\ refunded'[s] = refunded[s]
    BY DEF Returns, TypeOK
  <1>3. OthersKeep(s)
    BY DEF OthersKeep, Returns, TypeOK, PerGrant
  <1>4. ASSUME NEW g \in Grants PROVE remaining'[g] + Taken(s, g)' = remaining[g] + Taken(s, g)
    <2>1. remaining'[g] = remaining[g] + c[g] /\ returned'[s][g] = returned[s][g] + c[g]
      BY <1>2 DEF Returns
    <2> HIDE DEF c
    <2>2. /\ remaining[g] \in Nat /\ c[g] \in Nat
          /\ reserved[s][g] \in Nat /\ returned[s][g] \in Nat /\ refunded[s][g] \in Nat
      BY <1>1, LimitsAssumption DEF TypeOK, PerGrant
    <2>3. QED
      BY <1>2, <2>1, <2>2 DEF Taken
  <1>5. QED
    BY <1>3, <1>4

\* The entries still add up after any step.
LEMMA MoneyInvariant ==
    ASSUME LedgerInv, TypeOK', Moved
    PROVE  OfGrants' /\ EntriesAddUp' /\ RefundsWithinReserve'
  <1> USE DEF LedgerInv
  <1>1. CASE UNCHANGED money
    BY <1>1, MoneyStays DEF OfGrants, RefundsWithinReserve, money
  <1>2. ASSUME NEW g \in Paid, NEW m \in 1..MaxMinutes, CreateGrant(g, m)
        PROVE  OfGrants' /\ EntriesAddUp' /\ RefundsWithinReserve'
    <2>1. OfGrants'
      BY <1>2 DEF OfGrants, CreateGrant
    <2>2. QED
      BY <1>2, <2>1, GrantArrives DEF CreateGrant, RefundsWithinReserve
  <1>3. ASSUME NEW s \in Sessions, NEW w, Reserves(s, w)
        PROVE  OfGrants' /\ EntriesAddUp' /\ RefundsWithinReserve'
    <2>1. EntriesAddUp'
      BY <1>3, ReserveMoves, MoneyMoves DEF Reserves
    <2>2. OfGrants'
      BY <1>3 DEF OfGrants, Reserves, Reserve
    <2>3. ASSUME NEW r \in Sessions, NEW g \in Grants PROVE refunded'[r][g] <= reserved'[r][g]
      <3>1. CASE r = s
        <4>1. refunded'[r][g] = 0
          BY <1>3, <3>1, NothingIsNothing DEF Reserves, ReservedOnCreate, Over
        <4>2. reserved'[r][g] \in 0..MaxMinutes
          BY DEF TypeOK, PerGrant
        <4>3. QED
          BY <4>1, <4>2
      <3>2. CASE r # s
        BY <1>3, <3>2 DEF Reserves, Reserve, RefundsWithinReserve, TypeOK, PerGrant
      <3>3. QED
        BY <3>1, <3>2
    <2>4. QED
      BY <2>1, <2>2, <2>3 DEF RefundsWithinReserve
  <1>4. ASSUME NEW s \in Sessions, NEW w, Refunds(s, w)
        PROVE  OfGrants' /\ EntriesAddUp' /\ RefundsWithinReserve'
    <2>1. EntriesAddUp'
      BY <1>4, RefundMoves, MoneyMoves DEF Refunds
    <2>2. OfGrants'
      BY <1>4 DEF OfGrants, Refunds
    <2>3. ASSUME NEW r \in Sessions, NEW g \in Grants PROVE refunded'[r][g] <= reserved'[r][g]
      <3>1. CASE r = s
        <4>1. refunded'[r][g] = Creditable(w)[g]
          BY <1>4, <3>1 DEF Refunds, TypeOK, PerGrant
        <4>2. w[g] <= reserved[s][g] /\ reserved[s][g] \in 0..MaxMinutes /\ reserved'[r] = reserved[s]
          BY <1>4, <3>1 DEF Refunds, TypeOK, PerGrant
        <4>3. Creditable(w)[g] \in {w[g], 0}
          BY DEF Creditable
        <4>4. QED
          BY <4>1, <4>2, <4>3
      <3>2. CASE r # s
        BY <1>4, <3>2 DEF Refunds, RefundsWithinReserve, TypeOK, PerGrant
      <3>3. QED
        BY <3>1, <3>2
    <2>4. QED
      BY <2>1, <2>2, <2>3 DEF RefundsWithinReserve
  <1>5. ASSUME NEW s \in Sessions, Returns(s)
        PROVE  OfGrants' /\ EntriesAddUp' /\ RefundsWithinReserve'
    <2>1. EntriesAddUp'
      BY <1>5, ReturnMoves, MoneyMoves DEF Returns
    <2>2. QED
      BY <1>5, <2>1 DEF OfGrants, Returns, RefundsWithinReserve
  <1>6. QED
    BY <1>1, <1>2, <1>3, <1>4, <1>5 DEF Moved

\* And they are still those of sessions that began.
LEMMA SessionInvariant ==
    ASSUME LedgerInv, [Next]_vars
    PROVE  ReservedOnCreate' /\ FailsWhatBegan'
  <1> USE DEF LedgerInv, money, sessions
  <1>0. Open = {"active", "generating"} /\ Over = {"completed", "cancelled", "failed"}
        /\ NotBegun = {"unused", "checked", "refused"}
    BY DEF Open, Over, NotBegun
  <1>1. CASE Tick \/ TrialExpires \/ UNCHANGED vars
             \/ \E g \in Paid, m \in 1..MaxMinutes : CreateGrant(g, m)
    BY <1>1 DEF Tick, TrialExpires, CreateGrant, vars, ReservedOnCreate, FailsWhatBegan
  <1>2. ASSUME NEW s \in Sessions, NEW d \in Durations, CheckLimits(s, d)
        PROVE  ReservedOnCreate' /\ FailsWhatBegan'
    <2>1. status[s] = "unused" /\ status'[s] \in {"checked", "refused"}
          /\ (status'[s] = "checked" => duration'[s] = d)
          /\ \A r \in Sessions \ {s} : status'[r] = status[r] /\ duration'[r] = duration[r]
      BY <1>2 DEF CheckLimits, TypeOK
    <2>2. UNCHANGED <<reserved, refunded, returned, failing>>
      BY <1>2 DEF CheckLimits
    <2>3. QED
      BY <1>0, <2>1, <2>2 DEF ReservedOnCreate, FailsWhatBegan
  <1>3. ASSUME NEW s \in Sessions, CreateSession(s) PROVE ReservedOnCreate' /\ FailsWhatBegan'
    <2>1. status[s] = "checked" /\ UNCHANGED <<refunded, returned, failing, duration>>
          /\ \A r \in Sessions \ {s} : status'[r] = status[r]
      BY <1>3 DEF CreateSession, TypeOK
    <2>2. CASE UNCHANGED reserved /\ status'[s] = "refused"
      BY <1>0, <2>1, <2>2 DEF ReservedOnCreate, FailsWhatBegan
    <2>3. ASSUME NEW w \in Walks(duration[s], Usable), Reserve(s, w), status'[s] = "active"
          PROVE  ReservedOnCreate' /\ FailsWhatBegan'
      <3>1. reserved'[s] = w /\ \A r \in Sessions \ {s} : reserved'[r] = reserved[r]
        BY <2>3 DEF Reserve, TypeOK, PerGrant
      <3>2. SumFunction(w) = duration[s]
        BY DEF Walks
      <3>3. ReservedOnCreate'
        BY <1>0, <2>1, <2>3, <3>1, <3>2 DEF ReservedOnCreate
      <3>4. QED
        BY <1>0, <2>1, <2>3, <3>3 DEF FailsWhatBegan
    <2>4. QED
      BY <1>3, <2>2, <2>3 DEF CreateSession, TypeOK
  <1>4. ASSUME NEW s \in Sessions, BeginTurn(s) \/ EndTurn(s) PROVE ReservedOnCreate' /\ FailsWhatBegan'
    <2>1. status[s] \in Open /\ status'[s] \in Open
          /\ UNCHANGED <<reserved, refunded, returned, failing, duration>>
          /\ \A r \in Sessions \ {s} : status'[r] = status[r]
      BY <1>4 DEF BeginTurn, EndTurn, Open, TypeOK
    <2>2. QED
      BY <1>0, <2>1 DEF ReservedOnCreate, FailsWhatBegan
  <1>5. ASSUME NEW s \in Sessions, status[s] \in Open \cup Over, status'[s] \in Over,
               \A r \in Sessions \ {s} : /\ status'[r] = status[r] /\ refunded'[r] = refunded[r]
                                         /\ returned'[r] = returned[r],
               UNCHANGED <<reserved, duration>>, failing' \subseteq failing
        PROVE  ReservedOnCreate' /\ FailsWhatBegan'
    BY <1>0, <1>5 DEF ReservedOnCreate, FailsWhatBegan
  <1>6. ASSUME NEW s \in Sessions,
               CompleteSession(s) \/ CancelSession(s) \/ SweepEmpty(s) \/ SweepAnswered(s)
        PROVE  ReservedOnCreate' /\ FailsWhatBegan'
    <2>1. status[s] \in Open \cup Over /\ status'[s] \in Over
          /\ UNCHANGED <<reserved, duration, failing, returned>>
          /\ \A r \in Sessions \ {s} : status'[r] = status[r]
      BY <1>0, <1>6 DEF CompleteSession, CancelSession, EndSession, SweepEmpty, SweepAnswered, TypeOK
    <2>2. \A r \in Sessions \ {s} : refunded'[r] = refunded[r]
      BY <1>6 DEF CompleteSession, CancelSession, EndSession, RefundSessionMinutes, SweepEmpty,
         SweepAnswered,
                  TypeOK, PerGrant
    <2>3. QED
      BY <1>5, <2>1, <2>2
  <1>7. ASSUME NEW f \in Failures, NEW s \in Sessions, CheckFail(f, s)
        PROVE  ReservedOnCreate' /\ FailsWhatBegan'
    BY <1>0, <1>7 DEF CheckFail, ReservedOnCreate, FailsWhatBegan
  <1>8. ASSUME NEW f \in Failures, NEW s \in Sessions, FailSession(f, s)
        PROVE  ReservedOnCreate' /\ FailsWhatBegan'
    <2>1. status[s] \in Open \cup Over
      BY <1>8 DEF FailSession, FailsWhatBegan
    <2>2. status'[s] \in Over /\ UNCHANGED <<reserved, duration, refunded>> /\ failing' \subseteq failing
          /\ \A r \in Sessions \ {s} : status'[r] = status[r]
      BY <1>0, <1>8 DEF FailSession, TypeOK
    <2>3. \A r \in Sessions \ {s} : returned'[r] = returned[r]
      BY <1>8 DEF FailSession, TypeOK
    <2>4. QED
      BY <1>5, <2>1, <2>2, <2>3
  <1>9. QED
    BY <1>1, <1>2, <1>3, <1>4, <1>6, <1>7, <1>8 DEF Next

\* There are no entries at first.
LEMMA LedgerInitInv == Init => LedgerInv
  <1> SUFFICES ASSUME Init PROVE LedgerInv
    OBVIOUS
  <1>1. TypeOK
    BY InitTyped
  <1>2. OfGrants
    BY DEF Init, OfGrants, Nothing
  <1>3. ReservedOnCreate /\ FailsWhatBegan /\ RefundsWithinReserve
    <2>1. \A s \in Sessions : /\ status[s] = "unused" /\ reserved[s] = Nothing
                              /\ refunded[s] = Nothing /\ returned[s] = Nothing
      BY DEF Init
    <2>2. failing = {}
      BY DEF Init
    <2>3. QED
      BY <2>1, <2>2, NothingIsNothing
         DEF ReservedOnCreate, FailsWhatBegan, RefundsWithinReserve, Open, Over, NotBegun
  <1>4. ASSUME NEW g \in Grants PROVE remaining[g] + SumFunction(Entries(g)) = initial[g]
    <2>1. ASSUME NEW s \in Sessions PROVE Taken(s, g) = 0
      <3>1. reserved[s][g] = 0 /\ refunded[s][g] = 0 /\ returned[s][g] = 0
        BY NothingIsNothing DEF Init
      <3>2. QED
        BY <3>1 DEF Taken
    <2>2. \A s \in Sessions : Entries(g)[s] = 0
      BY <2>1 DEF Entries
    <2> DEFINE f == Entries(g)
    <2>3. f \in Numbers(Sessions) /\ \A s \in Sessions : f[s] = 0
      BY <1>1, <2>2, TakenIsInteger
    <2> HIDE DEF f
    <2>4. SumFunction(f) = 0
      BY <2>3, Rows, SumOfNothing
    <2>5. remaining[g] = initial[g] /\ initial[g] \in Int
      BY <1>1 DEF Init, TypeOK
    <2>6. QED
      BY <2>4, <2>5 DEF f
  <1>5. QED
    BY <1>1, <1>2, <1>3, <1>4 DEF LedgerInv, EntriesAddUp

\* A step keeps the inductive invariant.
LEMMA LedgerStepInv == LedgerInv /\ [Next]_vars => LedgerInv'
  <1> SUFFICES ASSUME LedgerInv, [Next]_vars PROVE LedgerInv'
    OBVIOUS
  <1>1. TypeOK'
    BY StepTyped DEF LedgerInv
  <1>2. OfGrants' /\ EntriesAddUp' /\ RefundsWithinReserve'
    BY <1>1, StepMoves, MoneyInvariant
  <1>3. QED
    BY <1>1, <1>2, SessionInvariant DEF LedgerInv
\* Hence it always holds.
LEMMA LedgerInvariant == Spec => []LedgerInv
  BY LedgerInitInv, LedgerStepInv, PTL DEF Spec

\* What is usable of the grants can be summed.
LEMMA UsableIsNatural ==
    ASSUME TypeOK
    PROVE  Usable \in Numbers(Grants) /\ \A g \in Grants : Usable[g] >= 0
  <1>1. ASSUME NEW g \in Grants PROVE Usable[g] \in Int /\ Usable[g] >= 0
    <2>1. initial[g] \in 0..MaxMinutes /\ remaining[g] \in 0..initial[g] /\ Usable[g] \in 0..remaining[g]
      BY UsableRemains DEF TypeOK
    <2>2. QED
      BY <2>1
  <1>2. Usable = [g \in Grants |-> Usable[g]]
    BY DEF Usable
  <1>3. QED
    BY <1>1, <1>2 DEF Numbers

\* The page sums the grants that are listed; those that are not have nothing
\* usable.
LEMMA UsageAddsUp ==
    ASSUME TypeOK
    PROVE  /\ Balance = Usable[Trial] + SumFunction([Usable EXCEPT ![Trial] = 0])
           /\ Balance = SumFunction([grant \in GetUsage.grants |-> grant.remaining])
  <1> DEFINE u == Usable
             v == [Usable EXCEPT ![Trial] = 0]
             E == {GrantToProto(g) : g \in ListActiveGrants}
             r == [grant \in E |-> grant.remaining]
             p == [g \in ListActiveGrants |-> GrantToProto(g)]
  <1>1. u \in Numbers(Grants) /\ \A g \in Grants : u[g] >= 0
    BY UsableIsNatural
  <1>2. Trial \in Grants /\ IsFiniteSet(Grants)
    BY Rows DEF Grants
  <1>3. Balance = u[Trial] + SumFunction(v)
    <2>1. v \in Numbers(Grants) /\ v[Trial] = 0 /\ \A g \in Grants \ {Trial} : v[g] = u[g]
      BY <1>1, <1>2 DEF Numbers
    <2>2. u[Trial] \in Int
      BY <1>1, <1>2 DEF Numbers
    <2> HIDE DEF u, v
    <2>3. SumFunction(v) = SumFunction(u) + (v[Trial] - u[Trial]) /\ SumFunction(u) \in Int
      BY <1>1, <1>2, <2>1, SumChanges, SumIsInteger
    <2>4. Balance = SumFunction(u)
      BY DEF Balance, u
    <2>5. QED
      BY <2>1, <2>2, <2>3, <2>4
  <1>4. Balance = SumFunction(r)
    <2>1. ListActiveGrants \in SUBSET Grants /\ \A g \in Grants \ ListActiveGrants : u[g] = 0
      <3>1. \A g \in Grants : u[g] \in Int
        BY <1>1 DEF Numbers
      <3>2. QED
        BY <1>1, <3>1 DEF ListActiveGrants
    <2>2. \A g \in ListActiveGrants : u[g] = remaining[g]
      BY <2>1 DEF ListActiveGrants, Usable
    <2>3. p \in [ListActiveGrants -> E] /\ \A e \in E : \E g \in ListActiveGrants : p[g] = e
      OBVIOUS
    <2>4. \A g, h \in ListActiveGrants : p[g] = p[h] => g = h
      BY DEF GrantToProto
    <2>5. \A g \in ListActiveGrants : r[p[g]] = u[g]
      BY <2>2 DEF GrantToProto
    <2>6. r \in Numbers(E)
      <3>1. \A g \in ListActiveGrants : GrantToProto(g).remaining = u[g] /\ u[g] \in Int
        BY <1>1, <2>1, <2>2 DEF GrantToProto, Numbers
      <3>2. \A e \in E : e.remaining \in Int
        BY <3>1
      <3>3. QED
        BY <3>2 DEF Numbers
    <2> HIDE DEF u, p, r, E
    <2>7. SumFunction(u) = SumFunction(r)
      BY <1>1, <1>2, <2>1, <2>3, <2>4, <2>5, <2>6, SumRenamed
    <2>8. QED
      BY <2>7 DEF Balance, u
  <1>5. QED
    BY <1>3, <1>4 DEF GetUsage

(***************************************************************************)
(* Whatever sessions are created, ended, failed and swept, in any order    *)
(* and however often, the ledger explains the balances: the entries of all *)
(* sessions and what remains of a grant add up to what the grant began     *)
(* with, and what the page sums up is what CreateSession sees.             *)
(***************************************************************************)
THEOREM LedgerIsAudit == Spec => []LedgerExplainsBalance
  <1>1. LedgerInv => LedgerExplainsBalance
    <2> SUFFICES ASSUME LedgerInv PROVE LedgerExplainsBalance
      OBVIOUS
    <2>1. \A g \in Grants :
             remaining[g] + SumFunction([s \in Sessions |->
                 reserved[s][g] - (refunded[s][g] + returned[s][g])]) = initial[g]
      BY DEF LedgerInv, EntriesAddUp, Entries, Taken
    <2>2. /\ GetUsage.summary.total = GetUsage.summary.free + GetUsage.summary.paid
          /\ GetUsage.summary.total = SumFunction([grant \in GetUsage.grants |-> grant.remaining])
      <3>1. /\ GetUsage.summary.total = Balance /\ GetUsage.summary.free = Usable[Trial]
            /\ GetUsage.summary.paid = SumFunction([Usable EXCEPT ![Trial] = 0])
        BY DEF GetUsage, UserUsageSummary
      <3>2. QED
        BY <3>1, UsageAddsUp DEF LedgerInv
    <2>3. QED
      BY <2>1, <2>2 DEF LedgerExplainsBalance
  <1>2. QED
    BY <1>1, LedgerInvariant, PTL
-----------------------------------------------------------------------------
\* An empty walk takes nothing.
LEMMA NothingSums == SumFunction(Nothing) = 0
  <1>1. Nothing \in Numbers(Grants) /\ \A g \in Grants : Nothing[g] = 0
    BY DEF Nothing, Numbers
  <1>2. QED
    BY <1>1, Rows, SumOfNothing

\* While FailSession has returned nothing, a refund within the reservation
\* fits under the size of every grant, and is not cut short.
LEMMA CreditFits ==
    ASSUME LedgerInv, NothingReturned, NEW s \in Sessions, refunded[s] = Nothing,
           NEW w \in [Grants -> 0..MaxMinutes], \A g \in Grants : w[g] <= reserved[s][g]
    PROVE  Creditable(w) = w
  <1> USE DEF LedgerInv
  <1>1. ASSUME NEW g \in Grants PROVE remaining[g] + w[g] <= initial[g]
    <2> DEFINE f == Entries(g)
    <2>1. f \in Numbers(Sessions)
      BY TakenIsInteger
    <2>2. ASSUME NEW r \in Sessions PROVE f[r] >= 0
      <3>1. reserved[r][g] \in 0..MaxMinutes /\ refunded[r][g] \in 0..MaxMinutes /\ returned[r][g] = 0
        BY NothingIsNothing DEF TypeOK, PerGrant, NothingReturned
      <3>2. refunded[r][g] <= reserved[r][g]
        BY DEF RefundsWithinReserve
      <3>3. QED
        BY <3>1, <3>2 DEF Entries, Taken
    <2>3. f[s] = reserved[s][g] /\ reserved[s][g] \in 0..MaxMinutes
      <3>1. refunded[s][g] = 0 /\ returned[s][g] = 0 /\ reserved[s][g] \in 0..MaxMinutes
        BY NothingIsNothing DEF TypeOK, PerGrant, NothingReturned
      <3>2. QED
        BY <3>1 DEF Entries, Taken
    <2>4. remaining[g] + SumFunction(f) = initial[g]
      BY DEF EntriesAddUp
    <2>5. remaining[g] \in Int /\ initial[g] \in Int /\ w[g] \in Int /\ w[g] <= reserved[s][g]
      BY DEF TypeOK
    <2> HIDE DEF f
    <2>6. SumFunction(f) \in Int /\ f[s] <= SumFunction(f)
      BY <2>1, <2>2, Rows, SumOfNaturals, SumIsInteger
    <2>7. QED
      BY <2>3, <2>4, <2>5, <2>6
  <1>2. \A g \in Grants : Creditable(w)[g] = w[g]
    BY <1>1 DEF Creditable
  <1>3. QED
    BY <1>2 DEF Creditable

\* What an open session has reserved is not nothing.
LEMMA SomethingReserved ==
    ASSUME LedgerInv, NEW s \in Sessions, status[s] \in Open \cup Over
    PROVE  /\ SumFunction(reserved[s]) = duration[s] /\ duration[s] \in Nat \ {0}
           /\ reserved[s] # Nothing /\ reserved[s] \in [Grants -> 0..MaxMinutes]
  <1>1. SumFunction(reserved[s]) = duration[s] /\ duration[s] \in Durations
    BY DEF LedgerInv, ReservedOnCreate, Open, Over
  <1>2. QED
    BY <1>1, NothingSums, DurationsAssumption DEF LedgerInv, TypeOK, PerGrant

\* If nothing has been returned after a step, nothing had been before.
LEMMA NothingReturnedBefore ==
    ASSUME LedgerInv, TypeOK', [Next]_vars, NothingReturned'
    PROVE  NothingReturned /\ \A s \in Sessions : ~Returns(s)
  <1> USE DEF LedgerInv
  <1>0. \A s \in Sessions : returned'[s] = Nothing
    BY DEF NothingReturned
  <1>1. ASSUME NEW s \in Sessions, Returns(s) PROVE FALSE
    <2> DEFINE c == FullCredit(s)
    <2>1. reserved[s] \in [Grants -> 0..MaxMinutes]
      BY DEF TypeOK, PerGrant
    <2>2. c \in [Grants -> 0..MaxMinutes]
      BY <2>1, CreditInBounds DEF FullCredit
    <2>3. returned'[s] = [g \in Grants |-> returned[s][g] + c[g]]
      BY <1>1 DEF Returns, TypeOK
    <2>4. returned[s] \in [Grants -> Nat] /\ refunded[s] = Nothing
      BY <1>1 DEF TypeOK, Returns
    <2>5. ASSUME NEW g \in Grants PROVE returned[s][g] = 0 /\ c[g] = 0
      <3>1. returned[s][g] + c[g] = 0
        BY <1>0, <2>3, NothingIsNothing
      <3>2. returned[s][g] \in Nat /\ c[g] \in 0..MaxMinutes
        BY <2>2, <2>4
      <3> HIDE DEF c
      <3>3. QED
        BY <3>1, <3>2
    <2>6. returned[s] = Nothing /\ c = Nothing
      BY <2>2, <2>4, <2>5 DEF Nothing
    <2>7. \A r \in Sessions \ {s} : returned[r] = returned'[r]
      BY <1>1 DEF Returns, TypeOK
    <2>8. NothingReturned
      BY <1>0, <2>6, <2>7 DEF NothingReturned
    <2>9. c = reserved[s]
      <3>1. \A g \in Grants : reserved[s][g] <= reserved[s][g]
        BY <2>1
      <3>2. QED
        BY <2>1, <2>4, <2>8, <3>1, CreditFits DEF FullCredit
    <2>10. reserved[s] # Nothing
      BY <1>1, SomethingReserved DEF Returns
    <2>11. QED
      BY <2>6, <2>9, <2>10
  <1>2. Moved
    BY StepMoves
  <1>3. UNCHANGED returned
    BY <1>1, <1>2 DEF Moved, money, CreateGrant, Reserves, Refunds
  <1>4. QED
    BY <1>0, <1>1, <1>3 DEF NothingReturned

\* The refunds and returns of s stay.
SessionKeeps(s) == refunded'[s] = refunded[s] /\ returned'[s] = returned[s]

\* What can happen to a session that has begun.
LEMMA SessionStep ==
    ASSUME LedgerInv, [Next]_vars, NEW s \in Sessions, status[s] \in Open \cup Over
    PROVE  \/ \E to \in Over : EndSession(s, to)
           \/ SweepEmpty(s) \/ SweepAnswered(s) \/ \E f \in Failures : FailSession(f, s)
           \/ SessionKeeps(s) /\ (status[s] \in Open => status'[s] \in Open)
              /\ (status[s] \in Over => status'[s] = status[s])
  <1> USE DEF LedgerInv, money, sessions
  <1> DEFINE Keeps == SessionKeeps(s) /\ (status[s] \in Open => status'[s] \in Open)
                                      /\ (status[s] \in Over => status'[s] = status[s])
  <1>1. CASE Tick \/ TrialExpires \/ UNCHANGED vars
             \/ \E g \in Paid, m \in 1..MaxMinutes : CreateGrant(g, m)
    BY <1>1 DEF Tick, TrialExpires, CreateGrant, vars, SessionKeeps
  <1>2. ASSUME NEW r \in Sessions, NEW d \in Durations, CheckLimits(r, d) PROVE Keeps
    BY <1>2 DEF CheckLimits, TypeOK, Open, Over, SessionKeeps
  <1>3. ASSUME NEW r \in Sessions, CreateSession(r) PROVE Keeps
    BY <1>3 DEF CreateSession, TypeOK, Open, Over, SessionKeeps
  <1>4. ASSUME NEW r \in Sessions, BeginTurn(r) \/ EndTurn(r) PROVE Keeps
    BY <1>4 DEF BeginTurn, EndTurn, TypeOK, Open, Over, SessionKeeps
  <1>5. ASSUME NEW r \in Sessions, NEW to \in Over, r # s, EndSession(r, to) PROVE Keeps
    BY <1>5 DEF EndSession, RefundSessionMinutes, TypeOK, PerGrant, SessionKeeps
  <1>6. ASSUME NEW r \in Sessions, r # s, SweepEmpty(r) \/ SweepAnswered(r) PROVE Keeps
    BY <1>6 DEF SweepEmpty, SweepAnswered, TypeOK, PerGrant, SessionKeeps
  <1>7. ASSUME NEW f \in Failures, NEW r \in Sessions, CheckFail(f, r) PROVE Keeps
    BY <1>7 DEF CheckFail, SessionKeeps
  <1>8. ASSUME NEW f \in Failures, NEW r \in Sessions, r # s, FailSession(f, r) PROVE Keeps
    BY <1>8 DEF FailSession, TypeOK, SessionKeeps
  <1>9. \A r \in Sessions : CompleteSession(r) \/ CancelSession(r) => \E to \in Over : EndSession(r, to)
    BY DEF CompleteSession, CancelSession, Over
  <1> HIDE DEF Keeps
  <1>10. Keeps \/ (\E to \in Over : EndSession(s, to))
         \/ SweepEmpty(s) \/ SweepAnswered(s) \/ \E f \in Failures : FailSession(f, s)
    BY <1>1, <1>2, <1>3, <1>4, <1>5, <1>6, <1>7, <1>8, <1>9 DEF Next, Keeps
  <1>11. QED
    BY <1>10 DEF Keeps

\* What it was to cost does not change any more, and its age only grows.
LEMMA TermsStay ==
    ASSUME LedgerInv, TypeOK', [Next]_vars, NEW s \in Sessions, status[s] \in Open \cup Over
    PROVE  /\ duration'[s] = duration[s] /\ started'[s] = started[s] /\ reserved'[s] = reserved[s]
           /\ AtLeast(1, Elapsed(s)) <= AtLeast(1, Elapsed(s))'
  <1> USE DEF LedgerInv, money, sessions
  <1>1. /\ duration'[s] = duration[s] /\ started'[s] = started[s] /\ reserved'[s] = reserved[s]
        /\ now' \in {now, now + 1}
    <2>1. CASE Tick \/ TrialExpires \/ UNCHANGED vars
               \/ \E g \in Paid, m \in 1..MaxMinutes : CreateGrant(g, m)
      BY <2>1 DEF Tick, TrialExpires, CreateGrant, vars
    <2>2. ASSUME NEW r \in Sessions, NEW d \in Durations, CheckLimits(r, d)
          PROVE  duration'[s] = duration[s] /\ started'[s] = started[s]
                 /\ reserved'[s] = reserved[s] /\ now' = now
      BY <2>2 DEF CheckLimits, TypeOK, Open, Over
    <2>3. ASSUME NEW r \in Sessions, CreateSession(r)
          PROVE  duration'[s] = duration[s] /\ started'[s] = started[s]
                 /\ reserved'[s] = reserved[s] /\ now' = now
      BY <2>3 DEF CreateSession, Reserve, TypeOK, PerGrant, Open, Over
    <2>4. CASE \E r \in Sessions : BeginTurn(r) \/ EndTurn(r) \/ CompleteSession(r) \/ CancelSession(r)
                                   \/ SweepEmpty(r) \/ SweepAnswered(r)
                                   \/ \E f \in Failures : CheckFail(f, r) \/ FailSession(f, r)
      BY <2>4 DEF BeginTurn, EndTurn, CompleteSession, CancelSession, EndSession, SweepEmpty,
         SweepAnswered,
                  CheckFail, FailSession
    <2>5. QED
      BY <2>1, <2>2, <2>3, <2>4 DEF Next
  <1>2. now \in Int /\ started[s] \in Int
    BY DEF TypeOK
  <1>3. QED
    BY <1>1, <1>2 DEF AtLeast, Elapsed

\* A session is not over before it has begun.
LEMMA NotBegunNotOver ==
    ASSUME LedgerInv, [Next]_vars, NEW s \in Sessions, status[s] \notin Open \cup Over
    PROVE  status'[s] \notin Over
  <1> USE DEF LedgerInv, money, sessions
  <1>1. CASE Tick \/ TrialExpires \/ UNCHANGED vars
             \/ \E g \in Paid, m \in 1..MaxMinutes : CreateGrant(g, m)
    BY <1>1 DEF Tick, TrialExpires, CreateGrant, vars
  <1>2. ASSUME NEW r \in Sessions, (\E d \in Durations : CheckLimits(r, d)) \/ CreateSession(r)
        PROVE  status'[s] \notin Over
    BY <1>2 DEF CheckLimits, CreateSession, TypeOK, Over
  <1>3. ASSUME NEW r \in Sessions, BeginTurn(r) \/ EndTurn(r) \/ CompleteSession(r) \/ CancelSession(r)
                                   \/ SweepEmpty(r) \/ SweepAnswered(r)
        PROVE  status'[s] \notin Over
    BY <1>3 DEF BeginTurn, EndTurn, CompleteSession, CancelSession, EndSession, SweepEmpty,
       SweepAnswered,
                TypeOK, Open
  <1>4. ASSUME NEW r \in Sessions, NEW f \in Failures, CheckFail(f, r) \/ FailSession(f, r)
        PROVE  status'[s] \notin Over
    BY <1>4 DEF CheckFail, FailSession, FailsWhatBegan, TypeOK
  <1>5. QED
    BY <1>1, <1>2, <1>3, <1>4 DEF Next
-----------------------------------------------------------------------------
\* What a session has cost, when nothing was returned.
LEMMA Charged ==
    ASSUME TypeOK', NothingReturned', NEW s \in Sessions,
           SumFunction(reserved'[s]) = duration[s], duration[s] \in Nat
    PROVE  /\ Charge(s)' = Minus(duration[s], SumFunction(refunded'[s]))
           /\ refunded'[s] = Nothing => Charge(s)' = duration[s]
           /\ refunded'[s] = reserved'[s] => Charge(s)' = 0
  <1>1. SumFunction(returned'[s]) = 0
    BY NothingSums DEF NothingReturned
  <1> DEFINE f == refunded'[s]
  <1>2. f \in Numbers(Grants)
    BY DEF TypeOK, PerGrant, Numbers
  <1> HIDE DEF f
  <1>3. SumFunction(f) \in Int
    BY <1>2, Rows, SumIsInteger
  <1>4. Charge(s)' = Minus(duration[s], SumFunction(f) + 0)
    BY <1>1 DEF Charge, f
  <1>5. Charge(s)' = Minus(duration[s], SumFunction(f))
    BY <1>3, <1>4
  <1>6. f = Nothing => Charge(s)' = duration[s]
    BY <1>5, NothingSums DEF Minus
  <1>7. f = reserved'[s] => Charge(s)' = 0
    BY <1>5 DEF Minus
  <1>8. QED
    BY <1>5, <1>6, <1>7 DEF f

\* At least a minute is charged.
LEMMA RunIsPositive ==
    ASSUME TypeOK, NEW s \in Sessions
    PROVE  AtLeast(1, Elapsed(s)) \in Nat \ {0} /\ Elapsed(s) \in Int
  BY DEF TypeOK, AtLeast, Elapsed

\* What a session costs after EndSession.
LEMMA EndCosts ==
    ASSUME LedgerInv, TypeOK', NothingReturned, NothingReturned',
           NEW s \in Sessions, NEW to \in Over, EndSession(s, to)
    PROVE  \/ refunded[s] # Nothing /\ UNCHANGED money
           \/ /\ refunded[s] = Nothing
              /\ Charge(s)' = Used(s)
              /\ refunded'[s] = Nothing => duration[s] <= AtLeast(1, Elapsed(s))
  <1> USE DEF LedgerInv
  <1> DEFINE run == AtLeast(1, Elapsed(s))
  <1>1. SUFFICES ASSUME NEW w \in Walks(Minus(duration[s], run), reserved[s]), Refunds(s, w)
        PROVE  /\ refunded[s] = Nothing
               /\ Charge(s)' = Used(s)
               /\ refunded'[s] = Nothing => duration[s] <= run
    BY RefundOrNot
  <1>2. /\ refunded[s] = Nothing /\ w \in [Grants -> 0..MaxMinutes]
        /\ \A g \in Grants : w[g] <= reserved[s][g]
    BY <1>1 DEF Refunds
  <1>3. Creditable(w) = w
    BY <1>2, CreditFits
  <1>4. refunded'[s] = w /\ reserved'[s] = reserved[s]
    BY <1>1, <1>3 DEF Refunds, TypeOK, PerGrant
  <1>5. SumFunction(w) = Minus(duration[s], run)
    BY <1>1 DEF Walks
  <1>6. SumFunction(reserved[s]) = duration[s] /\ duration[s] \in Nat \ {0}
    BY <1>1, SomethingReserved DEF Refunds
  <1>7. run \in Nat \ {0}
    BY RunIsPositive
  <1>8. Charge(s)' = Minus(duration[s], Minus(duration[s], run))
    BY <1>4, <1>5, <1>6, Charged
  <1>9. Used(s) = IF run < duration[s] THEN run ELSE duration[s]
    BY DEF Used
  <1>10. w = Nothing => Minus(duration[s], run) = 0
    BY <1>5, NothingSums
  <1> HIDE DEF run
  <1>11. QED
    BY <1>2, <1>4, <1>6, <1>7, <1>8, <1>9, <1>10 DEF Minus

\* What it costs after SweepEmpty.
LEMMA SweepCosts ==
    ASSUME LedgerInv, TypeOK', NothingReturned, NothingReturned',
           NEW s \in Sessions, SweepEmpty(s)
    PROVE  refunded'[s] # Nothing /\ Charge(s)' = 0
  <1> USE DEF LedgerInv
  <1>1. Refunds(s, reserved[s])
    BY SweepRefunds
  <1>2. Creditable(reserved[s]) = reserved[s]
    BY <1>1, CreditFits DEF Refunds
  <1>3. refunded'[s] = reserved[s] /\ reserved'[s] = reserved[s]
    BY <1>1, <1>2 DEF Refunds, TypeOK, PerGrant
  <1>4. /\ SumFunction(reserved[s]) = duration[s] /\ duration[s] \in Nat \ {0}
        /\ reserved[s] # Nothing
    BY <1>1, SomethingReserved DEF Refunds
  <1>5. QED
    BY <1>3, <1>4, Charged

\* A step that keeps the entries keeps the price.
LEMMA Kept ==
    ASSUME LedgerInv, TypeOK', NothingReturned, NothingReturned', [Next]_vars, NEW s \in Sessions,
           status[s] \in Open \cup Over, SessionKeeps(s)
    PROVE  Charge(s)' = Charge(s)
  <1>1. reserved'[s] = reserved[s]
    BY TermsStay
  <1>2. QED
    BY <1>1 DEF Charge, SessionKeeps

\* The inductive invariant of settlement.
SettledInv == LedgerInv /\ NothingLeftToRefund

\* A step keeps it: what is over is ended again for nothing.
LEMMA SettledStepInv == SettledInv /\ [Next]_vars => SettledInv'
  <1> SUFFICES ASSUME SettledInv, [Next]_vars PROVE SettledInv'
    OBVIOUS
  <1>1. LedgerInv /\ LedgerInv' /\ TypeOK /\ TypeOK'
    BY LedgerStepInv DEF SettledInv, LedgerInv
  <1>2. ASSUME NothingReturned', NEW s \in Sessions, status'[s] \in Over, refunded'[s] = Nothing
        PROVE  duration'[s] <= AtLeast(1, Elapsed(s))'
    <2>1. NothingReturned /\ ~Returns(s)
      BY <1>1, <1>2, NothingReturnedBefore
    <2>2. status[s] \in Open \cup Over
      BY <1>1, <1>2, NotBegunNotOver
    <2>3. duration'[s] = duration[s] /\ AtLeast(1, Elapsed(s)) <= AtLeast(1, Elapsed(s))'
      BY <1>1, <2>2, TermsStay
    <2>4. duration[s] \in Int /\ AtLeast(1, Elapsed(s)) \in Int /\ AtLeast(1, Elapsed(s))' \in Int
      <3>1. /\ started[s] \in 0..Horizon /\ now \in 0..Horizon
            /\ started'[s] \in 0..Horizon /\ now' \in 0..Horizon
        BY <1>1 DEF TypeOK
      <3>2. Elapsed(s) = now - started[s] /\ Elapsed(s)' = now' - started'[s]
        BY DEF Elapsed
      <3>3. Elapsed(s) \in Int /\ Elapsed(s)' \in Int
        BY <3>1, <3>2
      <3>4. AtLeast(1, Elapsed(s)) \in Int /\ AtLeast(1, Elapsed(s))' \in Int
        BY <3>3 DEF AtLeast
      <3>5. duration[s] \in Int
        BY <1>1, <2>2, SomethingReserved
      <3>6. QED
        BY <3>4, <3>5
    <2>5. duration[s] <= AtLeast(1, Elapsed(s))
      <3>1. ASSUME NEW to \in Over, EndSession(s, to) PROVE duration[s] <= AtLeast(1, Elapsed(s))
        <4>1. UNCHANGED money => refunded'[s] = refunded[s]
          BY DEF money
        <4>2. QED
          BY <1>1, <1>2, <2>1, <3>1, <4>1, EndCosts
      <3>2. ~SweepEmpty(s)
        BY <1>1, <1>2, <2>1, SweepCosts
      <3>3. CASE SweepAnswered(s)
        <4>1. Elapsed(s) > duration[s] + Grace /\ Grace \in Nat /\ Elapsed(s) \in Int
          BY <1>1, <3>3, LimitsAssumption, RunIsPositive DEF SweepAnswered, Overdue
        <4>2. QED
          BY <2>4, <4>1 DEF AtLeast
      <3>4. ASSUME NEW f \in Failures, FailSession(f, s) PROVE FALSE
        <4>1. refunded[s] # Nothing /\ UNCHANGED money
          BY <1>1, <2>1, <3>4, FailReturns DEF LedgerInv
        <4>2. QED
          BY <1>2, <4>1 DEF money
      <3>5. CASE SessionKeeps(s) /\ (status[s] \in Open => status'[s] \in Open)
                                 /\ (status[s] \in Over => status'[s] = status[s])
        <4>1. status[s] \in Over /\ refunded[s] = Nothing
          BY <1>2, <2>2, <3>5 DEF SessionKeeps, Open, Over
        <4>2. QED
          BY <2>1, <4>1 DEF SettledInv, NothingLeftToRefund
      <3>6. QED
        BY <1>1, <2>2, <3>1, <3>2, <3>3, <3>4, <3>5, SessionStep
    <2>6. QED
      BY <2>3, <2>4, <2>5
  <1>3. QED
    BY <1>1, <1>2 DEF SettledInv, NothingLeftToRefund

\* Hence it always holds.
LEMMA SettledInvariant == Spec => []SettledInv
  <1>1. Init => SettledInv
    BY LedgerInitInv DEF Init, SettledInv, NothingLeftToRefund, Over
  <1>2. QED
    BY <1>1, SettledStepInv, PTL DEF Spec

\* Whatever step ends a session, it leaves a price that is due.
LEMMA SettlesFairly ==
    ASSUME LedgerInv, TypeOK', [Next]_vars, NothingReturned', NEW s \in Sessions,
           status[s] \in Open, status'[s] \in Over
    PROVE  Charge(s)' \in Dues(s)
  <1>1. NothingReturned /\ ~Returns(s) /\ TypeOK /\ refunded[s] = Nothing
    BY NothingReturnedBefore DEF LedgerInv, ReservedOnCreate, Open, Over
  <1>2. duration[s] \in Nat \ {0} /\ Elapsed(s) \in Int /\ Grace \in Nat
        /\ SumFunction(reserved[s]) = duration[s]
    BY <1>1, SomethingReserved, RunIsPositive, LimitsAssumption
  <1>3. Overdue(s) => Used(s) = duration[s]
    BY <1>2 DEF Overdue, Used, AtLeast
  <1>4. Dues(s) \in {{0, duration[s]}, {Used(s)}} /\ Used(s) \in Dues(s)
    BY <1>3 DEF Dues
  <1>5. ASSUME NEW to \in Over, EndSession(s, to) PROVE Charge(s)' = Used(s)
    BY <1>1, <1>5, EndCosts
  <1>6. CASE SweepEmpty(s)
    <2>1. Charge(s)' = 0
      BY <1>1, <1>6, SweepCosts
    <2>2. Dues(s) = {0, duration[s]}
      BY <1>1, <1>6 DEF SweepEmpty, Dues, TypeOK
    <2>3. QED
      BY <2>1, <2>2
  <1>7. CASE SweepAnswered(s)
    <2>1. refunded'[s] = Nothing /\ reserved'[s] = reserved[s]
      BY <1>1, <1>7 DEF SweepAnswered, money
    <2>2. Charge(s)' = duration[s]
      BY <1>2, <2>1, Charged
    <2>3. Overdue(s)
      BY <1>7 DEF SweepAnswered
    <2>4. QED
      BY <1>3, <1>4, <2>2, <2>3
  <1>8. ASSUME NEW f \in Failures PROVE ~FailSession(f, s)
    BY <1>1, FailReturns DEF LedgerInv
  <1>9. Open \cap Over = {}
    BY DEF Open, Over
  <1>10. QED
    BY <1>4, <1>5, <1>6, <1>7, <1>8, <1>9, SessionStep

(***************************************************************************)
(* While FailSession has returned nothing, whoever ends a session - the    *)
(* user, a turn, the sweeps, two of them at once - it costs the minutes    *)
(* that it ran, at least one and at most those reserved; nothing if it is  *)
(* swept without a word from the candidate.                                *)
(***************************************************************************)
THEOREM SettlementsAreFair == Spec => FairSettlement
  <1> DEFINE Fair == NothingReturned' =>
                \A s \in Sessions : status[s] \in Open /\ status'[s] \in Over => Charge(s)' \in Dues(s)
  <1>1. LedgerInv /\ LedgerInv' /\ [Next]_vars => [Fair]_vars
    BY SettlesFairly DEF LedgerInv
  <1>2. QED
    BY <1>1, LedgerInvariant, PTL DEF Spec, FairSettlement

(***************************************************************************)
(* While FailSession has returned nothing, the price of a session that is  *)
(* over does not change any more, however often it is ended, failed or     *)
(* swept again.                                                            *)
(***************************************************************************)
THEOREM SettlementsAreFinal == Spec => SettledOnce
  <1> DEFINE Once == NothingReturned' => \A s \in Sessions : status[s] \in Over => Charge(s)' = Charge(s)
  <1>1. SettledInv /\ SettledInv' /\ [Next]_vars => [Once]_vars
    <2> SUFFICES ASSUME SettledInv, SettledInv', [Next]_vars, NothingReturned',
                        NEW s \in Sessions, status[s] \in Over
                 PROVE  Charge(s)' = Charge(s)
      OBVIOUS
    <2>1. LedgerInv /\ TypeOK' /\ NothingReturned /\ ~Returns(s)
      BY NothingReturnedBefore DEF SettledInv, LedgerInv
    <2>2. CASE UNCHANGED money
      BY <2>2 DEF money, Charge
    <2>3. ASSUME NEW to \in Over, EndSession(s, to), refunded[s] = Nothing PROVE Charge(s)' = Charge(s)
      <3>1. Charge(s)' = Used(s)
        BY <2>1, <2>3, EndCosts
      <3>2. duration[s] <= AtLeast(1, Elapsed(s))
        BY <2>1, <2>3 DEF SettledInv, NothingLeftToRefund
      <3>3. SumFunction(reserved[s]) = duration[s] /\ duration[s] \in Nat
            /\ AtLeast(1, Elapsed(s)) \in Nat
        BY <2>1, SomethingReserved, RunIsPositive DEF LedgerInv
      <3>4. Charge(s) = duration[s]
        <4>1. SumFunction(refunded[s]) = 0 /\ SumFunction(returned[s]) = 0
          BY <2>1, <2>3, NothingSums DEF NothingReturned
        <4>2. Charge(s) = Minus(duration[s], 0 + 0)
          BY <3>3, <4>1 DEF Charge
        <4>3. QED
          BY <3>3, <4>2 DEF Minus
      <3>5. QED
        BY <3>1, <3>2, <3>3, <3>4 DEF Used
    <2>4. ~SweepEmpty(s) /\ ~SweepAnswered(s)
      BY DEF SweepEmpty, SweepAnswered, Over
    <2>5. ASSUME NEW f \in Failures, FailSession(f, s) PROVE UNCHANGED money
      BY <2>1, <2>5, FailReturns DEF LedgerInv
    <2>6. SessionKeeps(s) => Charge(s)' = Charge(s)
      BY <2>1, Kept
    <2>7. ASSUME NEW to \in Over, EndSession(s, to), refunded[s] # Nothing PROVE UNCHANGED money
      BY <2>1, <2>7, EndCosts
    <2>8. QED
      BY <2>1, <2>2, <2>3, <2>4, <2>5, <2>6, <2>7, SessionStep
  <1>2. QED
    BY <1>1, SettledInvariant, PTL DEF Spec, SettledOnce
=============================================================================
