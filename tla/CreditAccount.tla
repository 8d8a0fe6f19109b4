---------------------------- MODULE CreditAccount ---------------------------
(***************************************************************************)
(* What the usage-credit ledger promises, without locks, handlers or plan  *)
(* changes: an account from which each request takes at most one hold and  *)
(* closes it at most once.  Taking a hold is one step that checks and      *)
(* debits together, the way packages/db/src/credits.ts reads under its     *)
(* advisory lock.  CreditLedger implements this specification.             *)
(***************************************************************************)
EXTENDS Integers

CONSTANTS Requests, Months, Allowances, Reservation, Costs

None == -1

VARIABLES
  granted,    \* per month: the allowance the month was topped up to
  reserved,   \* per month: what holds took
  returned,   \* per month: what closing gave back
  overdrawn,  \* per month: what closing took in addition
  hold,       \* per request: the month of its hold
  outcome,    \* per request: the cost it was closed at
  onOverage   \* the requests allowed to go below zero

vars == << granted, reserved, returned, overdrawn, hold, outcome, onOverage >>

Init ==
  /\ granted = [m \in Months |-> 0]
  /\ reserved = [m \in Months |-> 0]
  /\ returned = [m \in Months |-> 0]
  /\ overdrawn = [m \in Months |-> 0]
  /\ hold = [r \in Requests |-> None]
  /\ outcome = [r \in Requests |-> None]
  /\ onOverage = {}

\* A month is raised to a higher allowance, never lowered and never stacked.
Grant(m, allowance) ==
  /\ granted[m] < allowance
  /\ granted' = [granted EXCEPT ![m] = allowance]
  /\ UNCHANGED << reserved, returned, overdrawn, hold, outcome, onOverage >>

\* A hold without overage is covered by what the month was granted and given
\* back at the moment it is taken.
Hold(r, m) ==
  /\ hold[r] = None
  /\ hold' = [hold EXCEPT ![r] = m]
  /\ reserved' = [reserved EXCEPT ![m] = @ + Reservation]
  /\ \/ /\ reserved[m] + Reservation <= granted[m] + returned[m]
        /\ UNCHANGED onOverage
     \/ onOverage' = onOverage \cup {r}
  /\ UNCHANGED << granted, returned, overdrawn, outcome >>

\* A hold is closed once, at its cost or at zero, in its own month or later.
Close(r, m, cost) ==
  /\ hold[r] # None /\ hold[r] <= m
  /\ outcome[r] = None
  /\ outcome' = [outcome EXCEPT ![r] = cost]
  /\ \/ /\ cost <= Reservation
        /\ returned' = [returned EXCEPT ![m] = @ + (Reservation - cost)]
        /\ UNCHANGED overdrawn
     \/ /\ cost > Reservation
        /\ overdrawn' = [overdrawn EXCEPT ![m] = @ + (cost - Reservation)]
        /\ UNCHANGED returned
  /\ UNCHANGED << granted, reserved, hold, onOverage >>

Next ==
  \E m \in Months :
    \/ \E a \in Allowances : Grant(m, a)
    \/ \E r \in Requests :
         \/ Hold(r, m)
         \/ \E c \in Costs \cup {0} : Close(r, m, c)

Spec == Init /\ [][Next]_vars
=============================================================================
