---------------------------- MODULE MCWorkspace ----------------------------
(***************************************************************************)
(* Finite instance of Workspace.  The seats and the monthly requests of    *)
(* the plans are scaled down: a free workspace has one seat.               *)
(***************************************************************************)
EXTENDS Workspace, TLC

Seats == [p \in Plans |-> IF p = "free" THEN 1 ELSE 2]
MonthlyRequests == [p \in Plans |-> IF p = "free" THEN 1 ELSE 2]

Symmetric == Permutations(Users) \cup Permutations(Requests)
=============================================================================
