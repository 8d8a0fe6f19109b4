--------------------------- MODULE MCCreditLedger ---------------------------
(***************************************************************************)
(* CreditLedger on small instances.  One micro stands for half a           *)
(* reservation: free covers exactly one reservation, starter one and a     *)
(* half, and pro may overdraw.  A generation costs less than, or more than *)
(* its reservation, or nothing.                                            *)
(***************************************************************************)
EXTENDS CreditLedger

CONSTANTS r1, r2

MCIncluded == [p \in Plans |->
                 CASE p = "free" -> 2 [] p = "starter" -> 3 [] p = "pro" -> 4]
MCOverage == {"pro"}
=============================================================================
