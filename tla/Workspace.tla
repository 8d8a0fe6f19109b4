----------------------------- MODULE Workspace -----------------------------
(***************************************************************************)
(* One workspace: its team, its API keys and its AI requests.  They share  *)
(* the subscription row, which decides the seats and the monthly requests, *)
(* and the member rows, which decide who manages the keys.                 *)
(***************************************************************************)
EXTENDS ApiKeys, AiRequests

CONSTANTS
  MaxWork, \* bound on calls, requests, edits, ticks and plans together
  MaxBusy  \* bound on the parts with calls in flight at the same time

ASSUME WorkAssumption == {MaxWork, MaxBusy} \subseteq Nat

vars == << teamVars, keyVars, aiVars >>

Work == teamStarted + keyStarted + edits + clock + Cardinality(plansHeld)
          + Cardinality({q \in Requests : request[q].step # "new"})

BusyParts ==
  {part \in {"team", "keys", "chat"} :
     CASE part = "team" -> \E c \in TeamCalls : team[c].op # "idle"
       [] part = "keys" -> \E r \in KeyCalls : keyCall[r].op # "idle"
       [] OTHER -> \E q \in Requests : request[q].step \in UnderWay}

Init == TeamInit /\ KeyInit /\ AiInit

Next ==
  /\ \/ TeamNext /\ UNCHANGED << keyVars, aiVars >>
     \/ KeyNext /\ UNCHANGED << teamVars, aiVars >>
     \/ AiNext /\ UNCHANGED << teamVars, keyVars >>
  /\ Work' <= MaxWork
  /\ Cardinality(BusyParts') <= MaxBusy

Spec == Init /\ [][Next]_vars

TypeOK == TeamTypeOK /\ KeyTypeOK /\ AiTypeOK
=============================================================================
