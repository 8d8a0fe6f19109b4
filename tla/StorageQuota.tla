---------------------------- MODULE StorageQuota ----------------------------
(***************************************************************************)
(* What the storage quota promises, without locks, handlers, workers or    *)
(* the object store: the files of an organization are admitted one by one, *)
(* each against the count and the bytes of all files stored at that        *)
(* moment, under the plan it is admitted with.  A file keeps its size      *)
(* until it is removed, and never comes back.  FileLifecycle implements    *)
(* this specification.                                                     *)
(***************************************************************************)
EXTENDS Integers, FiniteSets, FiniteSetsExt

CONSTANTS Files, Sizes, Plans, FileLimit, ByteLimit

VARIABLES
  stored,    \* the files that count
  size,      \* per stored file: its bytes; 0 for the others
  removed    \* the files that were stored once

vars == << stored, size, removed >>

Init ==
  /\ stored = {}
  /\ size = [f \in Files |-> 0]
  /\ removed = {}

Fits(s, x) ==
  /\ Cardinality(stored) + 1 <= FileLimit[x]
  /\ MapThenSumSet(LAMBDA f : size[f], stored) + s <= ByteLimit[x]

\* The check and the insertion are one step.
Admit(f, s, x) ==
  /\ f \notin stored \cup removed
  /\ Fits(s, x)
  /\ stored' = stored \cup {f}
  /\ size' = [size EXCEPT ![f] = s]
  /\ UNCHANGED removed

Remove(f) ==
  /\ f \in stored
  /\ stored' = stored \ {f}
  /\ size' = [size EXCEPT ![f] = 0]
  /\ removed' = removed \cup {f}

Next ==
  \E f \in Files :
    \/ \E s \in Sizes, x \in Plans : Admit(f, s, x)
    \/ Remove(f)

Spec == Init /\ [][Next]_vars
=============================================================================
