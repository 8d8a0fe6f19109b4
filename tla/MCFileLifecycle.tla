-------------------------- MODULE MCFileLifecycle --------------------------
EXTENDS FileLifecycle, TLC

CONSTANTS f1, f2, f3, c1, c2, c3, w1, w2, j1, j2, j3

MCFileLimit == [p \in Plans |-> IF p = "free" THEN 1 ELSE 2]
MCByteLimit == [p \in Plans |-> IF p = "free" THEN 2 ELSE 3]

Symmetric == Permutations(Files) \cup Permutations(Calls)
               \cup Permutations(Workers) \cup Permutations(Jobs)
============================================================================
