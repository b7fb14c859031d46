-------------------------- MODULE MCSerdeWrapper --------------------------
(* A store of one chunk and a load of two that compete for L1's buffers,   *)
(* or two stores whose completions share an event.                         *)
EXTENDS SerdeWrapper, TLC

CONSTANTS s1, s2, l1

Sizing == [t \in Tasks |-> IF t \in StoreTasks THEN {0} ELSE {0, 1}]
TempKeys == UNION {Temps(t) : t \in Tasks}
Pairs == {{s1, l1}, {s1, s2}}
Symmetric == Permutations(Bufs)
=============================================================================
