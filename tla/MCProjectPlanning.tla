-------------------------- MODULE MCProjectPlanning --------------------------
(* Instances of ProjectPlanning for TLC: two template tasks in a row, one of *)
(* them conditional, a manual task, a gate with an exact link, one without   *)
(* and a manual one.                                                         *)
EXTENDS ProjectPlanning, TLC

CONSTANTS t1, t2, m1, g1, g2, g3

InARow == {<<t1, t2>>}
Exact == [x \in {g1, g2, g3} |-> IF x = g1 THEN {t2} ELSE {}]
Rule == [x \in {g1, g2, g3} |-> IF x = g1 THEN "before_linked_tasks" ELSE "date"]
Interchangeable == Permutations(Thread)
=============================================================================
