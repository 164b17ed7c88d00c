--------------------------- MODULE MCTaskLifecycle ---------------------------
(* Instances of TaskLifecycle for TLC: small projects, each with the kinds of *)
(* tasks and the dependencies that one question needs.                        *)
EXTENDS TaskLifecycle, TLC

CONSTANTS t1, t2, m1, m2, g1, adm, pm, sup, emp, s1, s2

FS(a, b) == [pred |-> a, succ |-> b, type |-> "finish_to_start"]
SS(a, b) == [pred |-> a, succ |-> b, type |-> "start_to_start"]

\* Attributes that the tasks of an instance share.
AllWork == [t \in Task |-> "work"]
AllStandard == [t \in Task |-> "standard"]
AllClassA == [t \in Task |-> "class_a"]
NoEvidence == [t \in Task |-> FALSE]
NoDeps == {}

\* A milestone with nothing before it, and one behind work and that milestone.
WorkBoardKind == (t1 :> "work") @@ (m1 :> "milestone") @@ (m2 :> "milestone")
ForkDeps == {FS(t1, m2), FS(m1, m2)}

\* Two pieces of work in a row, the first standard and the second not
\* classified; a milestone tied to the second, and one behind the first and that
\* milestone: the end of the second completes both. A gate behind them.
Plan == (t1 :> "work") @@ (t2 :> "work") @@ (m1 :> "milestone") @@ (m2 :> "milestone")
        @@ (g1 :> "approval_gate")
PlanClass == (t1 :> "standard") @@ [t \in Task \ {t1} |-> "none"]
PlanDeps == {FS(t1, t2), SS(t2, m1), FS(m1, m2), FS(t1, m2), FS(m2, g1)}

Threads == Permutations(Session)
=============================================================================
