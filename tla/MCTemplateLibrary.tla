-------------------------- MODULE MCTemplateLibrary --------------------------
(* Instances of TemplateLibrary for TLC: two tasks in a row and an approval  *)
(* that covers the first.                                                    *)
EXTENDS TemplateLibrary

CONSTANTS a, b, g

Row(n) == [seq |-> n, start |-> 1, end |-> 1, duration |-> 1]

TwoTasks ==
  [tasks |-> (a :> Row(1)) @@ (b :> Row(2)), deps |-> {<<a, b>>}, files |-> {a},
   gates |-> (g :> [party |-> TRUE, due |-> "before_linked_tasks", value |-> 0,
                   mapping |-> "exact", links |-> {a}])]

Interchangeable == Permutations(Admin) \cup Permutations(Version) \cup Permutations(Template)
=============================================================================
