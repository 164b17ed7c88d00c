---------------------------- MODULE MCTelegramChat ----------------------------
EXTENDS TelegramChat

CONSTANTS s1, m1, e1, a1, c1

MCSupervisors == {s1}
MCManagers == {m1}
MCEmployees == {e1}
MCAdmins == {a1}
MCChat == {c1}
MCProjects ==
  {[kind |-> k, seat |-> [supervisor |-> s, manager |-> m], assignees |-> e] :
     <<k, s, m, e>> \in {<<"class_a", s1, m1, {}>>, <<"class_a", s1, None, {}>>,
                        <<"class_a", None, m1, {}>>, <<"standard", s1, m1, {e1}>>,
                        <<"approval_gate", s1, m1, {e1}>>}}
=============================================================================
