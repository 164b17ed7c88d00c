---------------------------- MODULE ApprovalDesk ----------------------------
(***************************************************************************)
(* What the gates promise to the people of a project: a gate has an        *)
(* assignee or waits for one, its assignee hands evidence in, and every    *)
(* piece of evidence is ruled on at most once, for good or to be collected *)
(* anew.  An employee collects in one session at a time, and a session     *)
(* that was left is never taken up again.  Requests that overtook each     *)
(* other (disturbed) may leave a gate with another assignee, other         *)
(* evidence or another ruling than the people saw, but an approval is      *)
(* given and lost by a ruling only, and only held gates get one.           *)
(***************************************************************************)
EXTENDS Naturals

CONSTANTS Gate, Employee, Nobody

VARIABLES
  approval,    \* of each gate: its stage and holder, its evidence and rulings
  collecting,  \* the evidence sessions an employee is collecting in
  opened       \* evidence sessions opened so far

vars == <<approval, collecting, opened>>

Waiting == [stage |-> "unassigned", holder |-> Nobody, evidence |-> 0, author |-> Nobody,
            rulings |-> 0, disturbed |-> FALSE]

Init ==
  /\ approval = [g \in Gate |-> Waiting]
  /\ collecting = [e \in Employee |-> {}] /\ opened = 0

Becomes(g, new) ==
  approval' = [approval EXCEPT ![g] = new] /\ UNCHANGED <<collecting, opened>>

-----------------------------------------------------------------------------
(* The life of a gate.                                                     *)

Assign(g, e) ==
  /\ approval[g].stage \in {"unassigned", "assigned", "submitted"}
  /\ Becomes(g, [approval[g] EXCEPT !.stage = "assigned", !.holder = e])

Release(g) ==
  /\ approval[g].stage \in {"assigned", "submitted"}
  /\ Becomes(g, [approval[g] EXCEPT !.stage = "unassigned", !.holder = Nobody])

HandIn(g) ==
  /\ approval[g].stage = "assigned"
  /\ Becomes(g, [approval[g] EXCEPT !.stage = "submitted", !.evidence = @ + 1,
                                    !.author = approval[g].holder])

\* Approved, or sent back to its holder.
Rule(g, stage) ==
  /\ approval[g].stage = "submitted" /\ stage \in {"approved", "assigned"}
  /\ Becomes(g, [approval[g] EXCEPT !.stage = stage, !.rulings = @ + 1])

-----------------------------------------------------------------------------
(* The same by a request that saw the gate as it no longer is.             *)

LateStaffing(g, stage, holder) ==
  /\ stage \in {approval[g].stage, "assigned", "unassigned"}
  /\ approval[g].stage = "approved" => stage = "approved"
  /\ holder = Nobody <=> stage = "unassigned"
  /\ Becomes(g, [approval[g] EXCEPT !.stage = stage, !.holder = holder, !.disturbed = TRUE])

LateHandIn(g, e) ==
  /\ approval[g].stage \in {"assigned", "submitted"}
  /\ Becomes(g, [approval[g] EXCEPT !.stage = "submitted", !.evidence = @ + 1, !.author = e,
                                    !.disturbed = TRUE])

LateRuling(g, stage) ==
  /\ approval[g].stage # "unassigned" /\ stage \in {"approved", "assigned"}
  /\ Becomes(g, [approval[g] EXCEPT !.stage = stage, !.rulings = @ + 1, !.disturbed = TRUE])

-----------------------------------------------------------------------------
(* Collecting evidence.                                                    *)

Collect(e) ==
  /\ collecting[e] = {}
  /\ opened' = opened + 1
  /\ collecting' = [collecting EXCEPT ![e] = {opened + 1}]
  /\ UNCHANGED approval

\* Handed in, given up, or silent for too long.
Leave(e) ==
  /\ collecting[e] # {}
  /\ collecting' = [collecting EXCEPT ![e] = {}]
  /\ UNCHANGED <<approval, opened>>

Next ==
  \/ \E g \in Gate :
       \/ Release(g) \/ HandIn(g)
       \/ \E e \in Employee : Assign(g, e) \/ LateHandIn(g, e)
       \/ \E stage \in {"unassigned", "assigned", "submitted", "approved"} :
            \/ Rule(g, stage) \/ LateRuling(g, stage)
            \/ \E holder \in Employee \cup {Nobody} : LateStaffing(g, stage, holder)
  \/ \E e \in Employee : Collect(e) \/ Leave(e)

Spec == Init /\ [][Next]_vars
=============================================================================
