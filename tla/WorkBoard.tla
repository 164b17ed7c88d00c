------------------------------ MODULE WorkBoard ------------------------------
(***************************************************************************)
(* What the task machinery promises to the people of a project, whatever   *)
(* the number of transactions, reviewers and retries behind it: work waits,*)
(* is done, is reviewed, goes back to work or is finished; it begins only  *)
(* once what it depends on has got far enough; finished and dropped work   *)
(* stays so; and milestones finish in the same instant as the last piece   *)
(* of work they stand for, never before.                                   *)
(***************************************************************************)
CONSTANTS Task, Milestones, Deps

VARIABLE phase

Phase == {"waiting", "working", "review", "done", "dropped"}

TypeOK == phase \in [Task -> Phase]

Init == phase = [t \in Task |-> "waiting"]

Released(t) ==
  \A d \in Deps : d.succ = t =>
    phase[d.pred] \in {"review", "done", "dropped"}
      \cup (IF d.type = "start_to_start" THEN {"working"} ELSE {})

Move(t, from, to) == phase[t] \in from /\ phase' = [phase EXCEPT ![t] = to]

Begin(t)  == Released(t) /\ Move(t, {"waiting"}, "working")
Submit(t) == Move(t, {"working"}, "review")
Return(t) == Move(t, {"review"}, "working")
Drop(t)   == Move(t, {"waiting", "working", "review"}, "dropped")

\* One piece of reviewed work, or none, and the milestones it completes.
Finish(finished) ==
  /\ finished # {}
  /\ \A t, u \in finished \ Milestones : t = u
  /\ \A t \in finished \ Milestones : phase[t] = "review"
  /\ \A m \in finished \cap Milestones :
       /\ phase[m] = "waiting"
       /\ \A d \in Deps : d.succ = m => d.pred \in finished \/ phase[d.pred] = "done"
  /\ phase' = [t \in Task |-> IF t \in finished THEN "done" ELSE phase[t]]

Next ==
  \/ \E t \in Task : Begin(t) \/ Submit(t) \/ Return(t) \/ Drop(t)
  \/ \E finished \in SUBSET Task : Finish(finished)

Spec == Init /\ [][Next]_phase
=============================================================================
