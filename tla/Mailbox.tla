------------------------------- MODULE Mailbox -------------------------------
(***************************************************************************)
(* What the outbox promises to the people an event concerns, whatever the  *)
(* number of dispatch loops, batches, retries and crashes behind it.  An   *)
(* event is announced only after it has happened and stays dispatched once *)
(* it is; a person gets it once, unless there is an excuse for telling     *)
(* that person again; the notes kept of it are true, are never taken back, *)
(* and cover everybody a dispatch went through who has no excuse.          *)
(***************************************************************************)
EXTENDS Naturals

CONSTANTS Events, Recipients

VARIABLES
  phase,     \* has the event happened, has it been dispatched?
  note,      \* what is on record about a recipient of an event
  copies,    \* how often a recipient got an event
  told,      \* the recipients a dispatch of an event went through
  excused    \* the recipients for whom an attempt, or the record of it, was lost

vars == <<phase, note, copies, told, excused>>

Note == {"none", "failed", "sent"}

Init ==
  /\ phase = [e \in Events |-> "unborn"]
  /\ note = [e \in Events |-> [r \in Recipients |-> "none"]]
  /\ copies = [e \in Events |-> [r \in Recipients |-> 0]]
  /\ told = [e \in Events |-> {}]
  /\ excused = [e \in Events |-> {}]

Happen(e) ==
  /\ phase[e] = "unborn"
  /\ phase' = [phase EXCEPT ![e] = "pending"]
  /\ UNCHANGED <<note, copies, told, excused>>

\* Attempts, or records of attempts, are lost.
Excuse(e, who) ==
  /\ phase[e] # "unborn"
  /\ excused' = [excused EXCEPT ![e] = @ \cup who]
  /\ UNCHANGED <<phase, note, copies, told>>

\* A message arrives: the first one, or one that there is an excuse for.
Arrive(e, r, losing) ==
  /\ phase[e] # "unborn"
  /\ copies[e][r] = 0 \/ r \in excused[e] \cup losing
  /\ copies' = [copies EXCEPT ![e][r] = @ + 1]
  /\ excused' = [excused EXCEPT ![e] = @ \cup losing]
  /\ UNCHANGED <<phase, note, told>>

\* The outcome of a dispatch goes on record.
Settle(e, through, row) ==
  /\ phase[e] # "unborn"
  /\ \A r \in Recipients :
       /\ row[r] = "sent" => copies[e][r] > 0
       /\ note[e][r] = "sent" => row[r] = "sent"
       /\ row[r] = "none" => note[e][r] = "none" /\ (r \in told[e] \cup through => r \in excused[e])
  /\ phase' = [phase EXCEPT ![e] = "dispatched"]
  /\ note' = [note EXCEPT ![e] = row]
  /\ told' = [told EXCEPT ![e] = @ \cup through]
  /\ UNCHANGED <<copies, excused>>

Next ==
  \E e \in Events :
    \/ Happen(e)
    \/ \E who \in SUBSET Recipients : Excuse(e, who)
    \/ \E r \in Recipients : \E losing \in SUBSET {r} : Arrive(e, r, losing)
    \/ \E through \in SUBSET Recipients, row \in [Recipients -> Note] : Settle(e, through, row)

Spec == Init /\ [][Next]_vars
=============================================================================
