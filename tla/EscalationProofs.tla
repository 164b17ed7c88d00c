--------------------------- MODULE EscalationProofs ---------------------------
(***************************************************************************)
(* What holds of the escalation sweeps for any number of tasks, gates and  *)
(* scheduler loops: tracking rows stay in their types, one row at most is  *)
(* open per piece of work and stage, no escalation comes before its        *)
(* follow-up; work that recovered is not escalated, and a stall is         *)
(* followed up once.                                                       *)
(***************************************************************************)
EXTENDS Escalation, TLAPS

AgedFollowUps ==
  {i \in DOMAIN tracking : tracking[i].stage = "followup" /\ tracking[i].aged}

Steps == {"idle", "followups", "track", "list", "escalations", "resolve", "escalate"}

LoopState ==
  [step : Steps, todo : SUBSET (Work \cup DOMAIN tracking),
   visiting : SUBSET (Work \cup DOMAIN tracking), since : 0..Len(tracking)]

\* A loop that fits the table: it holds work while it follows up, rows it listed
\* while it escalates, and a listed row stays an aged follow-up whatever others do.
Fits(loop) ==
  /\ loop \in LoopState
  /\ loop.step \in {"idle", "list"} => loop.todo = {} /\ loop.visiting = {}
  /\ loop.step \in {"followups", "track"} =>
       loop.todo \subseteq Work /\ loop.visiting \subseteq Work
  /\ loop.step \in {"escalations", "resolve", "escalate"} =>
       loop.todo \subseteq AgedFollowUps /\ loop.visiting \subseteq AgedFollowUps

RestIsTyped ==
  /\ kind \in [Work \cup Sweeper -> Kind]
  /\ work \in [Work -> [open : BOOLEAN, late : BOOLEAN]]
  /\ outbox \in Seq([entity : Work, stage : Stage])
  /\ changes \in 0..MaxChanges /\ failures \in 0..MaxFailures
  /\ told \subseteq Work
  /\ recovered \in [Sweeper -> SUBSET Work]

TableIsSound == tracking \in Seq(TrackingRow) /\ OneOpenRow /\ EscalationFollowsFollowUp

Inv ==
  /\ RestIsTyped
  /\ TableIsSound
  /\ sweep \in [Sweeper -> LoopState]
  /\ \A w \in Sweeper : Fits(sweep[w])

-----------------------------------------------------------------------------
\* The invariant has the types in it.
LEMMA InvIsTyped == Inv => TypeOK
  BY DEF Inv, TypeOK, RestIsTyped, TableIsSound, LoopState, Steps

\* No row is open in the empty table, no loop holds anything.
LEMMA InitInv == Init => Inv
  <1> SUFFICES ASSUME Init PROVE Inv
    OBVIOUS
  <1>1. RestIsTyped
    BY ConstantsAssumption DEF Init, RestIsTyped, Kind
  <1>2. TableIsSound
    BY DEF Init, TableIsSound, OneOpenRow, EscalationFollowsFollowUp
  <1>3. sweep \in [Sweeper -> LoopState] /\ \A w \in Sweeper : Fits(sweep[w])
    BY DEF Init, Fits, Idle, LoopState, Steps
  <1> QED
    BY <1>1, <1>2, <1>3 DEF Inv

-----------------------------------------------------------------------------
(* The table: rows are added at its end or marked, never taken back.       *)

RowsKept ==
  /\ tracking' \in Seq(TrackingRow)
  /\ DOMAIN tracking \subseteq DOMAIN tracking'
  /\ \A i \in DOMAIN tracking :
       /\ tracking'[i].entity = tracking[i].entity
       /\ tracking'[i].stage = tracking[i].stage
       /\ tracking[i].aged => tracking'[i].aged
       /\ tracking[i].resolved => tracking'[i].resolved

\* What an insertion that the index lets through does to the table.
LEMMA InsertKeepsTable ==
  ASSUME Inv, NEW e \in Work, NEW stage \in Stage,
         Insert(e, stage), ~IndexRefuses(e, stage),
         stage = "admin_escalation" => \E i \in AgedFollowUps : tracking[i].entity = e
  PROVE  /\ RowsKept
         /\ Len(tracking') = Len(tracking) + 1
         /\ outbox' \in Seq([entity : Work, stage : Stage])
         /\ OneOpenRow'
         /\ EscalationFollowsFollowUp'
  <1> DEFINE n == Len(tracking) + 1
  <1>1. /\ tracking \in Seq(TrackingRow) /\ outbox \in Seq([entity : Work, stage : Stage])
        /\ NewTracking(e, stage) \in TrackingRow
    BY DEF Inv, RestIsTyped, TableIsSound, NewTracking, TrackingRow
  <1>2. /\ tracking' = Append(tracking, NewTracking(e, stage))
        /\ outbox' = Append(outbox, [entity |-> e, stage |-> stage])
    BY DEF Insert
  <1>3. /\ tracking' \in Seq(TrackingRow)
        /\ outbox' \in Seq([entity : Work, stage : Stage])
        /\ Len(tracking') = n /\ n \in Nat
        /\ DOMAIN tracking = 1..Len(tracking) /\ DOMAIN tracking' = 1..n
        /\ \A i \in DOMAIN tracking : tracking'[i] = tracking[i]
        /\ tracking'[n] = NewTracking(e, stage)
    BY <1>1, <1>2
  <1>4. RowsKept
    BY <1>3 DEF RowsKept
  <1>5. \A i \in DOMAIN tracking : ~IsOpenRow(tracking[i], e, stage)
    BY DEF IndexRefuses, HasOpenTracking
  <1>6. OneOpenRow'
    <2> SUFFICES ASSUME NEW i \in 1..n, NEW j \in 1..n,
                        tracking'[i].entity = tracking'[j].entity,
                        tracking'[i].stage = tracking'[j].stage,
                        ~tracking'[i].resolved, ~tracking'[j].resolved
                 PROVE  i = j
      BY <1>3 DEF OneOpenRow
    <2>1. CASE i \in DOMAIN tracking /\ j \in DOMAIN tracking
      BY <2>1, <1>3 DEF Inv, TableIsSound, OneOpenRow
    <2>2. CASE i = n /\ j \in DOMAIN tracking
      BY <2>2, <1>3, <1>5 DEF NewTracking, IsOpenRow
    <2>3. CASE i \in DOMAIN tracking /\ j = n
      BY <2>3, <1>3, <1>5 DEF NewTracking, IsOpenRow
    <2> QED
      BY <1>3, <2>1, <2>2, <2>3
  <1>7. EscalationFollowsFollowUp'
    <2> SUFFICES ASSUME NEW i \in 1..n, tracking'[i].stage = "admin_escalation"
                 PROVE  \E j \in 1..(i - 1) : /\ tracking'[j].entity = tracking'[i].entity
                                              /\ tracking'[j].stage = "followup"
                                              /\ tracking'[j].aged
      BY <1>3 DEF EscalationFollowsFollowUp
    <2>1. CASE i \in DOMAIN tracking
      <3>1. PICK j \in 1..(i - 1) : /\ tracking[j].entity = tracking[i].entity
                                    /\ tracking[j].stage = "followup"
                                    /\ tracking[j].aged
        BY <2>1, <1>3 DEF Inv, TableIsSound, EscalationFollowsFollowUp
      <3>2. j \in DOMAIN tracking
        BY <2>1, <1>3
      <3> QED
        BY <2>1, <3>1, <3>2, <1>3
    <2>2. CASE i = n
      <3>1. PICK j \in AgedFollowUps : tracking[j].entity = e
        BY <2>2, <1>3 DEF NewTracking
      <3>2. j \in 1..(n - 1) /\ tracking'[j] = tracking[j] /\ tracking'[n].entity = e
        BY <3>1, <1>3 DEF AgedFollowUps, NewTracking
      <3> QED
        BY <2>2, <3>1, <3>2 DEF AgedFollowUps
    <2> QED
      BY <1>3, <2>1, <2>2
  <1> QED
    BY <1>3, <1>4, <1>6, <1>7

\* Resolving a row and growing old change nothing else.
LEMMA MarkKeepsTable ==
  ASSUME Inv, NEW i \in DOMAIN tracking,
         \/ tracking' = [tracking EXCEPT ![i].resolved = TRUE]
         \/ tracking' = [tracking EXCEPT ![i].aged = TRUE]
  PROVE  RowsKept /\ Len(tracking') = Len(tracking) /\ OneOpenRow' /\ EscalationFollowsFollowUp'
  <1>1. tracking \in Seq(TrackingRow)
    BY DEF Inv, TableIsSound
  <1>a. /\ Len(tracking) \in Nat /\ DOMAIN tracking = 1..Len(tracking)
        /\ tracking \in [1..Len(tracking) -> TrackingRow]
    BY <1>1
  <1>b. PICK row \in TrackingRow :
          /\ tracking' = [tracking EXCEPT ![i] = row]
          /\ row.entity = tracking[i].entity
          /\ row.stage = tracking[i].stage
          /\ tracking[i].aged => row.aged
          /\ tracking[i].resolved => row.resolved
    <2>1. tracking[i] \in TrackingRow
      BY <1>a
    <2>2. CASE tracking' = [tracking EXCEPT ![i].resolved = TRUE]
      <3> DEFINE row == [tracking[i] EXCEPT !.resolved = TRUE]
      <3>1. row \in TrackingRow /\ tracking' = [tracking EXCEPT ![i] = row]
        BY <2>1, <2>2 DEF TrackingRow
      <3> QED
        BY <2>1, <3>1 DEF TrackingRow
    <2>3. CASE tracking' = [tracking EXCEPT ![i].aged = TRUE]
      <3> DEFINE row == [tracking[i] EXCEPT !.aged = TRUE]
      <3>1. row \in TrackingRow /\ tracking' = [tracking EXCEPT ![i] = row]
        BY <2>1, <2>3 DEF TrackingRow
      <3> QED
        BY <2>1, <3>1 DEF TrackingRow
    <2> QED
      BY <2>2, <2>3
  <1>2. /\ tracking' \in Seq(TrackingRow)
        /\ Len(tracking') = Len(tracking)
        /\ DOMAIN tracking = 1..Len(tracking) /\ DOMAIN tracking' = DOMAIN tracking
    BY <1>1, <1>a, <1>b
  <1>3. \A j \in DOMAIN tracking : /\ tracking'[j].entity = tracking[j].entity
                                   /\ tracking'[j].stage = tracking[j].stage
                                   /\ tracking[j].aged => tracking'[j].aged
                                   /\ tracking[j].resolved => tracking'[j].resolved
    BY <1>a, <1>b
  <1>4. OneOpenRow'
    BY <1>2, <1>3 DEF Inv, TableIsSound, OneOpenRow
  <1>5. EscalationFollowsFollowUp'
    <2> SUFFICES ASSUME NEW k \in DOMAIN tracking, tracking'[k].stage = "admin_escalation"
                 PROVE  \E j \in 1..(k - 1) : /\ tracking'[j].entity = tracking'[k].entity
                                              /\ tracking'[j].stage = "followup"
                                              /\ tracking'[j].aged
      BY <1>2 DEF EscalationFollowsFollowUp
    <2>1. PICK j \in 1..(k - 1) : /\ tracking[j].entity = tracking[k].entity
                                  /\ tracking[j].stage = "followup"
                                  /\ tracking[j].aged
      BY <1>3 DEF Inv, TableIsSound, EscalationFollowsFollowUp
    <2>2. j \in DOMAIN tracking
      BY <1>1, <1>2
    <2> QED
      BY <2>1, <2>2, <1>3
  <1> QED
    BY <1>2, <1>3, <1>4, <1>5 DEF RowsKept

-----------------------------------------------------------------------------
(* A loop: its own state is replaced, the rest of the state stays typed.   *)

\* A table that only grows suits every loop it suited.
LEMMA FitsStill ==
  ASSUME TableIsSound, TableIsSound', RowsKept, NEW loop, Fits(loop)
  PROVE  Fits(loop)'
  <1>1. AgedFollowUps \subseteq AgedFollowUps' /\ DOMAIN tracking \subseteq DOMAIN tracking'
    BY DEF AgedFollowUps, RowsKept
  <1>2. 0..Len(tracking) \subseteq 0..Len(tracking')
    BY <1>1 DEF TableIsSound
  <1>3. loop \in LoopState => (loop \in LoopState)'
    BY <1>1, <1>2 DEF LoopState
  <1> QED
    BY <1>1, <1>3 DEF Fits

\* A step in which loop w moves to `new` keeps the invariant.
LEMMA LoopKeepsInv ==
  ASSUME Inv, NEW w \in Sweeper, NEW new, Fits(new)',
         sweep' = [sweep EXCEPT ![w] = new],
         RestIsTyped', TableIsSound', RowsKept
  PROVE  Inv'
  <1>1. /\ TableIsSound /\ sweep \in [Sweeper -> LoopState]
        /\ \A v \in Sweeper : Fits(sweep[v])
    BY DEF Inv
  <1>2. ASSUME NEW v \in Sweeper PROVE Fits(sweep[v])'
    <2>1. CASE v = w
      BY <2>1, <1>1
    <2>2. CASE v # w
      <3>1. Fits(sweep[v])
        BY <1>1
      <3>2. sweep'[v] = sweep[v]
        BY <2>2, <1>1
      <3>3. \A loop : Fits(loop) => Fits(loop)'
        BY <1>1, FitsStill
      <3> QED
        BY <3>1, <3>2, <3>3
    <2> QED
      BY <2>1, <2>2
  <1>3. sweep' \in [Sweeper -> LoopState']
    BY <1>1, <1>2 DEF Fits
  <1> QED
    BY <1>1, <1>2, <1>3 DEF Inv

\* The table is as it was.
LEMMA SameTable ==
  ASSUME Inv, UNCHANGED tracking
  PROVE  RowsKept /\ TableIsSound'
  BY DEF Inv, RowsKept, TableIsSound, OneOpenRow, EscalationFollowsFollowUp

\* A loop that only reads keeps the invariant.
LEMMA ReaderKeepsInv ==
  ASSUME Inv, NEW w \in Sweeper, NEW new, Fits(new),
         sweep' = [sweep EXCEPT ![w] = new],
         UNCHANGED tracking, RestIsTyped'
  PROVE  Inv'
  <1>1. RowsKept /\ TableIsSound' /\ TableIsSound
    BY SameTable DEF Inv
  <1>2. Fits(new)'
    BY <1>1, FitsStill
  <1> QED
    BY <1>1, <1>2, LoopKeepsInv

Moved(w, step, todo, visiting) ==
  [step |-> step, todo |-> todo, visiting |-> visiting, since |-> sweep[w].since]

\* Go replaces a loop by the same loop further on in its pass.
LEMMA GoMoves ==
  ASSUME Inv, NEW w \in Sweeper, NEW step, NEW todo, NEW visiting, Go(w, step, todo, visiting)
  PROVE  sweep' = [sweep EXCEPT ![w] = Moved(w, step, todo, visiting)]
  BY DEF Go, Moved

\* A loop may always stop, and go on to its next call.
LEMMA AbandonKeepsInv ==
  ASSUME Inv, NEW w \in Sweeper, Abandon(w) \/ Stop(w), UNCHANGED tracking, RestIsTyped'
  PROVE  Inv'
  <1>1. sweep[w] \in LoopState /\ Fits(Idle) /\ Fits(Moved(w, "list", {}, {}))
    BY DEF Inv, Fits, Idle, Moved, LoopState, Steps, TableIsSound
  <1>2. \/ sweep' = [sweep EXCEPT ![w] = Moved(w, "list", {}, {})]
        \/ sweep' = [sweep EXCEPT ![w] = Idle]
    BY GoMoves DEF Abandon, Stop
  <1> QED
    BY <1>1, <1>2, ReaderKeepsInv

-----------------------------------------------------------------------------
(* The steps of a loop.                                                    *)

LEMMA FollowUpsKeepInv ==
  ASSUME Inv, NEW w \in Sweeper, FollowUps(w)
  PROVE  Inv'
  <1>1. sweep[w] \in LoopState /\ Fits(sweep[w]) /\ RestIsTyped /\ TableIsSound
    BY DEF Inv
  <1>2. CASE ListLate(w)
    <2> DEFINE new == [step |-> "followups", todo |-> {e \in Duty(w) : Late(e)},
                       visiting |-> {}, since |-> Len(tracking)]
    <2>1. Fits(new)
      BY <1>1 DEF Fits, LoopState, Steps, Duty, TableIsSound
    <2>2. RestIsTyped' /\ UNCHANGED tracking /\ sweep' = [sweep EXCEPT ![w] = new]
      BY <1>1, <1>2 DEF ListLate, RestIsTyped, workVars
    <2> QED
      BY <2>1, <2>2, ReaderKeepsInv
  <1>3. ASSUME NEW e \in Duty(w), CheckFollowUp(w, e) PROVE Inv'
    <2>1. RestIsTyped' /\ UNCHANGED tracking
      BY <1>1, <1>3 DEF CheckFollowUp, RestIsTyped, workVars
    <2>2. /\ Fits(Moved(w, "followups", sweep[w].todo \ {e}, {}))
          /\ Fits(Moved(w, "track", sweep[w].todo \ {e}, {e}))
      BY <1>1, <1>3 DEF CheckFollowUp, Fits, Moved, LoopState, Steps
    <2>3. \/ sweep' = [sweep EXCEPT ![w] = Moved(w, "followups", sweep[w].todo \ {e}, {})]
          \/ sweep' = [sweep EXCEPT ![w] = Moved(w, "track", sweep[w].todo \ {e}, {e})]
      BY <1>3, GoMoves DEF CheckFollowUp
    <2> QED
      BY <2>1, <2>2, <2>3, ReaderKeepsInv
  <1>4. ASSUME NEW e \in Duty(w), CommitFollowUp(w, e) PROVE Inv'
    <2>1. e \in Work /\ Insert(e, "followup") /\ ~IndexRefuses(e, "followup")
      BY <1>4 DEF CommitFollowUp, Duty
    <2>2. /\ RowsKept /\ TableIsSound'
          /\ outbox' \in Seq([entity : Work, stage : Stage])
      BY <2>1, InsertKeepsTable DEF Stage, TableIsSound, RowsKept
    <2>3. RestIsTyped'
      BY <1>1, <1>4, <2>1, <2>2 DEF CommitFollowUp, RestIsTyped, workVars
    <2>4. PICK new : Fits(new) /\ sweep' = [sweep EXCEPT ![w] = new]
      <3>1. Fits(Moved(w, "followups", sweep[w].todo, {}))
        BY <1>1, <1>4 DEF CommitFollowUp, Fits, Moved, LoopState, Steps
      <3> QED
        BY <1>4, <3>1, GoMoves DEF CommitFollowUp
    <2>5. Fits(new)'
      BY <1>1, <2>2, <2>4, FitsStill
    <2> QED
      BY <2>2, <2>3, <2>4, <2>5, LoopKeepsInv
  <1>5. ASSUME NEW e \in Duty(w), LoseFollowUp(w, e) PROVE Inv'
    <2>1. RestIsTyped' /\ UNCHANGED tracking /\ Abandon(w)
      BY <1>1, <1>5 DEF LoseFollowUp, RestIsTyped, workVars
    <2> QED
      BY <2>1, AbandonKeepsInv
  <1> QED
    BY <1>2, <1>3, <1>4, <1>5 DEF FollowUps

LEMMA EscalationsKeepInv ==
  ASSUME Inv, NEW w \in Sweeper, Escalations(w)
  PROVE  Inv'
  <1>1. sweep[w] \in LoopState /\ Fits(sweep[w]) /\ RestIsTyped /\ TableIsSound
    BY DEF Inv
  <1>2. CASE ListFollowUps(w)
    <2>1. UNCHANGED tracking /\ Go(w, "escalations", OpenFollowUps(w), {})
      BY <1>2 DEF ListFollowUps
    <2>2. RestIsTyped'
      BY <1>1, <1>2 DEF ListFollowUps, RestIsTyped, workVars
    <2>3. OpenFollowUps(w) \subseteq AgedFollowUps /\ AgedFollowUps \subseteq DOMAIN tracking
      BY DEF OpenFollowUps, AgedFollowUps, IsOpenRow
    <2>4. Fits(Moved(w, "escalations", OpenFollowUps(w), {}))
      BY <1>1, <2>3 DEF Fits, Moved, LoopState, Steps
    <2> QED
      BY <2>1, <2>2, <2>4, GoMoves, ReaderKeepsInv
  <1>3. ASSUME NEW i \in DOMAIN tracking, Recheck(w, i) PROVE Inv'
    <2> DEFINE todo == sweep[w].todo \ {i}
    <2>1. RestIsTyped' /\ UNCHANGED tracking
      BY <1>1, <1>3 DEF Recheck, RestIsTyped, workVars
    <2>2. /\ Fits(Moved(w, "resolve", todo, {i}))
          /\ Fits(Moved(w, "escalations", todo, {}))
          /\ Fits(Moved(w, "escalate", todo, {i}))
      BY <1>1, <1>3 DEF Recheck, Fits, Moved, LoopState, Steps
    <2>3. \/ Go(w, "resolve", todo, {i})
          \/ Go(w, "escalations", todo, {})
          \/ Go(w, "escalate", todo, {i})
      BY <1>3 DEF Recheck
    <2>4. \/ sweep' = [sweep EXCEPT ![w] = Moved(w, "resolve", todo, {i})]
          \/ sweep' = [sweep EXCEPT ![w] = Moved(w, "escalations", todo, {})]
          \/ sweep' = [sweep EXCEPT ![w] = Moved(w, "escalate", todo, {i})]
      BY <2>3, GoMoves
    <2> QED
      BY <2>1, <2>2, <2>4, ReaderKeepsInv
  <1>4. ASSUME NEW i \in DOMAIN tracking, Resolve(w, i) PROVE Inv'
    <2>1. RowsKept /\ TableIsSound'
      BY <1>4, MarkKeepsTable DEF Resolve, TableIsSound, RowsKept
    <2>2. RestIsTyped'
      BY <1>1, <1>4 DEF Resolve, RestIsTyped, workVars
    <2>3. PICK new : Fits(new) /\ sweep' = [sweep EXCEPT ![w] = new]
      <3>1. Fits(Moved(w, "escalations", sweep[w].todo, {}))
        BY <1>1, <1>4 DEF Resolve, Fits, Moved, LoopState, Steps
      <3> QED
        BY <1>4, <3>1, GoMoves DEF Resolve
    <2>4. Fits(new)'
      BY <1>1, <2>1, <2>3, FitsStill
    <2> QED
      BY <2>1, <2>2, <2>3, <2>4, LoopKeepsInv
  <1>5. ASSUME NEW i \in DOMAIN tracking, CommitEscalation(w, i) PROVE Inv'
    <2> DEFINE e == tracking[i].entity
    <2>1. e \in Work /\ i \in AgedFollowUps
      <3>1. tracking[i] \in TrackingRow
        BY <1>1 DEF TableIsSound
      <3>2. sweep[w].visiting \subseteq AgedFollowUps
        BY <1>1, <1>5 DEF CommitEscalation, Fits
      <3> QED
        BY <1>5, <3>1, <3>2 DEF TrackingRow, CommitEscalation
    <2>2. Insert(e, "admin_escalation") /\ ~IndexRefuses(e, "admin_escalation")
      BY <1>5 DEF CommitEscalation
    <2>3. /\ RowsKept /\ TableIsSound'
          /\ outbox' \in Seq([entity : Work, stage : Stage])
      BY <2>1, <2>2, InsertKeepsTable DEF Stage, TableIsSound, RowsKept
    <2>4. RestIsTyped'
      BY <1>1, <1>5, <2>3 DEF CommitEscalation, RestIsTyped, workVars
    <2>5. PICK new : Fits(new) /\ sweep' = [sweep EXCEPT ![w] = new]
      <3>1. Fits(Moved(w, "escalations", sweep[w].todo, {}))
        BY <1>1, <1>5 DEF CommitEscalation, Fits, Moved, LoopState, Steps
      <3> QED
        BY <1>5, <3>1, GoMoves DEF CommitEscalation
    <2>6. Fits(new)'
      BY <1>1, <2>3, <2>5, FitsStill
    <2> QED
      BY <2>3, <2>4, <2>5, <2>6, LoopKeepsInv
  <1>6. ASSUME NEW i \in DOMAIN tracking, LoseEscalation(w, i) PROVE Inv'
    <2>1. RestIsTyped' /\ UNCHANGED tracking /\ Abandon(w)
      BY <1>1, <1>6 DEF LoseEscalation, RestIsTyped, workVars
    <2> QED
      BY <2>1, AbandonKeepsInv
  <1>7. CASE EndPass(w)
    <2>1. RestIsTyped' /\ UNCHANGED tracking /\ Stop(w)
      BY <1>1, <1>7 DEF EndPass, RestIsTyped, workVars
    <2> QED
      BY <2>1, AbandonKeepsInv
  <1> QED
    BY <1>2, <1>3, <1>4, <1>5, <1>6, <1>7 DEF Escalations

-----------------------------------------------------------------------------
(* Everything else: an error, a change of the work, time.                  *)

\* A step that moves no loop keeps the invariant when the table stays sound.
LEMMA LoopsStandStill ==
  ASSUME Inv, UNCHANGED sweep, RestIsTyped', TableIsSound', RowsKept
  PROVE  Inv'
  <1>1. /\ TableIsSound /\ sweep \in [Sweeper -> LoopState]
        /\ \A w \in Sweeper : Fits(sweep[w])
    BY DEF Inv
  <1>2. \A loop : Fits(loop) => Fits(loop)'
    BY <1>1, FitsStill
  <1>3. \A w \in Sweeper : Fits(sweep[w])'
    BY <1>1, <1>2
  <1>4. sweep' \in [Sweeper -> LoopState']
    BY <1>1, <1>3 DEF Fits
  <1> QED
    BY <1>1, <1>3, <1>4 DEF Inv

LEMMA WorldKeepsInv ==
  ASSUME Inv,
         \/ \E e \in Work : BecomesLate(e) \/ Update(e) \/ Close(e) \/ Reopen(e)
         \/ Ageing
         \/ UNCHANGED vars
  PROVE  Inv'
  <1>1. RestIsTyped /\ TableIsSound
    BY DEF Inv
  <1>2. ASSUME NEW e \in Work, BecomesLate(e) \/ Update(e) \/ Close(e) \/ Reopen(e)
        PROVE  Inv'
    <2>1. PICK state \in [open : BOOLEAN, late : BOOLEAN] : Set(e, state)
      <3>1. work[e] \in [open : BOOLEAN, late : BOOLEAN]
        BY <1>1 DEF RestIsTyped
      <3> QED
        BY <1>2, <3>1 DEF BecomesLate, Update, Close, Reopen
    <2>2. changes' \in 0..MaxChanges
      BY <1>1, <1>2, ConstantsAssumption DEF RestIsTyped, BecomesLate, Update, Close, Reopen
    <2>3. RestIsTyped' /\ UNCHANGED tracking /\ UNCHANGED sweep
      BY <1>1, <2>1, <2>2 DEF Set, RestIsTyped
    <2> QED
      BY <2>3, SameTable, LoopsStandStill
  <1>3. CASE Ageing
    <2>1. PICK i \in DOMAIN tracking : Age(i)
      BY <1>3 DEF Ageing
    <2>2. RowsKept /\ TableIsSound'
      BY <2>1, MarkKeepsTable DEF Age, TableIsSound, RowsKept
    <2>3. RestIsTyped' /\ UNCHANGED sweep
      BY <1>1, <2>1 DEF Age, RestIsTyped, workVars
    <2> QED
      BY <2>2, <2>3, LoopsStandStill
  <1>4. CASE UNCHANGED vars
    <2>1. RestIsTyped' /\ UNCHANGED tracking /\ UNCHANGED sweep
      BY <1>1, <1>4 DEF RestIsTyped, vars, workVars
    <2> QED
      BY <2>1, SameTable, LoopsStandStill
  <1> QED
    BY <1>2, <1>3, <1>4

LEMMA NextInv == Inv /\ [Next]_vars => Inv'
  <1> SUFFICES ASSUME Inv, [Next]_vars PROVE Inv'
    OBVIOUS
  <1>1. ASSUME NEW w \in Sweeper, Sweep(w) PROVE Inv'
    BY <1>1, FollowUpsKeepInv, EscalationsKeepInv DEF Sweep
  <1>2. ASSUME NEW w \in Sweeper, FailSweep(w) PROVE Inv'
    <2>1. RestIsTyped'
      BY <1>2, ConstantsAssumption DEF Inv, FailSweep, RestIsTyped, workVars
    <2> QED
      BY <1>2, <2>1, AbandonKeepsInv DEF FailSweep
  <1> QED
    BY <1>1, <1>2, WorldKeepsInv DEF Next

-----------------------------------------------------------------------------
(* What the history variables stand for.                                   *)

\* The second look is not outdated by what happened to the work since.
LooksAgain(w) ==
  /\ \A e \in recovered[w] : ~Awaiting(e)
  /\ sweep[w].step = "escalate" =>
       \A i \in sweep[w].visiting : tracking[i].entity \notin recovered[w]

\* A row grows old only when every pass under way has begun after it.
AgedBefore(w) ==
  sweep[w].step # "idle" => \A i \in DOMAIN tracking : tracking[i].aged => i <= sweep[w].since

Pursues(w, e) ==
  sweep[w].step \in {"followups", "track"} /\ e \in sweep[w].todo \cup sweep[w].visiting

\* Row i is the follow-up of the present stall of e: who began a pass after it
\* and is after e listed e while it was late, as it still is; and who resolves
\* or resolved it saw that e was no longer awaited, which is still so.
Answers(i, e) ==
  /\ tracking[i].entity = e /\ tracking[i].stage = "followup"
  /\ \A w \in Sweeper :
       /\ Pursues(w, e) /\ i <= sweep[w].since => Late(e)
       /\ sweep[w].step = "resolve" /\ i \in sweep[w].visiting => ~Awaiting(e)
  /\ tracking[i].resolved => tracking[i].aged /\ ~Awaiting(e)

HistoryInv ==
  /\ \A w \in Sweeper : LooksAgain(w) /\ AgedBefore(w)
  /\ \A e \in told : \E i \in DOMAIN tracking : Answers(i, e)

\* Nothing has happened yet.
LEMMA InitHistory == Init => HistoryInv
  BY DEF Init, HistoryInv, LooksAgain, AgedBefore, Idle

\* What a loop that moves to `new` owes the others.
Careful(w, new) ==
  /\ UNCHANGED <<kind, work>>
  /\ RowsKept
  /\ \A i \in DOMAIN tracking :
       /\ tracking'[i].aged = tracking[i].aged
       /\ tracking'[i].resolved =>
            \/ tracking[i].resolved
            \/ sweep[w].step = "resolve" /\ i \in sweep[w].visiting
  /\ \A i \in DOMAIN tracking' \ DOMAIN tracking : ~tracking'[i].aged
  /\ \A v \in Sweeper \ {w} : recovered'[v] = recovered[v]
  /\ new.step # "idle" =>
       \/ sweep[w].step # "idle" /\ new.since = sweep[w].since
       \/ new.since = Len(tracking)
  /\ new.step \in {"followups", "track"} => \A e \in new.todo \cup new.visiting :
       Late(e) \/ (Pursues(w, e) /\ new.since = sweep[w].since)
  /\ new.step = "resolve" => \A i \in new.visiting : ~Awaiting(tracking[i].entity)

\* A careful step of one loop: what was answered stays answered.
LEMMA CarefulKeepsHistory ==
  ASSUME Inv, HistoryInv, NEW w \in Sweeper, NEW new,
         sweep' = [sweep EXCEPT ![w] = new], Careful(w, new), LooksAgain(w)'
  PROVE  /\ \A v \in Sweeper : (LooksAgain(v) /\ AgedBefore(v))'
         /\ \A e \in told : \E i \in DOMAIN tracking' : Answers(i, e)'
  <1>1. /\ tracking \in Seq(TrackingRow) /\ sweep \in [Sweeper -> LoopState]
        /\ \A v \in Sweeper : Fits(sweep[v])
    BY DEF Inv, TableIsSound
  <1>2. /\ sweep'[w] = new /\ \A v \in Sweeper : v # w => sweep'[v] = sweep[v]
        /\ \A e : Awaiting(e)' = Awaiting(e) /\ Late(e)' = Late(e)
    BY <1>1 DEF Careful, Awaiting, Late
  <1>3. /\ DOMAIN tracking = 1..Len(tracking) /\ Len(tracking) \in Nat
        /\ DOMAIN tracking \subseteq DOMAIN tracking'
    BY <1>1 DEF Careful, RowsKept
  <1>4. ASSUME NEW v \in Sweeper PROVE LooksAgain(v)'
    <2>1. CASE v # w
      <3>1. recovered'[v] = recovered[v] /\ sweep'[v] = sweep[v]
        BY <2>1, <1>2 DEF Careful
      <3>2. LooksAgain(v)
        BY DEF HistoryInv
      <3>3. ASSUME sweep[v].step = "escalate", NEW i \in sweep[v].visiting
            PROVE  tracking'[i].entity = tracking[i].entity
        <4>1. i \in DOMAIN tracking
          BY <1>1, <3>3 DEF Fits, AgedFollowUps
        <4> QED
          BY <4>1 DEF Careful, RowsKept
      <3> QED
        BY <3>1, <3>2, <3>3, <1>2 DEF LooksAgain
    <2> QED
      BY <2>1
  <1>5. ASSUME NEW v \in Sweeper PROVE AgedBefore(v)'
    <2> SUFFICES ASSUME sweep'[v].step # "idle", NEW i \in DOMAIN tracking', tracking'[i].aged
                 PROVE  i <= sweep'[v].since
      BY DEF AgedBefore
    <2>1. i \in DOMAIN tracking /\ tracking[i].aged
      BY DEF Careful
    <2>2. CASE v # w
      BY <2>1, <2>2, <1>2 DEF HistoryInv, AgedBefore
    <2>3. CASE v = w /\ sweep[w].step # "idle" /\ new.since = sweep[w].since
      BY <2>1, <2>3, <1>2 DEF HistoryInv, AgedBefore
    <2>4. CASE v = w /\ new.since = Len(tracking)
      BY <2>1, <2>4, <1>2, <1>3
    <2> QED
      BY <2>2, <2>3, <2>4, <1>2 DEF Careful
  <1>6. ASSUME NEW e \in told PROVE \E i \in DOMAIN tracking' : Answers(i, e)'
    <2>1. PICK i \in DOMAIN tracking : Answers(i, e)
      BY DEF HistoryInv
    <2>2. tracking'[i].entity = e /\ tracking'[i].stage = "followup"
      BY <2>1 DEF Answers, Careful, RowsKept
    <2>3. ASSUME NEW v \in Sweeper, Pursues(v, e)', i <= sweep'[v].since
          PROVE  Late(e)
      <3>1. CASE v # w
        BY <3>1, <2>1, <2>3, <1>2 DEF Answers, Pursues
      <3>2. CASE v = w
        <4>1. Late(e) \/ (Pursues(w, e) /\ new.since = sweep[w].since)
          BY <3>2, <2>3, <1>2 DEF Pursues, Careful
        <4> QED
          BY <4>1, <3>2, <2>1, <2>3, <1>2 DEF Answers
      <3> QED
        BY <3>1, <3>2
    <2>4. ASSUME NEW v \in Sweeper, sweep'[v].step = "resolve", i \in sweep'[v].visiting
          PROVE  ~Awaiting(e)
      <3>1. CASE v # w
        BY <3>1, <2>1, <2>4, <1>2 DEF Answers
      <3>2. CASE v = w
        BY <3>2, <2>1, <2>4, <1>2 DEF Answers, Careful
      <3> QED
        BY <3>1, <3>2
    <2>5. ASSUME tracking'[i].resolved PROVE tracking'[i].aged /\ ~Awaiting(e)
      <3>1. CASE tracking[i].resolved
        BY <3>1, <2>1 DEF Answers, Careful
      <3>2. CASE sweep[w].step = "resolve" /\ i \in sweep[w].visiting
        <4>1. ~Awaiting(e)
          BY <3>2, <2>1 DEF Answers
        <4>2. tracking[i].aged
          BY <3>2, <1>1 DEF Fits, AgedFollowUps
        <4> QED
          BY <4>1, <4>2 DEF Careful
      <3> QED
        BY <2>5, <3>1, <3>2 DEF Careful
    <2>6. Answers(i, e)'
      BY <2>2, <2>3, <2>4, <2>5, <1>2 DEF Answers
    <2> QED
      BY <2>6, <1>3
  <1> QED
    BY <1>4, <1>5, <1>6

\* A careful step after which nobody new is told.
LEMMA CarefulKeepsTold ==
  ASSUME Inv, HistoryInv, NEW w \in Sweeper, NEW new,
         sweep' = [sweep EXCEPT ![w] = new], Careful(w, new), LooksAgain(w)', UNCHANGED told
  PROVE  HistoryInv'
  BY CarefulKeepsHistory DEF HistoryInv

\* The table is as it was, and the loop goes where it promises nothing.
LEMMA QuietKeepsHistory ==
  ASSUME Inv, HistoryInv, NEW w \in Sweeper, NEW new,
         sweep' = [sweep EXCEPT ![w] = new],
         UNCHANGED <<workVars, tracking, told, recovered>>,
         new.step \in {"idle", "list", "escalations"},
         new.step # "idle" => sweep[w].step # "idle" /\ new.since = sweep[w].since
  PROVE  HistoryInv'
  <1>1. sweep'[w] = new /\ RowsKept
    BY SameTable DEF Inv
  <1>2. Careful(w, new)
    BY <1>1 DEF Careful, workVars
  <1>3. LooksAgain(w)'
    BY <1>1 DEF HistoryInv, LooksAgain, Awaiting, workVars
  <1> QED
    BY <1>2, <1>3, CarefulKeepsTold

LEMMA AbandonKeepsHistory ==
  ASSUME Inv, HistoryInv, NEW w \in Sweeper, Abandon(w) \/ Stop(w), sweep[w].step # "idle",
         UNCHANGED <<workVars, tracking, told, recovered>>
  PROVE  HistoryInv'
  <1>1. \/ sweep' = [sweep EXCEPT ![w] = Moved(w, "list", {}, {})]
        \/ sweep' = [sweep EXCEPT ![w] = Idle]
    BY GoMoves DEF Abandon, Stop
  <1>2. CASE sweep' = [sweep EXCEPT ![w] = Moved(w, "list", {}, {})]
    BY <1>2, QuietKeepsHistory DEF Moved
  <1>3. CASE sweep' = [sweep EXCEPT ![w] = Idle]
    BY <1>3, QuietKeepsHistory DEF Idle
  <1> QED
    BY <1>1, <1>2, <1>3

\* Following up: the row a loop adds is newer than every pass under way.
LEMMA FollowUpsKeepHistory ==
  ASSUME Inv, HistoryInv, NEW w \in Sweeper, FollowUps(w)
  PROVE  HistoryInv'
  <1>1. /\ tracking \in Seq(TrackingRow) /\ sweep \in [Sweeper -> LoopState]
        /\ \A v \in Sweeper : Fits(sweep[v]) /\ LooksAgain(v)
    BY DEF Inv, TableIsSound, HistoryInv
  <1>2. CASE ListLate(w)
    <2> DEFINE new == [step |-> "followups", todo |-> {e \in Duty(w) : Late(e)},
                       visiting |-> {}, since |-> Len(tracking)]
    <2>1. /\ sweep' = [sweep EXCEPT ![w] = new] /\ sweep'[w] = new
          /\ UNCHANGED <<workVars, tracking, told, recovered>> /\ RowsKept
      BY <1>1, <1>2, SameTable DEF ListLate
    <2>2. Careful(w, new)
      BY <2>1 DEF Careful, workVars
    <2>3. LooksAgain(w)'
      BY <1>1, <2>1 DEF LooksAgain, Awaiting, workVars
    <2> QED
      BY <2>1, <2>2, <2>3, CarefulKeepsTold
  <1>3. ASSUME NEW e \in Duty(w), CheckFollowUp(w, e) PROVE HistoryInv'
    <2>1. PICK new : /\ sweep' = [sweep EXCEPT ![w] = new]
                     /\ new.step \in {"followups", "track"} /\ new.since = sweep[w].since
                     /\ new.todo \cup new.visiting \subseteq sweep[w].todo
      <3>1. e \in sweep[w].todo
        BY <1>3 DEF CheckFollowUp
      <3>2. \/ sweep' = [sweep EXCEPT ![w] = Moved(w, "followups", sweep[w].todo \ {e}, {})]
            \/ sweep' = [sweep EXCEPT ![w] = Moved(w, "track", sweep[w].todo \ {e}, {e})]
        BY <1>3, GoMoves DEF CheckFollowUp
      <3>3. CASE sweep' = [sweep EXCEPT ![w] = Moved(w, "followups", sweep[w].todo \ {e}, {})]
        <4> WITNESS Moved(w, "followups", sweep[w].todo \ {e}, {})
        <4> QED
          BY <3>1, <3>3 DEF Moved
      <3>4. CASE sweep' = [sweep EXCEPT ![w] = Moved(w, "track", sweep[w].todo \ {e}, {e})]
        <4> WITNESS Moved(w, "track", sweep[w].todo \ {e}, {e})
        <4> QED
          BY <3>1, <3>4 DEF Moved
      <3> QED
        BY <3>2, <3>3, <3>4
    <2>2. /\ UNCHANGED <<workVars, tracking, told, recovered>> /\ RowsKept
          /\ sweep[w].step = "followups" /\ sweep'[w] = new
      BY <1>1, <1>3, <2>1, SameTable DEF CheckFollowUp
    <2>3. Careful(w, new)
      BY <2>1, <2>2 DEF Careful, workVars, Pursues
    <2>4. LooksAgain(w)'
      BY <1>1, <2>1, <2>2 DEF LooksAgain, Awaiting, workVars
    <2> QED
      BY <2>1, <2>2, <2>3, <2>4, CarefulKeepsTold
  <1>4. ASSUME NEW e \in Duty(w), CommitFollowUp(w, e) PROVE HistoryInv'
    <2> DEFINE new == Moved(w, "followups", sweep[w].todo, {})
    <2>0. PICK n \in Nat : n = Len(tracking) + 1
      BY <1>1
    <2>1. /\ sweep' = [sweep EXCEPT ![w] = new] /\ sweep'[w] = new
          /\ sweep[w].step = "track" /\ told' = told \cup {e}
          /\ UNCHANGED <<workVars, recovered>>
      BY <1>1, <1>4, GoMoves DEF CommitFollowUp
    <2>2. /\ e \in Work /\ NewTracking(e, "followup") \in TrackingRow
          /\ tracking' = Append(tracking, NewTracking(e, "followup"))
      BY <1>4 DEF CommitFollowUp, Duty, Insert, NewTracking, TrackingRow, Stage
    <2>3. /\ n = Len(tracking) + 1 /\ DOMAIN tracking = 1..Len(tracking) /\ DOMAIN tracking' = 1..n
          /\ \A i \in DOMAIN tracking : tracking'[i] = tracking[i]
          /\ tracking'[n] = NewTracking(e, "followup")
          /\ tracking' \in Seq(TrackingRow)
      BY <1>1, <2>0, <2>2
    <2>4. RowsKept
      BY <2>3 DEF RowsKept
    <2>5. Careful(w, new)
      BY <2>1, <2>3, <2>4 DEF Careful, workVars, Pursues, Moved, NewTracking
    <2>6. LooksAgain(w)'
      BY <1>1, <2>1 DEF LooksAgain, Awaiting, workVars, Moved
    <2>7. Answers(n, e)'
      <3>1. ASSUME NEW v \in Sweeper
            PROVE  ~(n <= sweep'[v].since) /\ (sweep'[v].step = "resolve" => n \notin sweep'[v].visiting)
        <4>1. sweep[v].since \in 0..Len(tracking) /\ sweep'[v].since = sweep[v].since
          BY <1>1, <2>1 DEF LoopState, Moved
        <4>2. ASSUME sweep'[v].step = "resolve" PROVE n \notin sweep'[v].visiting
          <5>1. v # w /\ sweep'[v] = sweep[v]
            BY <1>1, <2>1, <4>2 DEF Moved
          <5>2. sweep[v].visiting \subseteq DOMAIN tracking
            BY <1>1, <5>1, <4>2 DEF Fits, AgedFollowUps
          <5> QED
            BY <5>1, <5>2, <2>3
        <4> QED
          BY <4>1, <4>2, <2>3
      <3>2. /\ tracking'[n].entity = e /\ tracking'[n].stage = "followup"
            /\ ~tracking'[n].resolved
        BY <2>3 DEF NewTracking
      <3> QED
        BY <3>1, <3>2 DEF Answers
    <2>8. /\ \A v \in Sweeper : (LooksAgain(v) /\ AgedBefore(v))'
          /\ \A d \in told : \E i \in DOMAIN tracking' : Answers(i, d)'
      <3> HIDE DEF new
      <3> QED
        BY <2>1, <2>5, <2>6, CarefulKeepsHistory
    <2>9. \A d \in told' : \E i \in DOMAIN tracking' : Answers(i, d)'
      BY <2>1, <2>3, <2>7, <2>8
    <2> QED
      BY <2>8, <2>9 DEF HistoryInv
  <1>5. ASSUME NEW e \in Duty(w), LoseFollowUp(w, e) PROVE HistoryInv'
    BY <1>5, AbandonKeepsHistory DEF LoseFollowUp
  <1> QED
    BY <1>2, <1>3, <1>4, <1>5 DEF FollowUps

\* Escalating: only what the second look found awaited, or no longer awaited,
\* is escalated, or resolved.
LEMMA EscalationsKeepHistory ==
  ASSUME Inv, HistoryInv, NEW w \in Sweeper, Escalations(w)
  PROVE  HistoryInv'
  <1>1. /\ tracking \in Seq(TrackingRow) /\ sweep \in [Sweeper -> LoopState]
        /\ recovered \in [Sweeper -> SUBSET Work]
        /\ \A v \in Sweeper : Fits(sweep[v]) /\ LooksAgain(v)
    BY DEF Inv, RestIsTyped, TableIsSound, HistoryInv
  <1>2. CASE ListFollowUps(w)
    <2> DEFINE new == Moved(w, "escalations", OpenFollowUps(w), {})
    <2>1. /\ sweep' = [sweep EXCEPT ![w] = new] /\ sweep'[w] = new
          /\ sweep[w].step # "idle"
          /\ UNCHANGED <<workVars, tracking, told>> /\ RowsKept
          /\ recovered' = [recovered EXCEPT ![w] = {e \in Work : ~Awaiting(e)}]
      BY <1>1, <1>2, GoMoves, SameTable DEF ListFollowUps
    <2>2. Careful(w, new)
      BY <2>1, <1>1 DEF Careful, workVars, Moved
    <2>3. LooksAgain(w)'
      BY <1>1, <2>1 DEF LooksAgain, Awaiting, workVars, Moved
    <2> QED
      BY <2>1, <2>2, <2>3, CarefulKeepsTold
  <1>3. ASSUME NEW i \in DOMAIN tracking, Recheck(w, i) PROVE HistoryInv'
    <2> DEFINE e == tracking[i].entity
               todo == sweep[w].todo \ {i}
    <2>1. /\ sweep[w].step = "escalations" /\ RowsKept
          /\ UNCHANGED <<workVars, tracking, told, recovered>>
      BY <1>3, SameTable DEF Recheck
    <2>2. \/ ~Awaiting(e) /\ Go(w, "resolve", todo, {i})
          \/ Go(w, "escalations", todo, {})
          \/ Awaiting(e) /\ Go(w, "escalate", todo, {i})
      BY <1>3 DEF Recheck, StillAwaiting
    <2>3. CASE ~Awaiting(e) /\ Go(w, "resolve", todo, {i})
      <3> DEFINE new == Moved(w, "resolve", todo, {i})
      <3>1. sweep' = [sweep EXCEPT ![w] = new] /\ sweep'[w] = new
        BY <1>1, <2>3, GoMoves
      <3>2. Careful(w, new)
        BY <2>1, <2>3 DEF Careful, workVars, Moved
      <3>3. LooksAgain(w)'
        BY <1>1, <2>1, <3>1 DEF LooksAgain, Awaiting, workVars, Moved
      <3> QED
        BY <2>1, <3>1, <3>2, <3>3, CarefulKeepsTold
    <2>4. CASE Go(w, "escalations", todo, {})
      BY <2>1, <2>4, GoMoves, QuietKeepsHistory DEF Moved
    <2>5. CASE Awaiting(e) /\ Go(w, "escalate", todo, {i})
      <3> DEFINE new == Moved(w, "escalate", todo, {i})
      <3>1. sweep' = [sweep EXCEPT ![w] = new] /\ sweep'[w] = new
        BY <1>1, <2>5, GoMoves
      <3>2. Careful(w, new)
        BY <2>1 DEF Careful, workVars, Moved
      <3>3. LooksAgain(w)'
        BY <1>1, <2>1, <2>5, <3>1 DEF LooksAgain, Awaiting, workVars, Moved
      <3> QED
        BY <2>1, <3>1, <3>2, <3>3, CarefulKeepsTold
    <2> QED
      BY <2>2, <2>3, <2>4, <2>5
  <1>4. ASSUME NEW i \in DOMAIN tracking, Resolve(w, i) PROVE HistoryInv'
    <2> DEFINE new == Moved(w, "escalations", sweep[w].todo, {})
    <2>1. /\ sweep' = [sweep EXCEPT ![w] = new] /\ sweep'[w] = new
          /\ sweep[w].step = "resolve" /\ i \in sweep[w].visiting
          /\ UNCHANGED <<workVars, told, recovered>>
          /\ tracking' = [tracking EXCEPT ![i].resolved = TRUE]
      BY <1>1, <1>4, GoMoves DEF Resolve
    <2>2. RowsKept /\ DOMAIN tracking' = DOMAIN tracking
      BY <2>1, MarkKeepsTable
    <2>3. /\ \A j \in DOMAIN tracking : tracking'[j].aged = tracking[j].aged
          /\ \A j \in DOMAIN tracking : tracking'[j].resolved => tracking[j].resolved \/ j = i
      BY <1>1, <2>1 DEF TrackingRow
    <2>4. Careful(w, new)
      BY <2>1, <2>2, <2>3 DEF Careful, workVars, Moved
    <2>5. LooksAgain(w)'
      BY <1>1, <2>1 DEF LooksAgain, Awaiting, workVars, Moved
    <2> QED
      BY <2>1, <2>4, <2>5, CarefulKeepsTold
  <1>5. ASSUME NEW i \in DOMAIN tracking, CommitEscalation(w, i) PROVE HistoryInv'
    <2> DEFINE new == Moved(w, "escalations", sweep[w].todo, {})
               row == NewTracking(tracking[i].entity, "admin_escalation")
               n == Len(tracking) + 1
    <2>1. /\ sweep' = [sweep EXCEPT ![w] = new] /\ sweep'[w] = new
          /\ sweep[w].step = "escalate"
          /\ UNCHANGED <<workVars, told, recovered>>
          /\ tracking' = Append(tracking, row)
      BY <1>1, <1>5, GoMoves DEF CommitEscalation, Insert
    <2>2. row \in TrackingRow
      <3>1. tracking[i] \in TrackingRow
        BY <1>1
      <3> QED
        BY <3>1 DEF NewTracking, TrackingRow, Stage
    <2>3. /\ n \in Nat /\ DOMAIN tracking = 1..Len(tracking) /\ DOMAIN tracking' = 1..n
          /\ \A j \in DOMAIN tracking : tracking'[j] = tracking[j]
          /\ tracking'[n] = row
          /\ tracking' \in Seq(TrackingRow)
      BY <1>1, <2>1, <2>2
    <2>4. RowsKept
      BY <2>3 DEF RowsKept
    <2>5. Careful(w, new)
      BY <2>1, <2>3, <2>4 DEF Careful, workVars, Moved, NewTracking
    <2>6. LooksAgain(w)'
      BY <1>1, <2>1 DEF LooksAgain, Awaiting, workVars, Moved
    <2> QED
      BY <2>1, <2>5, <2>6, CarefulKeepsTold
  <1>6. ASSUME NEW i \in DOMAIN tracking, LoseEscalation(w, i) PROVE HistoryInv'
    BY <1>6, AbandonKeepsHistory DEF LoseEscalation
  <1>7. CASE EndPass(w)
    BY <1>7, AbandonKeepsHistory DEF EndPass
  <1> QED
    BY <1>2, <1>3, <1>4, <1>5, <1>6, <1>7 DEF Escalations

\* A change of the work ends its stall and, for who had listed it, its rest.
LEMMA SetKeepsHistory ==
  ASSUME Inv, HistoryInv, NEW e \in Work, NEW state, Set(e, state)
  PROVE  HistoryInv'
  <1>1. /\ UNCHANGED <<kind, tracking, sweep>>
        /\ told' = told \ {e}
        /\ recovered' = [w \in Sweeper |-> {d \in recovered[w] : ~Awaiting(d)'}]
        /\ work' = [work EXCEPT ![e] = state]
    BY DEF Set
  <1>2. ASSUME NEW w \in Sweeper PROVE LooksAgain(w)' /\ AgedBefore(w)'
    <2>1. recovered'[w] = {d \in recovered[w] : ~Awaiting(d)'}
      BY <1>1
    <2> QED
      BY <1>1, <2>1 DEF HistoryInv, LooksAgain, AgedBefore
  <1>3. ASSUME NEW d \in told' PROVE \E i \in DOMAIN tracking' : Answers(i, d)'
    <2>1. d \in told /\ d # e /\ d \in Work
      BY <1>1 DEF Inv, RestIsTyped
    <2>2. PICK i \in DOMAIN tracking : Answers(i, d)
      BY <2>1 DEF HistoryInv
    <2>3. work'[d] = work[d]
      BY <1>1, <2>1 DEF Inv, RestIsTyped
    <2>4. Awaiting(d)' = Awaiting(d) /\ Late(d)' = Late(d)
      BY <1>1, <2>3 DEF Awaiting, Late
    <2> QED
      BY <1>1, <2>2, <2>4 DEF Answers, Pursues
  <1> QED
    BY <1>2, <1>3 DEF HistoryInv

\* A row grows old: no pass under way is older than it.
LEMMA AgeKeepsHistory ==
  ASSUME Inv, HistoryInv, NEW i \in DOMAIN tracking, Age(i)
  PROVE  HistoryInv'
  <1>1. /\ UNCHANGED <<kind, work, sweep, told, recovered>>
        /\ tracking' = [tracking EXCEPT ![i].aged = TRUE]
        /\ \A w \in Sweeper : sweep[w].step # "idle" => sweep[w].since >= i
    BY DEF Age, workVars
  <1>2. /\ tracking \in Seq(TrackingRow) /\ sweep \in [Sweeper -> LoopState]
        /\ \A w \in Sweeper : Fits(sweep[w])
    BY DEF Inv, TableIsSound
  <1>3. RowsKept /\ DOMAIN tracking' = DOMAIN tracking
    BY <1>1, MarkKeepsTable
  <1>4. /\ \A j \in DOMAIN tracking : tracking'[j].aged => tracking[j].aged \/ j = i
        /\ \A j \in DOMAIN tracking : tracking'[j].resolved = tracking[j].resolved
    BY <1>1, <1>2 DEF TrackingRow
  <1>5. ASSUME NEW w \in Sweeper PROVE LooksAgain(w)'
    <2>1. LooksAgain(w) /\ Fits(sweep[w])
      BY <1>2 DEF HistoryInv
    <2>2. sweep[w].step = "escalate" =>
            \A j \in sweep[w].visiting : tracking'[j].entity = tracking[j].entity
      BY <2>1, <1>3 DEF Fits, AgedFollowUps, RowsKept
    <2> QED
      BY <1>1, <2>1, <2>2 DEF LooksAgain, Awaiting
  <1>6. ASSUME NEW w \in Sweeper PROVE AgedBefore(w)'
    <2> SUFFICES ASSUME sweep[w].step # "idle", NEW j \in DOMAIN tracking, tracking'[j].aged
                 PROVE  j <= sweep[w].since
      BY <1>1, <1>3 DEF AgedBefore
    <2>1. CASE tracking[j].aged
      BY <2>1 DEF HistoryInv, AgedBefore
    <2>2. CASE j = i
      <3>1. sweep[w].since \in 0..Len(tracking) /\ i \in 1..Len(tracking) /\ Len(tracking) \in Nat
        BY <1>2 DEF LoopState
      <3> QED
        BY <2>2, <3>1, <1>1
    <2> QED
      BY <2>1, <2>2, <1>4
  <1>7. ASSUME NEW e \in told PROVE \E j \in DOMAIN tracking' : Answers(j, e)'
    <2>1. PICK j \in DOMAIN tracking : Answers(j, e)
      BY DEF HistoryInv
    <2>2. Awaiting(e)' = Awaiting(e) /\ Late(e)' = Late(e)
      BY <1>1 DEF Awaiting, Late
    <2>3. Answers(j, e)'
      BY <1>1, <1>3, <1>4, <2>1, <2>2 DEF Answers, Pursues, RowsKept
    <2> QED
      BY <2>3, <1>3
  <1> QED
    BY <1>1, <1>5, <1>6, <1>7 DEF HistoryInv

LEMMA NextHistory == Inv /\ HistoryInv /\ [Next]_vars => HistoryInv'
  <1> SUFFICES ASSUME Inv, HistoryInv, [Next]_vars PROVE HistoryInv'
    OBVIOUS
  <1>1. ASSUME NEW w \in Sweeper, Sweep(w) PROVE HistoryInv'
    BY <1>1, FollowUpsKeepHistory, EscalationsKeepHistory DEF Sweep
  <1>2. ASSUME NEW w \in Sweeper, FailSweep(w) PROVE HistoryInv'
    BY <1>2, AbandonKeepsHistory DEF FailSweep
  <1>3. ASSUME NEW e \in Work, BecomesLate(e) \/ Update(e) \/ Close(e) \/ Reopen(e)
        PROVE  HistoryInv'
    BY <1>3, SetKeepsHistory DEF BecomesLate, Update, Close, Reopen
  <1>4. CASE Ageing
    BY <1>4, AgeKeepsHistory DEF Ageing
  <1>5. CASE UNCHANGED vars
    BY <1>5 DEF vars, workVars, HistoryInv, LooksAgain, AgedBefore, Answers, Pursues, Awaiting, Late
  <1> QED
    BY <1>1, <1>2, <1>3, <1>4, <1>5 DEF Next

-----------------------------------------------------------------------------
(* Who adds a row.                                                         *)

\* Only two steps make the table longer, each of one loop.
LEMMA OnlyCommitsInsert ==
  ASSUME Inv, [Next]_vars, Len(tracking') = Len(tracking) + 1
  PROVE  \E w \in Sweeper : \/ \E e \in Duty(w) : CommitFollowUp(w, e)
                            \/ \E i \in DOMAIN tracking : CommitEscalation(w, i)
  <1>1. Len(tracking) \in Nat
    BY DEF Inv, TableIsSound
  <1>2. tracking' # tracking
    BY <1>1
  <1>3. ~Ageing
    BY <1>1, MarkKeepsTable DEF Ageing, Age
  <1>4. ~\E e \in Work : BecomesLate(e) \/ Update(e) \/ Close(e) \/ Reopen(e)
    BY <1>2 DEF BecomesLate, Update, Close, Reopen, Set
  <1>5. PICK w \in Sweeper : Sweep(w) \/ FailSweep(w)
    BY <1>2, <1>3, <1>4 DEF Next, vars
  <1>6. \A i \in DOMAIN tracking : ~Resolve(w, i)
    BY <1>1, MarkKeepsTable DEF Resolve
  <1>7. ~FailSweep(w)
    BY <1>2 DEF FailSweep
  <1> QED
    BY <1>2, <1>5, <1>6, <1>7
    DEF Sweep, FollowUps, Escalations, ListLate, CheckFollowUp, LoseFollowUp, ListFollowUps,
        Recheck, LoseEscalation, EndPass

\* The last row is the one that was inserted, and only its loop moved.
LEMMA InsertedLast ==
  ASSUME Inv, NEW e, NEW stage, Insert(e, stage)
  PROVE  \A d, s : Inserted(d, s) => d = e /\ s = stage
  <1>1. tracking \in Seq(TrackingRow) /\ tracking' = Append(tracking, NewTracking(e, stage))
    BY DEF Inv, TableIsSound, Insert
  <1>2. /\ Len(tracking') = Len(tracking) + 1 /\ Len(tracking) \in Nat
        /\ tracking'[Len(tracking) + 1] = NewTracking(e, stage)
    BY <1>1
  <1> QED
    BY <1>2 DEF Inserted, NewTracking

-----------------------------------------------------------------------------
(* The theorems.                                                           *)

\* Whatever the sweeps, the work and time do, the invariant holds.
THEOREM EscalationInvariant == Spec => []Inv
  BY InitInv, NextInv, PTL DEF Spec

\* The tracking table, the outbox and the loops stay in their types.
THEOREM EscalationTypeCorrect == Spec => []TypeOK
  BY EscalationInvariant, InvIsTyped, PTL

\* However many processes sweep at once, the index lets one open row exist per
\* piece of work and stage.
THEOREM OneRowIsOpen == Spec => []OneOpenRow
  <1>1. Inv => OneOpenRow
    BY DEF Inv, TableIsSound
  <1> QED
    BY <1>1, EscalationInvariant, PTL

\* No escalation to Admin without a follow-up that stood for ESCALATION_HOURS.
THEOREM FollowUpComesFirst == Spec => []EscalationFollowsFollowUp
  <1>1. Inv => EscalationFollowsFollowUp
    BY DEF Inv, TableIsSound
  <1> QED
    BY <1>1, EscalationInvariant, PTL

\* A sweep looks again before it escalates, so work that was not awaited at any
\* moment since the sweep listed the follow-ups is not escalated by it, however
\* many loops run and however often the work changes.
THEOREM RecoveredWorkIsLeftAlone == Spec => RecoveredIsNotEscalated
  <1> DEFINE Good == \A w \in Sweeper, e \in Work :
               Inserted(e, "admin_escalation") /\ sweep'[w] # sweep[w] => e \notin recovered[w]
  <1>1. Init => HistoryInv
    BY InitHistory
  <1>2. Inv /\ HistoryInv /\ [Next]_vars => HistoryInv'
    BY NextHistory
  <1>3. Inv /\ HistoryInv /\ [Next]_vars => [Good]_vars
    <2> SUFFICES ASSUME Inv, HistoryInv, [Next]_vars, NEW w \in Sweeper, NEW e \in Work,
                        Inserted(e, "admin_escalation"), sweep'[w] # sweep[w]
                 PROVE  e \notin recovered[w]
      OBVIOUS
    <2>1. PICK v \in Sweeper : \/ \E d \in Duty(v) : CommitFollowUp(v, d)
                               \/ \E i \in DOMAIN tracking : CommitEscalation(v, i)
      BY OnlyCommitsInsert DEF Inserted
    <2>2. ASSUME NEW d \in Duty(v), CommitFollowUp(v, d) PROVE FALSE
      BY <2>2, InsertedLast DEF CommitFollowUp
    <2>3. PICK i \in DOMAIN tracking : CommitEscalation(v, i)
      BY <2>1, <2>2
    <2>4. v = w
      BY <2>3 DEF CommitEscalation, Go, Inv
    <2>5. e = tracking[i].entity
      BY <2>3, InsertedLast DEF CommitEscalation
    <2> QED
      BY <2>3, <2>4, <2>5 DEF CommitEscalation, HistoryInv, LooksAgain
  <1> QED
    BY <1>1, <1>2, <1>3, EscalationInvariant, PTL DEF Spec, RecoveredIsNotEscalated

\* No second follow-up for one stall: the first is open, or was resolved by a
\* pass that saw the work recover, and recovered work was not listed as late.
THEOREM StallsAreFollowedUpOnce == Spec => OneFollowUpPerStall
  <1> DEFINE Good == \A e \in Work : Inserted(e, "followup") => e \notin told
  <1>1. Init => HistoryInv
    BY InitHistory
  <1>2. Inv /\ HistoryInv /\ [Next]_vars => HistoryInv'
    BY NextHistory
  <1>3. Inv /\ HistoryInv /\ [Next]_vars => [Good]_vars
    <2> SUFFICES ASSUME Inv, HistoryInv, [Next]_vars, NEW e \in Work,
                        Inserted(e, "followup"), e \in told
                 PROVE  FALSE
      OBVIOUS
    <2>1. PICK v \in Sweeper : \/ \E d \in Duty(v) : CommitFollowUp(v, d)
                               \/ \E i \in DOMAIN tracking : CommitEscalation(v, i)
      BY OnlyCommitsInsert DEF Inserted
    <2>2. ASSUME NEW i \in DOMAIN tracking, CommitEscalation(v, i) PROVE FALSE
      BY <2>2, InsertedLast DEF CommitEscalation
    <2>3. CommitFollowUp(v, e)
      BY <2>1, <2>2, InsertedLast DEF CommitFollowUp
    <2>4. PICK i \in DOMAIN tracking : Answers(i, e)
      BY DEF HistoryInv
    <2>5. tracking[i].aged /\ ~Awaiting(e)
      BY <2>3, <2>4 DEF CommitFollowUp, IndexRefuses, HasOpenTracking, IsOpenRow, Answers
    <2>6. Pursues(v, e) /\ i <= sweep[v].since
      BY <2>3, <2>5 DEF CommitFollowUp, Pursues, HistoryInv, AgedBefore
    <2> QED
      BY <2>4, <2>5, <2>6 DEF Answers, Late, Awaiting
  <1> QED
    BY <1>1, <1>2, <1>3, EscalationInvariant, PTL DEF Spec, OneFollowUpPerStall

=============================================================================
