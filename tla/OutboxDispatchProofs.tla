------------------------ MODULE OutboxDispatchProofs ------------------------
(***************************************************************************)
(* Proofs about OutboxDispatch: types; what a pass in the middle of an     *)
(* event may rely on; a recorded send is final; nobody a pass went through *)
(* is left without a row.  Then what was sent: nothing is recorded as sent *)
(* that was not accepted, and a message goes out once unless its attempt   *)
(* was disturbed or its record rolled back.  Last, all of this together:   *)
(* the dispatcher implements Mailbox.                                      *)
(***************************************************************************)
EXTENDS OutboxDispatch, FiniteSetTheorems, TLAPS

USE ConstantsAssumption

-----------------------------------------------------------------------------
(* Types.                                                                  *)

LEMMA RowTypes ==
  /\ NoRow \in Row /\ Queued \in Row /\ NoWrites \in [Recipients -> Row]
  /\ Idle \in PassState
BY DEF NoRow, Queued, Row, NoWrites, Idle, PassState

LEMMA MergeType ==
  ASSUME NEW row \in Row, NEW read \in Row, NEW new \in Row
  PROVE  Merge(row, read, new) \in Row
BY DEF Merge, Row

LEMMA PositionType ==
  ASSUME NEW e \in Events PROVE Position(e) \in Nat
<1> DEFINE S == {f \in Candidates : Precedes(f, e)}
<1>1. S \subseteq Events BY DEF Candidates
<1>2. IsFiniteSet(S) BY <1>1, FS_Subset
<1> QED BY <1>2, FS_CardinalityType DEF Position

LEMMA BatchType == {<<Position(e), e>> : e \in Selected} \in SUBSET (Nat \X Events)
<1>1. Selected \subseteq Events BY DEF Selected, Candidates
<1>2. \A e \in Selected : Position(e) \in Nat /\ e \in Events BY <1>1, PositionType
<1>3. \A e \in Selected : <<Position(e), e>> \in Nat \X Events BY <1>2
<1> QED BY <1>3

LEMMA BetweenType ==
  ASSUME NEW batch \in SUBSET (Nat \X Events)
  PROVE  Between(batch) \in PassState
BY RowTypes DEF Between, Idle, PassState

LEMMA LeaveType ==
  ASSUME NEW s \in PassState, NEW r
  PROVE  Leave(s, r) \in PassState
BY RowTypes DEF Leave, PassState

\* A step of p that leaves everything else alone keeps the types.
LEMMA GoType ==
  ASSUME TypeOK, NEW p \in Passes, NEW new \in PassState, Go(p, new)
  PROVE  pass' \in [Passes -> PassState] /\ pass'[p] = new
         /\ \A q \in Passes \ {p} : pass'[q] = pass[q]
BY DEF TypeOK, Go

LEMMA AttemptedType ==
  ASSUME NEW p \in Passes, pass[p] \in PassState,
         NEW o \in {"failed", "sent"}, NEW c \in {"none", "unreachable", "refused"}
  PROVE  Attempted(p, o, c) \in Row
BY DEF Attempted, Row, PassState

LEMMA WrittenType ==
  ASSUME TypeOK, NEW p \in Passes, NEW e \in Events, NEW r \in Recipients
  PROVE  Written(p, e, r) \in Row
BY DEF Written, TypeOK, PassState

-----------------------------------------------------------------------------
(* The invariant behind the properties: what a pass in the middle of an    *)
(* event knows about the rows it will write, and that others leave them    *)
(* alone.                                                                  *)

AtWork(s) == s.step \in {"recipient", "insert", "send", "flush"}

\* What a pass s may rely on, given the committed deliveries and the dropped.
\* Either it inserted the row it is about to fill in, or it read a failed one.
Sound(s, deliveries, forgotten) ==
  /\ ~AtWork(s) => s.event = NoEvent /\ s.wrote = NoWrites /\ s.covered = {}
  /\ AtWork(s) => s.event \in Events
  /\ s.step \in {"insert", "send", "flush"} <=> s.at # NoOne
  /\ s.at # NoOne => s.at \in s.todo
  /\ \A r \in Recipients \ {s.at} :
       /\ r \in s.todo => s.wrote[r] = NoRow
       /\ s.wrote[r] = NoRow \/ s.wrote[r].status \in {"failed", "sent"}
  /\ s.step = "insert" => s.wrote[s.at] = NoRow
  /\ s.step \in {"send", "flush"} =>
       \/ /\ s.read = Queued /\ s.wrote[s.at] = Queued
          /\ deliveries[s.event][s.at] = NoRow
       \/ /\ s.read.status = "failed" /\ s.wrote[s.at] = NoRow
          /\ deliveries[s.event][s.at] # NoRow
  /\ s.step = "flush" => s.new.status \in {"failed", "sent"}
  /\ AtWork(s) => \A r \in Recipients :
       /\ s.wrote[r] # NoRow /\ deliveries[s.event][r].status = "sent" => s.wrote[r].status = "sent"
       /\ r \in s.covered /\ r # s.at =>
            s.wrote[r] # NoRow \/ deliveries[s.event][r] # NoRow \/ r \in forgotten[s.event]

PassesAreSound == \A p \in Passes : Sound(pass[p], delivery, dropped)

Exclusive ==
  \A p, q \in Passes : \A e \in Events, r \in Recipients :
    Holds(p, e, r) /\ Holds(q, e, r) => p = q

CommittedRows ==
  \A e \in Events, r \in Recipients :
    \/ delivery[e][r] = NoRow
    \/ delivery[e][r].status \in {"failed", "sent"}

NobodyEverForgotten ==
  \A e \in Events, r \in Recipients :
    r \in told[e] /\ delivery[e][r] = NoRow => r \in dropped[e]

DispatchInv ==
  TypeOK /\ PassesAreSound /\ Exclusive /\ CommittedRows /\ NobodyEverForgotten

\* What one pass writes for an event is no business of the rest.
LEMMA OthersStaySound ==
  ASSUME TypeOK, NEW s \in PassState, Sound(s, delivery, dropped),
         \A e \in Events : dropped[e] \subseteq dropped'[e],
         \A e \in Events, r \in Recipients :
           /\ s.event = e /\ s.wrote[r] # NoRow => delivery'[e][r] = delivery[e][r]
           /\ delivery[e][r] # NoRow => delivery'[e][r] # NoRow
  PROVE  Sound(s, delivery', dropped')
<1>0. CASE ~AtWork(s) BY <1>0 DEF Sound, AtWork, PassState
<1>1. CASE AtWork(s)
  <2>1. s.event \in Events BY <1>1 DEF Sound
  <2>2. s.step \in {"send", "flush"} => s.at \in Recipients
    BY DEF Sound, PassState
  <2>3. Queued # NoRow BY DEF Queued, NoRow
  <2>4. s.step \in {"send", "flush"} =>
          \/ s.read = Queued /\ s.wrote[s.at] = Queued /\ delivery'[s.event][s.at] = NoRow
          \/ s.read.status = "failed" /\ s.wrote[s.at] = NoRow /\ delivery'[s.event][s.at] # NoRow
    BY <2>1, <2>2, <2>3 DEF Sound
  <2>5. \A r \in Recipients :
          /\ s.wrote[r] # NoRow /\ delivery'[s.event][r].status = "sent" => s.wrote[r].status = "sent"
          /\ r \in s.covered /\ r # s.at =>
               s.wrote[r] # NoRow \/ delivery'[s.event][r] # NoRow \/ r \in dropped'[s.event]
    BY <1>1, <2>1 DEF Sound
  <2> QED BY <1>1, <2>4, <2>5 DEF Sound
<1> QED BY <1>0, <1>1

\* A pass takes locks only where nobody else has one.
LEMMA StaysExclusive ==
  ASSUME Exclusive, NEW p \in Passes,
         \A q \in Passes \ {p} : pass'[q] = pass[q],
         \A e \in Events, r \in Recipients :
           Holds(p, e, r)' => Holds(p, e, r) \/ ~LockedForOthers(p, e, r)
  PROVE  Exclusive'
<1> SUFFICES ASSUME NEW q \in Passes, NEW o \in Passes, NEW e \in Events, NEW r \in Recipients,
                    Holds(q, e, r)', Holds(o, e, r)', q # o
             PROVE  FALSE
  BY DEF Exclusive
<1>1. \A x \in Passes \ {p} : Holds(x, e, r)' => Holds(x, e, r) BY DEF Holds
<1>2. ASSUME NEW x \in Passes \ {p}, Holds(x, e, r), Holds(p, e, r)' PROVE FALSE
  <2>1. LockedForOthers(p, e, r) BY <1>2 DEF LockedForOthers
  <2>2. Holds(p, e, r) BY <1>2, <2>1
  <2> QED BY <1>2, <2>2 DEF Exclusive
<1>3. CASE q # p /\ o # p BY <1>3, <1>1 DEF Exclusive
<1> QED BY <1>1, <1>2, <1>3

\* A step of p that commits nothing.
LEMMA StepOfOne ==
  ASSUME DispatchInv, NEW p \in Passes, NEW new \in PassState, Go(p, new),
         UNCHANGED <<delivery, told>>,
         \A e \in Events : dropped[e] \subseteq dropped'[e],
         Sound(new, delivery, dropped'),
         \A r \in Recipients : \A e \in Events :
           new.event = e /\ new.wrote[r] # NoRow => Holds(p, e, r) \/ ~LockedForOthers(p, e, r)
  PROVE  /\ pass' \in [Passes -> PassState]
         /\ PassesAreSound' /\ Exclusive' /\ CommittedRows' /\ NobodyEverForgotten'
<1>1. /\ pass' \in [Passes -> PassState] /\ pass'[p] = new
      /\ \A q \in Passes \ {p} : pass'[q] = pass[q]
  BY GoType DEF DispatchInv
<1>2. PassesAreSound'
  <2> SUFFICES ASSUME NEW q \in Passes PROVE Sound(pass'[q], delivery', dropped')
    BY DEF PassesAreSound
  <2>1. CASE q = p BY <2>1, <1>1
  <2>2. CASE q # p
    <3>1. pass'[q] = pass[q] /\ pass[q] \in PassState BY <1>1, <2>2 DEF DispatchInv, TypeOK
    <3>2. Sound(pass[q], delivery, dropped) BY DEF DispatchInv, PassesAreSound
    <3> QED BY <3>1, <3>2, OthersStaySound DEF DispatchInv
  <2> QED BY <2>1, <2>2
<1>3. \A e \in Events, r \in Recipients : Holds(p, e, r)' => Holds(p, e, r) \/ ~LockedForOthers(p, e, r)
  BY <1>1 DEF Holds
<1>4. Exclusive' BY <1>1, <1>3, StaysExclusive DEF DispatchInv
<1>5. CommittedRows' /\ NobodyEverForgotten'
  BY DEF DispatchInv, CommittedRows, NobodyEverForgotten
<1> QED BY <1>1, <1>2, <1>4, <1>5

-----------------------------------------------------------------------------
(* The steps of a pass, one by one.                                        *)

LEMMA RestingIsSound ==
  ASSUME NEW s, s.step \in {"idle", "event"}, s.event = NoEvent, s.wrote = NoWrites,
         s.covered = {}, s.todo = {}, s.at = NoOne, NEW d, NEW f
  PROVE  Sound(s, d, f)
<1>1. ~AtWork(s) BY DEF AtWork
<1>2. \A r \in Recipients : s.wrote[r] = NoRow BY DEF NoWrites
<1> QED BY <1>1, <1>2 DEF Sound

LEMMA BetweenIsSound ==
  ASSUME NEW batch \in SUBSET (Nat \X Events), NEW d, NEW f
  PROVE  Sound(Between(batch), d, f) /\ Between(batch).wrote = NoWrites
         /\ Between(batch).event = NoEvent
<1> DEFINE s == Between(batch)
<1>1. s.step \in {"idle", "event"} /\ s.event = NoEvent /\ s.wrote = NoWrites
      /\ s.covered = {} /\ s.todo = {} /\ s.at = NoOne
  BY DEF Between, Idle
<1> HIDE DEF s
<1> QED BY <1>1, RestingIsSound DEF s

LEMMA IdleIsSound ==
  ASSUME NEW d, NEW f PROVE Sound(Idle, d, f) /\ Idle.wrote = NoWrites /\ Idle.event = NoEvent
<1>1. Idle.step \in {"idle", "event"} /\ Idle.event = NoEvent /\ Idle.wrote = NoWrites
      /\ Idle.covered = {} /\ Idle.todo = {} /\ Idle.at = NoOne
  BY DEF Idle
<1> QED BY <1>1, RestingIsSound

LEMMA InitialDispatchInv == Init => DispatchInv
<1> SUFFICES ASSUME Init PROVE DispatchInv OBVIOUS
<1>1. TypeOK BY RowTypes DEF Init, TypeOK
<1>2. PassesAreSound BY IdleIsSound DEF Init, PassesAreSound
<1>3. Exclusive BY DEF Init, Exclusive, Holds, Idle, NoWrites
<1>4. CommittedRows /\ NobodyEverForgotten
  BY DEF Init, CommittedRows, NobodyEverForgotten, NoWrites
<1> QED BY <1>1, <1>2, <1>3, <1>4 DEF DispatchInv

\* The facts every step of p starts from.
LEMMA AtHand ==
  ASSUME DispatchInv, NEW p \in Passes
  PROVE  /\ pass[p] \in PassState /\ Sound(pass[p], delivery, dropped)
         /\ AtWork(pass[p]) => pass[p].event \in Events
         /\ pass[p].step \in {"insert", "send", "flush"} =>
              pass[p].at \in Recipients /\ pass[p].at \in pass[p].todo /\ AtWork(pass[p])
BY DEF DispatchInv, PassesAreSound, TypeOK, PassState, Sound, AtWork

LEMMA SelectKeeps ==
  ASSUME DispatchInv, NEW p \in Passes, Select(p) PROVE DispatchInv'
<1> DEFINE batch == {<<Position(e), e>> : e \in Selected}
<1>1. batch \in SUBSET (Nat \X Events) BY BatchType
<1> HIDE DEF batch
<1>2. Go(p, Between(batch)) BY DEF Select, batch
<1>3. Between(batch) \in PassState BY <1>1, BetweenType
<1>4. Sound(Between(batch), delivery, dropped') BY <1>1, BetweenIsSound
<1>5. UNCHANGED <<status, people, delivery, failures, history>> BY DEF Select
<1>6. \A e \in Events : Between(batch).event # e BY <1>1, BetweenIsSound
<1>7. /\ pass' \in [Passes -> PassState]
      /\ PassesAreSound' /\ Exclusive' /\ CommittedRows' /\ NobodyEverForgotten'
  BY <1>2, <1>3, <1>4, <1>5, <1>6, StepOfOne DEF history
<1>8. TypeOK' BY <1>5, <1>7 DEF DispatchInv, TypeOK, people, history
<1> QED BY <1>7, <1>8 DEF DispatchInv

LEMMA ResolveKeeps ==
  ASSUME DispatchInv, NEW p \in Passes, Resolve(p) PROVE DispatchInv'
<1>0. pass[p] \in PassState /\ Sound(pass[p], delivery, dropped) BY AtHand
<1>1. PICK next \in pass[p].batch :
        Go(p, [pass[p] EXCEPT
            !.step = "recipient", !.event = next[2], !.batch = @ \ {next}, !.todo = audience[next[2]],
            !.phoned = {r \in audience[next[2]] : "whatsapp" \in person[r].addresses}])
  BY DEF Resolve
<1> DEFINE new == [pass[p] EXCEPT
            !.step = "recipient", !.event = next[2], !.batch = @ \ {next}, !.todo = audience[next[2]],
            !.phoned = {r \in audience[next[2]] : "whatsapp" \in person[r].addresses}]
<1>2. next[2] \in Events BY <1>0 DEF PassState
<1>3. audience[next[2]] \subseteq Recipients BY <1>2 DEF DispatchInv, TypeOK
<1>4. new \in PassState BY <1>0, <1>2, <1>3 DEF PassState
<1>5. UNCHANGED <<status, people, delivery, failures, history>> /\ pass[p].step = "event"
  BY DEF Resolve
<1>6. new.wrote = NoWrites /\ new.covered = {} /\ new.at = NoOne /\ new.step = "recipient"
      /\ new.event = next[2]
  BY <1>0, <1>5 DEF PassState, Sound, AtWork
<1> HIDE DEF new
<1>7. Sound(new, delivery, dropped')
  BY <1>2, <1>4, <1>6 DEF Sound, AtWork, NoWrites, PassState
<1>8. \A r \in Recipients : new.wrote[r] = NoRow BY <1>6 DEF NoWrites
<1>9. Go(p, new) BY <1>1 DEF new
<1>10. /\ pass' \in [Passes -> PassState]
       /\ PassesAreSound' /\ Exclusive' /\ CommittedRows' /\ NobodyEverForgotten'
  BY <1>4, <1>5, <1>7, <1>8, <1>9, StepOfOne DEF history
<1>11. TypeOK' BY <1>5, <1>10 DEF DispatchInv, TypeOK, people, history
<1> QED BY <1>10, <1>11 DEF DispatchInv

LEMMA LeaveIsSound ==
  ASSUME NEW s \in PassState, AtWork(s), s.event \in Events, NEW r, NEW d, NEW f,
         \A x \in Recipients :
           /\ x \in s.todo /\ x # r => s.wrote[x] = NoRow
           /\ s.wrote[x] = NoRow \/ s.wrote[x].status \in {"failed", "sent"}
           /\ s.wrote[x] # NoRow /\ d[s.event][x].status = "sent" => s.wrote[x].status = "sent"
           /\ x \in s.covered =>
                s.wrote[x] # NoRow \/ d[s.event][x] # NoRow \/ x \in f[s.event]
  PROVE  Sound(Leave(s, r), d, f)
<1> DEFINE new == Leave(s, r)
<1>1. new.step = "recipient" /\ new.event = s.event /\ new.at = NoOne /\ new.wrote = s.wrote
      /\ new.covered = s.covered /\ new.todo = s.todo \ {r}
  BY DEF Leave, PassState
<1> HIDE DEF new
<1>2. AtWork(new) BY <1>1 DEF AtWork
<1> QED BY <1>1, <1>2 DEF Sound, new

\* A step of p that changes nothing but p.
LEMMA OnlyPass ==
  ASSUME DispatchInv, NEW p \in Passes, NEW new \in PassState, Go(p, new),
         UNCHANGED <<status, people, delivery, failures, history>>,
         Sound(new, delivery, dropped),
         \A r \in Recipients : \A e \in Events :
           new.event = e /\ new.wrote[r] # NoRow => Holds(p, e, r) \/ ~LockedForOthers(p, e, r)
  PROVE  DispatchInv'
<1>1. /\ pass' \in [Passes -> PassState]
      /\ PassesAreSound' /\ Exclusive' /\ CommittedRows' /\ NobodyEverForgotten'
  BY StepOfOne DEF history
<1>2. TypeOK' BY <1>1 DEF DispatchInv, TypeOK, people, history
<1> QED BY <1>1, <1>2 DEF DispatchInv

LEMMA LookKeeps ==
  ASSUME DispatchInv, NEW p \in Passes, Look(p) PROVE DispatchInv'
<1> DEFINE s == pass[p]
           e == s.event
<1>0. s \in PassState /\ Sound(s, delivery, dropped) /\ s.step = "recipient"
      /\ AtWork(s) /\ e \in Events /\ s.at = NoOne
      /\ UNCHANGED <<status, people, delivery, failures, history>>
  BY AtHand DEF Look, AtWork, Sound
<1>1. \A x \in Recipients :
        /\ x \in s.todo => s.wrote[x] = NoRow
        /\ s.wrote[x] = NoRow \/ s.wrote[x].status \in {"failed", "sent"}
        /\ s.wrote[x] # NoRow /\ delivery[e][x].status = "sent" => s.wrote[x].status = "sent"
        /\ x \in s.covered => s.wrote[x] # NoRow \/ delivery[e][x] # NoRow \/ x \in dropped[e]
  BY <1>0 DEF Sound
<1>2. PICK r \in s.todo :
       \/ Go(p, Leave(s, r))
       \/ /\ delivery[e][r].status = "failed"
          /\ Go(p, [s EXCEPT !.step = "send", !.at = r, !.read = delivery[e][r],
                             !.covered = @ \cup {r}])
       \/ /\ delivery[e][r] = NoRow
          /\ Go(p, [s EXCEPT !.step = "insert", !.at = r, !.covered = @ \cup {r}])
  BY DEF Look
<1>3. r \in Recipients /\ s.wrote[r] = NoRow BY <1>0, <1>1, <1>2 DEF PassState
<1>4. CASE Go(p, Leave(s, r))
  <2>1. Leave(s, r) \in PassState BY <1>0, LeaveType
  <2>2. Sound(Leave(s, r), delivery, dropped) BY <1>0, <1>1, LeaveIsSound
  <2>3. Leave(s, r).wrote = s.wrote /\ Leave(s, r).event = e BY <1>0 DEF Leave, PassState
  <2> QED BY <1>0, <1>4, <2>1, <2>2, <2>3, OnlyPass DEF Holds
<1>5. CASE /\ delivery[e][r].status = "failed"
           /\ Go(p, [s EXCEPT !.step = "send", !.at = r, !.read = delivery[e][r],
                              !.covered = @ \cup {r}])
  <2> DEFINE new == [s EXCEPT !.step = "send", !.at = r, !.read = delivery[e][r],
                              !.covered = @ \cup {r}]
  <2>9. delivery \in [Events -> [Recipients -> Row]] BY DEF DispatchInv, TypeOK
  <2>0. delivery[e][r] \in Row BY <1>0, <1>3, <2>9
  <2>1. new \in PassState BY <1>0, <1>3, <2>0 DEF PassState
  <2>2. new.step = "send" /\ new.at = r /\ new.read = delivery[e][r] /\ new.event = e
        /\ new.todo = s.todo /\ new.wrote = s.wrote /\ new.covered = s.covered \cup {r}
    BY <1>0 DEF PassState
  <2>3. delivery[e][r] # NoRow BY <1>5 DEF NoRow
  <2>4. Go(p, new) BY <1>5
  <2> HIDE DEF new
  <2>5. AtWork(new) BY <2>2 DEF AtWork
  <2>6. Sound(new, delivery, dropped)
    BY <1>0, <1>1, <1>2, <1>3, <1>5, <2>2, <2>3, <2>5 DEF Sound
  <2> QED BY <1>0, <2>1, <2>2, <2>4, <2>6, OnlyPass DEF Holds
<1>6. CASE /\ delivery[e][r] = NoRow
           /\ Go(p, [s EXCEPT !.step = "insert", !.at = r, !.covered = @ \cup {r}])
  <2> DEFINE new == [s EXCEPT !.step = "insert", !.at = r, !.covered = @ \cup {r}]
  <2>1. new \in PassState BY <1>0, <1>3 DEF PassState
  <2>2. new.step = "insert" /\ new.at = r /\ new.event = e
        /\ new.todo = s.todo /\ new.wrote = s.wrote /\ new.covered = s.covered \cup {r}
    BY <1>0 DEF PassState
  <2>4. Go(p, new) BY <1>6
  <2> HIDE DEF new
  <2>5. AtWork(new) BY <2>2 DEF AtWork
  <2>6. Sound(new, delivery, dropped)
    BY <1>0, <1>1, <1>2, <1>3, <2>2, <2>5 DEF Sound
  <2> QED BY <1>0, <2>1, <2>2, <2>4, <2>6, OnlyPass DEF Holds
<1> QED BY <1>2, <1>4, <1>5, <1>6

\* The outcome of an attempt is noted, not yet written.
LEMMA AnswerKeeps ==
  ASSUME DispatchInv, NEW p \in Passes, pass[p].step = "send",
         NEW row \in Row, row.status \in {"failed", "sent"}, Answer(p, row),
         UNCHANGED <<delivery, told, dropped>>
  PROVE  /\ pass' \in [Passes -> PassState]
         /\ PassesAreSound' /\ Exclusive' /\ CommittedRows' /\ NobodyEverForgotten'
<1> DEFINE s == pass[p]
           new == [s EXCEPT !.step = "flush", !.new = row]
<1>0. s \in PassState /\ Sound(s, delivery, dropped) /\ AtWork(s) /\ s.event \in Events
  BY AtHand DEF AtWork
<1>1. new \in PassState BY <1>0 DEF PassState
<1>2. new.step = "flush" /\ new.new = row /\ new.at = s.at /\ new.read = s.read
      /\ new.event = s.event /\ new.todo = s.todo /\ new.wrote = s.wrote /\ new.covered = s.covered
  BY <1>0 DEF PassState
<1>3. Go(p, new) BY DEF Answer
<1> HIDE DEF new
<1>4. AtWork(new) BY <1>2 DEF AtWork
<1>5. Sound(new, delivery, dropped)
  <2>1. /\ s.at \in s.todo
        /\ \/ /\ s.read = Queued /\ s.wrote[s.at] = Queued
              /\ delivery[s.event][s.at] = NoRow
           \/ /\ s.read.status = "failed" /\ s.wrote[s.at] = NoRow
              /\ delivery[s.event][s.at] # NoRow
    BY <1>0 DEF Sound
  <2>2. s.at # NoOne
        /\ \A r \in Recipients \ {s.at} :
             /\ r \in s.todo => s.wrote[r] = NoRow
             /\ s.wrote[r] = NoRow \/ s.wrote[r].status \in {"failed", "sent"}
    BY <1>0 DEF Sound
  <2>3. \A r \in Recipients :
          /\ s.wrote[r] # NoRow /\ delivery[s.event][r].status = "sent" => s.wrote[r].status = "sent"
          /\ r \in s.covered /\ r # s.at =>
               s.wrote[r] # NoRow \/ delivery[s.event][r] # NoRow \/ r \in dropped[s.event]
    BY <1>0 DEF Sound
  <2> HIDE DEF s
  <2> QED BY <1>0, <1>2, <1>4, <2>1, <2>2, <2>3 DEF Sound
<1>6. Sound(new, delivery, dropped') BY <1>5
<1> QED BY <1>0, <1>1, <1>2, <1>3, <1>6, StepOfOne DEF Holds

LEMMA RefuseOffboardedKeeps ==
  ASSUME DispatchInv, NEW p \in Passes, RefuseOffboarded(p) PROVE DispatchInv'
<1> DEFINE row == [pass[p].read EXCEPT !.status = "failed", !.code = "unreachable"]
<1>1. pass[p].read \in Row BY AtHand DEF PassState
<1>2. row \in Row /\ row.status = "failed" BY <1>1 DEF Row
<1>3. pass[p].step = "send" /\ Answer(p, row)
      /\ UNCHANGED <<status, people, delivery, failures, history>>
  BY DEF RefuseOffboarded
<1> HIDE DEF row
<1>4. /\ pass' \in [Passes -> PassState]
      /\ PassesAreSound' /\ Exclusive' /\ CommittedRows' /\ NobodyEverForgotten'
  BY <1>2, <1>3, AnswerKeeps DEF history
<1>5. TypeOK' BY <1>3, <1>4 DEF DispatchInv, TypeOK, people, history
<1> QED BY <1>4, <1>5 DEF DispatchInv

LEMMA RefuseUnaddressedKeeps ==
  ASSUME DispatchInv, NEW p \in Passes, RefuseUnaddressed(p) PROVE DispatchInv'
<1> DEFINE row == Attempted(p, "failed", "unreachable")
<1>1. row \in Row BY AtHand, AttemptedType
<1>2. row.status = "failed" BY DEF Attempted
<1>3. pass[p].step = "send" /\ Answer(p, row)
      /\ UNCHANGED <<status, people, delivery, failures, history>>
  BY DEF RefuseUnaddressed
<1> HIDE DEF row
<1>4. /\ pass' \in [Passes -> PassState]
      /\ PassesAreSound' /\ Exclusive' /\ CommittedRows' /\ NobodyEverForgotten'
  BY <1>1, <1>2, <1>3, AnswerKeeps DEF history
<1>5. TypeOK' BY <1>3, <1>4 DEF DispatchInv, TypeOK, people, history
<1> QED BY <1>4, <1>5 DEF DispatchInv

LEMMA SendKeeps ==
  ASSUME DispatchInv, NEW p \in Passes, Send(p) PROVE DispatchInv'
<1> DEFINE e == pass[p].event
           r == pass[p].at
<1>1. PICK accepted \in BOOLEAN, answered \in BOOLEAN :
       /\ ~(accepted /\ answered) => failures < MaxFailures
       /\ failures' = IF accepted /\ answered THEN failures ELSE failures + 1
       /\ inbox' = IF accepted THEN [inbox EXCEPT ![e][r] = @ + 1] ELSE inbox
       /\ disturbed' = IF ~answered \/ Overtaken(p)
                       THEN [disturbed EXCEPT ![e] = @ \cup {r}] ELSE disturbed
       /\ Answer(p, IF accepted /\ answered THEN Attempted(p, "sent", "none")
                    ELSE Attempted(p, "failed", "refused"))
  BY DEF Send
<1> DEFINE row == IF accepted /\ answered THEN Attempted(p, "sent", "none")
                  ELSE Attempted(p, "failed", "refused")
<1>2. row \in Row BY AtHand, AttemptedType
<1>3. row.status \in {"failed", "sent"} BY DEF Attempted
<1>4. pass[p].step = "send" /\ UNCHANGED <<status, people, delivery, told, dropped>> /\ Answer(p, row)
  BY <1>1 DEF Send
<1>5. e \in Events /\ r \in Recipients BY <1>4, AtHand
<1> HIDE DEF row
<1>6. /\ pass' \in [Passes -> PassState]
      /\ PassesAreSound' /\ Exclusive' /\ CommittedRows' /\ NobodyEverForgotten'
  BY <1>2, <1>3, <1>4, AnswerKeeps
<1> HIDE DEF e, r
<1>7. failures' \in 0..MaxFailures BY <1>1 DEF DispatchInv, TypeOK
<1>8. inbox' \in [Events -> [Recipients -> Nat]] BY <1>1, <1>5 DEF DispatchInv, TypeOK
<1>9. disturbed' \in [Events -> SUBSET Recipients] BY <1>1, <1>5 DEF DispatchInv, TypeOK
<1>10. TypeOK' BY <1>4, <1>6, <1>7, <1>8, <1>9 DEF DispatchInv, TypeOK, people
<1> QED BY <1>6, <1>10 DEF DispatchInv

LEMMA StillUnreachableKeeps ==
  ASSUME DispatchInv, NEW p \in Passes, StillUnreachable(p) PROVE DispatchInv'
<1> DEFINE s == pass[p]
           e == s.event
           r == s.at
<1>0. s \in PassState /\ Sound(s, delivery, dropped) /\ s.step = "send" /\ AtWork(s)
      /\ e \in Events /\ r \in Recipients /\ s.read.status = "failed"
      /\ UNCHANGED <<status, people, delivery, failures, history>> /\ Go(p, Leave(s, r))
  BY AtHand DEF StillUnreachable
<1> HIDE DEF s
<1>1. s.read # Queued BY <1>0 DEF Queued, NoRow
<1>2. s.wrote[r] = NoRow /\ delivery[e][r] # NoRow BY <1>0, <1>1 DEF Sound
<1>3. \A x \in Recipients :
        /\ x \in s.todo /\ x # r => s.wrote[x] = NoRow
        /\ s.wrote[x] = NoRow \/ s.wrote[x].status \in {"failed", "sent"}
        /\ s.wrote[x] # NoRow /\ delivery[e][x].status = "sent" => s.wrote[x].status = "sent"
        /\ x \in s.covered => s.wrote[x] # NoRow \/ delivery[e][x] # NoRow \/ x \in dropped[e]
  BY <1>0, <1>2 DEF Sound
<1>4. Leave(s, r) \in PassState BY <1>0, LeaveType
<1>5. Sound(Leave(s, r), delivery, dropped) BY <1>0, <1>3, LeaveIsSound
<1>6. Leave(s, r).wrote = s.wrote /\ Leave(s, r).event = e BY <1>0 DEF Leave, PassState
<1> USE DEF s
<1> QED BY <1>0, <1>4, <1>5, <1>6, OnlyPass DEF Holds

\* What is flushed over a row that was inserted, or read as failed.
LEMMA MergedStatus ==
  ASSUME NEW row \in Row, NEW read \in Row, NEW new \in Row, new.status \in {"failed", "sent"},
         \/ read = Queued /\ row = Queued
         \/ read.status = "failed" /\ row.status \in {"failed", "sent"}
  PROVE  LET merged == Merge(row, read, new) IN
         /\ merged.status \in {"failed", "sent"}
         /\ row.status = "sent" \/ new.status = "sent" => merged.status = "sent"
BY DEF Merge, Queued, NoRow

LEMMA FlushKeeps ==
  ASSUME DispatchInv, NEW p \in Passes, Flush(p) PROVE DispatchInv'
<1> DEFINE s == pass[p]
           e == s.event
           r == s.at
           row == Written(p, e, r)
           mine == IF s.new = s.read THEN s.wrote[r] ELSE Merge(row, s.read, s.new)
           wrote == [s.wrote EXCEPT ![r] = mine]
           filled == [s EXCEPT !.wrote = wrote]
           new == Leave(filled, r)
<1>0. s \in PassState /\ Sound(s, delivery, dropped) /\ s.step = "flush" /\ AtWork(s)
      /\ e \in Events /\ r \in Recipients /\ ~LockedForOthers(p, e, r)
      /\ UNCHANGED <<status, people, delivery, failures, history>>
  BY AtHand DEF Flush
<1>1. row \in Row BY <1>0, WrittenType DEF DispatchInv
<1>2. s.new \in Row /\ s.read \in Row /\ s.new.status \in {"failed", "sent"}
      /\ s.wrote \in [Recipients -> Row]
  BY <1>0 DEF Sound, PassState
<1>3. \/ s.read = Queued /\ s.wrote[r] = Queued /\ delivery[e][r] = NoRow
      \/ s.read.status = "failed" /\ s.wrote[r] = NoRow /\ delivery[e][r] # NoRow
  BY <1>0 DEF Sound
<1>4. CommittedRows BY DEF DispatchInv
<1>5. \/ s.read = Queued /\ row = Queued
      \/ s.read.status = "failed" /\ row = delivery[e][r] /\ row.status \in {"failed", "sent"}
  <2>1. Queued # NoRow BY DEF Queued, NoRow
  <2>2. CASE s.wrote[r] = Queued /\ s.read = Queued BY <2>1, <2>2 DEF Written
  <2>3. CASE s.read.status = "failed" /\ s.wrote[r] = NoRow /\ delivery[e][r] # NoRow
    BY <1>0, <1>4, <2>3 DEF Written, CommittedRows
  <2> QED BY <1>3, <2>2, <2>3
<1>6. /\ mine \in Row
      /\ mine = NoRow \/ mine.status \in {"failed", "sent"}
      /\ mine # NoRow \/ delivery[e][r] # NoRow
      /\ mine # NoRow /\ delivery[e][r].status = "sent" => mine.status = "sent"
  <2>1. CASE s.new = s.read
    <3>1. s.read # Queued BY <1>2, <2>1 DEF Queued, NoRow
    <3> QED BY <1>3, <2>1, <3>1, RowTypes
  <2>2. CASE s.new # s.read
    <3> HIDE DEF row, s
    <3>1. mine = Merge(row, s.read, s.new) BY <2>2
    <3>2. mine \in Row BY <1>1, <1>2, <3>1, MergeType
    <3>3. mine.status \in {"failed", "sent"} /\ (row.status = "sent" => mine.status = "sent")
      BY <1>1, <1>2, <1>5, <3>1, MergedStatus
    <3>4. mine # NoRow BY <3>3 DEF NoRow
    <3>5. delivery[e][r].status = "sent" => row.status = "sent"
      <4>1. CASE s.read = Queued
        <5>1. s.read.status # "failed" BY <4>1 DEF Queued, NoRow
        <5>2. delivery[e][r] = NoRow BY <1>3, <5>1
        <5> QED BY <5>2 DEF NoRow
      <4>2. CASE s.read # Queued
        <5>1. row = delivery[e][r] BY <1>5, <4>2
        <5> QED BY <5>1
      <4> QED BY <4>1, <4>2
    <3> QED BY <3>2, <3>3, <3>4, <3>5
  <2> QED BY <2>1, <2>2
<1>7. Go(p, [Leave(s, r) EXCEPT !.wrote[r] = IF s.new = s.read THEN @
                                             ELSE Merge(row, s.read, s.new)])
  BY DEF Flush
<1> HIDE DEF mine, row, s
<1>8. filled \in PassState /\ AtWork(filled) /\ filled.event = e /\ filled.wrote = wrote
      /\ filled.todo = s.todo /\ filled.covered = s.covered
  BY <1>0, <1>2, <1>6 DEF PassState, AtWork
<1>9. \A x \in Recipients : wrote[x] = IF x = r THEN mine ELSE s.wrote[x] BY <1>2
<1>10. \A x \in Recipients :
         /\ x \in s.todo /\ x # r => wrote[x] = NoRow
         /\ wrote[x] = NoRow \/ wrote[x].status \in {"failed", "sent"}
         /\ wrote[x] # NoRow /\ delivery[e][x].status = "sent" => wrote[x].status = "sent"
         /\ x \in s.covered => wrote[x] # NoRow \/ delivery[e][x] # NoRow \/ x \in dropped[e]
  BY <1>0, <1>6, <1>9 DEF Sound
<1> HIDE DEF wrote
<1>11. Sound(new, delivery, dropped) BY <1>0, <1>8, <1>10, LeaveIsSound
<1>12. new \in PassState BY <1>8, LeaveType
<1>13. [Leave(s, r) EXCEPT !.wrote[r] = IF s.new = s.read THEN @ ELSE Merge(row, s.read, s.new)]
         = new
  BY <1>0, <1>2 DEF Leave, PassState, wrote, mine
<1>14. Go(p, new) BY <1>7, <1>13
<1>15. new.event = e /\ new.wrote = wrote BY <1>8 DEF Leave, PassState
<1>16. ASSUME NEW x \in Recipients, NEW f \in Events, new.event = f, new.wrote[x] # NoRow
       PROVE  Holds(p, f, x) \/ ~LockedForOthers(p, f, x)
  BY <1>0, <1>9, <1>15, <1>16 DEF Holds, s
<1> HIDE DEF new
<1> QED BY <1>0, <1>11, <1>12, <1>14, <1>16, OnlyPass

LEMMA InsertKeeps ==
  ASSUME DispatchInv, NEW p \in Passes, Insert(p) PROVE DispatchInv'
<1> DEFINE s == pass[p]
           e == s.event
           r == s.at
           row == delivery[e][r]
           back == [s EXCEPT !.wrote = NoWrites]
<1>0. s \in PassState /\ Sound(s, delivery, dropped) /\ s.step = "insert" /\ AtWork(s)
      /\ e \in Events /\ r \in Recipients /\ r \in s.todo /\ ~LockedForOthers(p, e, r)
      /\ UNCHANGED <<status, people, delivery, failures, inbox, told, disturbed>>
  BY AtHand DEF Insert
<1>1. delivery \in [Events -> [Recipients -> Row]] /\ dropped \in [Events -> SUBSET Recipients]
  BY DEF DispatchInv, TypeOK
<1>2. r # NoOne /\ s.wrote[r] = NoRow
      /\ \A x \in Recipients \ {r} :
           /\ x \in s.todo => s.wrote[x] = NoRow
           /\ s.wrote[x] = NoRow \/ s.wrote[x].status \in {"failed", "sent"}
  BY <1>0 DEF Sound
<1>3. \A x \in Recipients :
        /\ s.wrote[x] # NoRow /\ delivery[e][x].status = "sent" => s.wrote[x].status = "sent"
        /\ x \in s.covered /\ x # r =>
             s.wrote[x] # NoRow \/ delivery[e][x] # NoRow \/ x \in dropped[e]
  BY <1>0 DEF Sound
<1>4. CASE /\ row = NoRow /\ UNCHANGED dropped
           /\ Go(p, [s EXCEPT !.step = "send", !.read = Queued, !.wrote[r] = Queued])
  <2> DEFINE new == [s EXCEPT !.step = "send", !.read = Queued, !.wrote[r] = Queued]
  <2>1. new \in PassState BY <1>0, RowTypes DEF PassState
  <2>2. new.step = "send" /\ new.read = Queued /\ new.event = e /\ new.at = r
        /\ new.todo = s.todo /\ new.covered = s.covered
        /\ \A x \in Recipients : new.wrote[x] = IF x = r THEN Queued ELSE s.wrote[x]
    BY <1>0 DEF PassState
  <2>3. Go(p, new) BY <1>4
  <2> HIDE DEF new, s
  <2>4. AtWork(new) BY <2>2 DEF AtWork
  <2>5. row.status # "sent" BY <1>4 DEF NoRow
  <2>6. Sound(new, delivery, dropped)
    BY <1>0, <1>2, <1>3, <1>4, <2>2, <2>4, <2>5 DEF Sound
  <2>7. ASSUME NEW x \in Recipients, NEW f \in Events, new.event = f, new.wrote[x] # NoRow
        PROVE  Holds(p, f, x) \/ ~LockedForOthers(p, f, x)
    BY <1>0, <2>2, <2>7 DEF Holds, s
  <2> QED BY <1>0, <1>4, <2>1, <2>3, <2>6, <2>7, OnlyPass DEF history
<1>5. CASE /\ row # NoRow
           /\ Go(p, IF row.status = "sent" THEN Leave(back, r)
                    ELSE [back EXCEPT !.step = "send", !.read = row])
           /\ dropped' = [dropped EXCEPT ![e] = @ \cup {q \in Recipients : s.wrote[q] # NoRow}]
  <2>1. back \in PassState /\ back.event = e /\ back.todo = s.todo /\ back.covered = s.covered
        /\ back.at = r /\ \A x \in Recipients : back.wrote[x] = NoRow
    BY <1>0, RowTypes DEF PassState, NoWrites
  <2>2. AtWork(back) BY <1>0, <2>1 DEF AtWork, PassState
  <2>3. row \in Row /\ (row.status = "failed" \/ row.status = "sent")
    BY <1>0, <1>1, <1>5 DEF DispatchInv, CommittedRows
  <2>4. dropped' \in [Events -> SUBSET Recipients]
        /\ \A f \in Events : dropped[f] \subseteq dropped'[f]
        /\ \A x \in Recipients : s.wrote[x] # NoRow => x \in dropped'[e]
    BY <1>0, <1>1, <1>5
  <2>5. \A x \in Recipients :
          x \in s.covered => delivery[e][x] # NoRow \/ x \in dropped'[e]
    BY <1>0, <1>3, <1>5, <2>4
  <2> DEFINE new == IF row.status = "sent" THEN Leave(back, r)
                    ELSE [back EXCEPT !.step = "send", !.read = row]
  <2>6. new \in PassState /\ Sound(new, delivery, dropped') /\ new.event = e
        /\ \A x \in Recipients : new.wrote[x] = NoRow
    <3> HIDE DEF back, row, s
    <3>1. CASE row.status = "sent"
      <4>1. new = Leave(back, r) BY <3>1
      <4>2. Leave(back, r) \in PassState BY <2>1, LeaveType
      <4>3. Sound(Leave(back, r), delivery, dropped') BY <1>0, <2>1, <2>2, <2>5, LeaveIsSound
      <4>4. Leave(back, r).event = back.event /\ Leave(back, r).wrote = back.wrote
        BY <2>1 DEF Leave, PassState
      <4> QED BY <2>1, <4>1, <4>2, <4>3, <4>4
    <3>2. CASE row.status # "sent"
      <4> DEFINE n == [back EXCEPT !.step = "send", !.read = row]
      <4>1. new = n BY <3>2
      <4>2. n \in PassState /\ n.step = "send" /\ n.read = row /\ n.at = r /\ n.event = e
            /\ n.todo = s.todo /\ n.covered = s.covered /\ n.wrote = back.wrote
        BY <2>1, <2>3 DEF PassState
      <4> HIDE DEF n
      <4>3. AtWork(n) BY <4>2 DEF AtWork
      <4>4. delivery[e][r] # NoRow /\ row.status = "failed" BY <1>5, <2>3, <3>2 DEF row
      <4>5. Sound(n, delivery, dropped')
        BY <1>0, <1>2, <2>1, <2>5, <4>2, <4>3, <4>4 DEF Sound
      <4> QED BY <2>1, <4>1, <4>2, <4>5
    <3> QED BY <3>1, <3>2
  <2>7. Go(p, new) BY <1>5
  <2> HIDE DEF new
  <2>8. UNCHANGED <<delivery, told>> BY <1>0
  <2>9. /\ pass' \in [Passes -> PassState]
        /\ PassesAreSound' /\ Exclusive' /\ CommittedRows' /\ NobodyEverForgotten'
    BY <2>4, <2>6, <2>7, <2>8, StepOfOne
  <2>10. TypeOK' BY <1>0, <2>4, <2>9 DEF DispatchInv, TypeOK, people
  <2> QED BY <2>9, <2>10 DEF DispatchInv
<1> QED BY <1>4, <1>5 DEF Insert

LEMMA CommitEventKeeps ==
  ASSUME DispatchInv, NEW p \in Passes, CommitEvent(p) PROVE DispatchInv'
<1> DEFINE s == pass[p]
           e == s.event
           rows == [r \in Recipients |-> Written(p, e, r)]
<1>0. s \in PassState /\ Sound(s, delivery, dropped) /\ s.step = "recipient" /\ AtWork(s)
      /\ e \in Events /\ s.at = NoOne
      /\ delivery' = [delivery EXCEPT ![e] = rows]
      /\ status' = [status EXCEPT ![e] = "dispatched"]
      /\ told' = [told EXCEPT ![e] = @ \cup s.covered]
      /\ Go(p, Between(s.batch))
      /\ UNCHANGED <<people, failures, inbox, dropped, disturbed>>
  BY AtHand DEF CommitEvent, AtWork, Sound
<1>1. \A r \in Recipients : Written(p, e, r) = IF s.wrote[r] # NoRow THEN s.wrote[r] ELSE delivery[e][r]
  BY DEF Written
<1>2. rows \in [Recipients -> Row] BY <1>0, WrittenType DEF DispatchInv
<1>3. delivery \in [Events -> [Recipients -> Row]] /\ told \in [Events -> SUBSET Recipients]
  BY DEF DispatchInv, TypeOK
<1>4. delivery' \in [Events -> [Recipients -> Row]] BY <1>0, <1>2, <1>3
<1>5. \A f \in Events, r \in Recipients :
        delivery'[f][r] = IF f = e /\ s.wrote[r] # NoRow THEN s.wrote[r] ELSE delivery[f][r]
  BY <1>0, <1>1, <1>3
<1>6. \A r \in Recipients :
        /\ s.wrote[r] = NoRow \/ s.wrote[r].status \in {"failed", "sent"}
        /\ r \in s.covered => s.wrote[r] # NoRow \/ delivery[e][r] # NoRow \/ r \in dropped[e]
  BY <1>0 DEF Sound
<1> HIDE DEF rows, s
<1>7. /\ Between(s.batch) \in PassState /\ Between(s.batch).event = NoEvent
      /\ \A d, f : Sound(Between(s.batch), d, f)
  <2>1. s.batch \in SUBSET (Nat \X Events) BY <1>0 DEF PassState
  <2> QED BY <2>1, BetweenType, BetweenIsSound
<1>8. /\ pass' \in [Passes -> PassState] /\ pass'[p] = Between(s.batch)
      /\ \A q \in Passes \ {p} : pass'[q] = pass[q]
  BY <1>0, <1>7, GoType DEF DispatchInv
<1>9. PassesAreSound'
  <2> SUFFICES ASSUME NEW q \in Passes, q # p PROVE Sound(pass'[q], delivery', dropped')
    BY <1>7, <1>8 DEF PassesAreSound
  <2>1. pass'[q] = pass[q] /\ pass[q] \in PassState /\ Sound(pass[q], delivery, dropped)
    BY <1>8, AtHand
  <2>2. ASSUME NEW f \in Events, NEW r \in Recipients, pass[q].event = f, pass[q].wrote[r] # NoRow
        PROVE  delivery'[f][r] = delivery[f][r]
    <3>1. Holds(q, f, r) BY <2>2 DEF Holds
    <3>2. ~Holds(p, f, r) BY <3>1 DEF DispatchInv, Exclusive
    <3>3. f # e \/ s.wrote[r] = NoRow BY <3>2 DEF Holds, s
    <3> QED BY <1>5, <3>3
  <2>3. \A f \in Events, r \in Recipients : delivery[f][r] # NoRow => delivery'[f][r] # NoRow
    BY <1>5
  <2>4. \A f \in Events : dropped[f] \subseteq dropped'[f] BY <1>0
  <2>5. Sound(pass[q], delivery', dropped')
    BY <2>1, <2>2, <2>3, <2>4, OthersStaySound DEF DispatchInv
  <2> QED BY <2>1, <2>5
<1>10. Exclusive'
  <2>1. ASSUME NEW f \in Events, NEW r \in Recipients PROVE ~Holds(p, f, r)'
    BY <1>7, <1>8 DEF Holds
  <2> QED BY <1>8, <2>1, StaysExclusive DEF DispatchInv
<1>11. CommittedRows'
  BY <1>5, <1>6 DEF DispatchInv, CommittedRows
<1>12. NobodyEverForgotten'
  <2> SUFFICES ASSUME NEW f \in Events, NEW r \in Recipients,
                      r \in told'[f], delivery'[f][r] = NoRow
               PROVE  r \in dropped[f]
    BY <1>0 DEF NobodyEverForgotten
  <2>1. delivery[f][r] = NoRow /\ (f = e => s.wrote[r] = NoRow) BY <1>5
  <2>2. CASE r \in told[f] BY <2>1, <2>2 DEF DispatchInv, NobodyEverForgotten
  <2>3. CASE f = e /\ r \in s.covered BY <1>6, <2>1, <2>3
  <2>4. r \in told[f] \/ (f = e /\ r \in s.covered) BY <1>0, <1>3
  <2> QED BY <2>2, <2>3, <2>4
<1>13. TypeOK'
  <2>1. status' \in [Events -> {"unborn", "pending", "dispatched"}]
    BY <1>0 DEF DispatchInv, TypeOK
  <2>2. s.covered \in SUBSET Recipients BY <1>0 DEF PassState
  <2>3. told' \in [Events -> SUBSET Recipients] BY <1>0, <1>3, <2>2
  <2> QED BY <1>0, <1>4, <1>8, <2>1, <2>3 DEF DispatchInv, TypeOK, people
<1> QED BY <1>9, <1>10, <1>11, <1>12, <1>13 DEF DispatchInv

LEMMA DieKeeps ==
  ASSUME DispatchInv, NEW p \in Passes, Die(p) PROVE DispatchInv'
<1>1. UNCHANGED <<status, people, delivery, inbox, told, dropped>> /\ Go(p, Idle)
      /\ failures < MaxFailures /\ failures' = failures + 1
  BY DEF Die, Abort
<1>2. disturbed' \in [Events -> SUBSET Recipients]
  <2>1. pass[p].event \in Events \cup {NoEvent} /\ disturbed \in [Events -> SUBSET Recipients]
    BY DEF DispatchInv, TypeOK, PassState
  <2>2. CASE pass[p].event = NoEvent BY <2>1, <2>2 DEF Die, Abort
  <2>3. CASE pass[p].event # NoEvent BY <2>1, <2>3 DEF Die, Abort
  <2> QED BY <2>2, <2>3
<1>3. \A f \in Events : Idle.event # f BY DEF Idle
<1>4. Idle \in PassState /\ Sound(Idle, delivery, dropped') BY RowTypes, IdleIsSound
<1>5. /\ pass' \in [Passes -> PassState]
      /\ PassesAreSound' /\ Exclusive' /\ CommittedRows' /\ NobodyEverForgotten'
  BY <1>1, <1>3, <1>4, StepOfOne
<1>6. failures' \in 0..MaxFailures BY <1>1 DEF DispatchInv, TypeOK
<1>7. TypeOK' BY <1>1, <1>2, <1>5, <1>6 DEF DispatchInv, TypeOK, people
<1> QED BY <1>5, <1>7 DEF DispatchInv

\* The rest of the system touches no pass and no delivery.
LEMMA EnvironmentKeeps ==
  ASSUME DispatchInv, Environment PROVE DispatchInv'
<1>1. UNCHANGED <<delivery, pass, failures, history>>
  BY DEF Environment, Emit, Toggle, Connect, Unlink, SetPhone, ClearPhone, SetActive, ChangePerson, ChangeAudience
<1>2. PassesAreSound' /\ Exclusive' /\ CommittedRows' /\ NobodyEverForgotten'
  BY <1>1 DEF DispatchInv, PassesAreSound, Exclusive, Holds, CommittedRows, NobodyEverForgotten, history
<1>3. ASSUME status' \in [Events -> {"unborn", "pending", "dispatched"}],
             audience' \in [Events -> SUBSET Recipients],
             person' \in [Recipients -> Person], changes' \in 0..MaxChanges
      PROVE  TypeOK'
  BY <1>1, <1>3 DEF DispatchInv, TypeOK, history
<1>4. ASSUME NEW e \in Events, Emit(e) PROVE TypeOK'
  <2>1. status' = [status EXCEPT ![e] = "pending"] /\ UNCHANGED people BY <1>4 DEF Emit
  <2>2. status' \in [Events -> {"unborn", "pending", "dispatched"}] BY <2>1 DEF DispatchInv, TypeOK
  <2> QED BY <1>3, <2>1, <2>2 DEF people, DispatchInv, TypeOK
<1>5. Changed => changes' \in 0..MaxChanges BY DEF Changed, DispatchInv, TypeOK
<1>6. ASSUME NEW r \in Recipients, NEW new \in Person, ChangePerson(r, new) PROVE TypeOK'
  BY <1>3, <1>5, <1>6 DEF ChangePerson, DispatchInv, TypeOK
<1>7. ASSUME NEW r \in Recipients,
             Toggle(r) \/ Connect(r) \/ Unlink(r) \/ SetPhone(r) \/ ClearPhone(r) \/ SetActive(r)
      PROVE  TypeOK'
  <2>1. person[r] \in Person BY DEF DispatchInv, TypeOK
  <2>2. CASE Toggle(r)
    <3>1. PICK c \in Channel : ChangePerson(r, [person[r] EXCEPT !.channel = c]) BY <2>2 DEF Toggle
    <3>2. [person[r] EXCEPT !.channel = c] \in Person BY <2>1 DEF Person
    <3> QED BY <1>6, <3>1, <3>2
  <2>3. CASE Connect(r)
    <3>1. [person[r] EXCEPT !.addresses = @ \cup {"telegram"}] \in Person
      BY <2>1 DEF Person, Channel
    <3> QED BY <1>6, <2>3, <3>1 DEF Connect
  <2>4. CASE Unlink(r)
    <3>1. [person[r] EXCEPT !.addresses = @ \ {"telegram"}] \in Person BY <2>1 DEF Person
    <3> QED BY <1>6, <2>4, <3>1 DEF Unlink
  <2>5. CASE SetPhone(r)
    <3>1. [person[r] EXCEPT !.addresses = @ \cup {"whatsapp"}] \in Person
      BY <2>1 DEF Person, Channel
    <3> QED BY <1>6, <2>5, <3>1 DEF SetPhone
  <2>6. CASE ClearPhone(r)
    <3>1. [person[r] EXCEPT !.addresses = @ \ {"whatsapp"}] \in Person BY <2>1 DEF Person
    <3> QED BY <1>6, <2>6, <3>1 DEF ClearPhone
  <2>7. CASE SetActive(r)
    <3>1. [person[r] EXCEPT !.active = ~@] \in Person BY <2>1 DEF Person
    <3> QED BY <1>6, <2>7, <3>1 DEF SetActive
  <2> QED BY <1>7, <2>2, <2>3, <2>4, <2>5, <2>6, <2>7
<1>8. ASSUME NEW e \in Events, NEW r \in Recipients, ChangeAudience(e, r) PROVE TypeOK'
  <2>1. changes' \in 0..MaxChanges BY <1>5, <1>8 DEF ChangeAudience
  <2>2. audience' \in [Events -> SUBSET Recipients]
    BY <1>8 DEF ChangeAudience, DispatchInv, TypeOK
  <2> QED BY <1>3, <1>8, <2>1, <2>2 DEF ChangeAudience, DispatchInv, TypeOK
<1> QED BY <1>2, <1>4, <1>7, <1>8 DEF Environment, DispatchInv

-----------------------------------------------------------------------------
(* The theorems.                                                           *)

LEMMA DispatchInvIsInductive ==
  ASSUME DispatchInv, [Next]_vars PROVE DispatchInv'
<1>1. ASSUME NEW p \in Passes, Dispatch(p) PROVE DispatchInv'
  BY <1>1, SelectKeeps, ResolveKeeps, LookKeeps, InsertKeeps, RefuseOffboardedKeeps,
     StillUnreachableKeeps, RefuseUnaddressedKeeps, SendKeeps, FlushKeeps, CommitEventKeeps
  DEF Dispatch
<1>2. CASE UNCHANGED vars
  BY <1>2 DEF vars, people, history, DispatchInv, TypeOK, PassesAreSound, Exclusive, Holds,
              CommittedRows, NobodyEverForgotten
<1> QED BY <1>1, <1>2, DieKeeps, EnvironmentKeeps DEF Next

\* Every reachable state satisfies the invariant of the dispatcher: each pass
\* in the middle of an event relies on rows the others leave alone
\* (message_dispatch.py:934-1041).
THEOREM DispatchInvariant == Spec => []DispatchInv
BY InitialDispatchInv, DispatchInvIsInductive, PTL DEF Spec

\* Every variable has its type: a delivery's failure code is one of the codes
\* the selection of retries tells apart.
THEOREM DispatchTypes == Spec => []TypeOK
<1>1. DispatchInv => TypeOK BY DEF DispatchInv
<1> QED BY <1>1, DispatchInvariant, PTL

\* For any number of passes, events and recipients, everybody a dispatched
\* event's passes went through has a delivery row, unless the rollback of a
\* refused insert took it away (message_dispatch.py:954-962).
THEOREM NobodyIsForgotten == Spec => []NobodyForgotten
<1>1. DispatchInv => NobodyForgotten
  BY DEF DispatchInv, NobodyEverForgotten, NobodyForgotten
<1> QED BY <1>1, DispatchInvariant, PTL

\* Only a commit changes a delivery, and the row it writes over a sent one is
\* sent: an overlapping retry never turns a recorded send into a failure.
THEOREM SendsAreFinal == Spec => RecordedSendIsFinal
<1> DEFINE Final == \A e \in Events, r \in Recipients :
                      delivery[e][r].status = "sent" => delivery'[e][r].status = "sent"
<1>1. ASSUME DispatchInv, [Next]_vars PROVE [Final]_vars
  <2>1. CASE UNCHANGED delivery BY <2>1
  <2>2. ASSUME NEW p \in Passes, CommitEvent(p) PROVE Final
    <3> DEFINE s == pass[p]
    <3>1. Sound(s, delivery, dropped) /\ AtWork(s) /\ s.event \in Events
      BY <1>1, <2>2, AtHand DEF CommitEvent, AtWork
    <3>2. \A f \in Events, r \in Recipients :
            delivery'[f][r] = IF f = s.event /\ s.wrote[r] # NoRow THEN s.wrote[r] ELSE delivery[f][r]
      <4>1. delivery \in [Events -> [Recipients -> Row]] BY <1>1 DEF DispatchInv, TypeOK
      <4> QED BY <2>2, <4>1 DEF CommitEvent, Written
    <3>3. \A r \in Recipients : s.wrote[r] # NoRow /\ delivery[s.event][r].status = "sent"
                                 => s.wrote[r].status = "sent"
      BY <3>1 DEF Sound
    <3> HIDE DEF s
    <3> QED BY <3>2, <3>3
  <2>3. UNCHANGED delivery \/ \E p \in Passes : CommitEvent(p)
    BY <1>1 DEF Next, Environment, Dispatch, Select, Resolve, Look, Insert, RefuseOffboarded,
       StillUnreachable, RefuseUnaddressed, Send, Flush, Die, Abort, Emit, Toggle, Connect, Unlink,
       SetPhone, ClearPhone, SetActive, ChangePerson, ChangeAudience, vars
  <2> QED BY <2>1, <2>2, <2>3
<1>2. [][Final]_vars <=> RecordedSendIsFinal BY DEF RecordedSendIsFinal
<1> HIDE DEF Final
<1> QED BY <1>1, <1>2, DispatchInvariant, PTL DEF Spec

-----------------------------------------------------------------------------
HIDE ConstantsAssumption

(* A pass carries the record of an accepted message from the provider's    *)
(* answer to its commit.                                                   *)

Carries(s, e, r) ==
  /\ s.event = e
  /\ s.wrote[r].status = "sent" \/ (s.step = "flush" /\ s.at = r /\ s.new.status = "sent")

CarriedIsReceived ==
  \A p \in Passes : \A e \in Events, r \in Recipients :
    Carries(pass[p], e, r) => inbox[e][r] >= 1

\* Every message that went out is recorded, about to be, or disturbed.
AccountedFor ==
  \A e \in Events, r \in Recipients :
    \/ r \in disturbed[e] \cup dropped[e]
    \/ inbox[e][r] = 0
    \/ /\ inbox[e][r] = 1
       /\ delivery[e][r].status = "sent" \/ \E p \in Passes : Carries(pass[p], e, r)

ReceiptInv == RecordedIsReceived /\ CarriedIsReceived /\ AccountedFor

\* A step of p in which the provider accepts nothing and nothing is committed.
LEMMA CarriedOn ==
  ASSUME DispatchInv, ReceiptInv, NEW p \in Passes, NEW new \in PassState, Go(p, new),
         UNCHANGED <<delivery, inbox>>,
         \A e \in Events : disturbed[e] \subseteq disturbed'[e] /\ dropped[e] \subseteq dropped'[e],
         \A e \in Events, r \in Recipients :
           /\ Carries(new, e, r) => Carries(pass[p], e, r) \/ inbox[e][r] >= 1
           /\ Carries(pass[p], e, r) => Carries(new, e, r) \/ r \in disturbed'[e] \cup dropped'[e]
  PROVE  ReceiptInv'
<1>1. pass'[p] = new /\ \A q \in Passes \ {p} : pass'[q] = pass[q] BY GoType DEF DispatchInv
<1>2. RecordedIsReceived' BY DEF ReceiptInv, RecordedIsReceived
<1>3. CarriedIsReceived'
  <2> SUFFICES ASSUME NEW q \in Passes, NEW e \in Events, NEW r \in Recipients,
                      Carries(pass'[q], e, r)
               PROVE  inbox[e][r] >= 1
    BY DEF CarriedIsReceived, Carries
  <2>1. CASE q = p BY <1>1, <2>1 DEF ReceiptInv, CarriedIsReceived
  <2>2. CASE q # p BY <1>1, <2>2 DEF ReceiptInv, CarriedIsReceived
  <2> QED BY <2>1, <2>2
<1>4. AccountedFor'
  <2> SUFFICES ASSUME NEW e \in Events, NEW r \in Recipients,
                      r \notin disturbed'[e] \cup dropped'[e], inbox[e][r] # 0
               PROVE  /\ inbox[e][r] = 1
                      /\ delivery[e][r].status = "sent" \/ \E q \in Passes : Carries(pass'[q], e, r)
    BY DEF AccountedFor, Carries
  <2>1. /\ inbox[e][r] = 1
        /\ delivery[e][r].status = "sent" \/ \E q \in Passes : Carries(pass[q], e, r)
    BY DEF ReceiptInv, AccountedFor
  <2>2. ASSUME NEW q \in Passes, Carries(pass[q], e, r) PROVE Carries(pass'[q], e, r)
    <3>1. CASE q = p BY <1>1, <2>2, <3>1
    <3>2. CASE q # p BY <1>1, <2>2, <3>2
    <3> QED BY <3>1, <3>2
  <2> QED BY <2>1, <2>2
<1> QED BY <1>2, <1>3, <1>4 DEF ReceiptInv

\* A pass between events, or about to look at a recipient with nothing
\* written, carries nothing.
LEMMA NothingCarried ==
  ASSUME NEW s, s.step # "flush", NEW e, NEW r \in Recipients, s.wrote = NoWrites
  PROVE  ~Carries(s, e, r)
BY DEF Carries, NoWrites, NoRow

LEMMA SelectCarries ==
  ASSUME DispatchInv, ReceiptInv, NEW p \in Passes, Select(p) PROVE ReceiptInv'
<1> DEFINE batch == {<<Position(e), e>> : e \in Selected}
<1>1. batch \in SUBSET (Nat \X Events) BY BatchType
<1> HIDE DEF batch
<1>2. Go(p, Between(batch)) BY DEF Select, batch
<1>3. Between(batch) \in PassState /\ Between(batch).wrote = NoWrites
      /\ Between(batch).step # "flush"
  BY <1>1, BetweenType, BetweenIsSound DEF Between, Idle
<1>4. UNCHANGED <<delivery, history>> /\ pass[p].step = "idle" BY DEF Select
<1>5. pass[p].wrote = NoWrites BY <1>4, AtHand DEF Sound, AtWork
<1>6. \A e \in Events, r \in Recipients : ~Carries(Between(batch), e, r) /\ ~Carries(pass[p], e, r)
  BY <1>3, <1>4, <1>5, NothingCarried
<1> QED BY <1>2, <1>3, <1>4, <1>6, CarriedOn DEF history

LEMMA ResolveCarries ==
  ASSUME DispatchInv, ReceiptInv, NEW p \in Passes, Resolve(p) PROVE ReceiptInv'
<1> DEFINE s == pass[p]
<1>0. s \in PassState /\ s.step = "event" /\ s.wrote = NoWrites
      /\ UNCHANGED <<delivery, history>>
  BY AtHand DEF Resolve, Sound, AtWork
<1>1. PICK next \in s.batch :
        Go(p, [s EXCEPT
            !.step = "recipient", !.event = next[2], !.batch = @ \ {next}, !.todo = audience[next[2]],
            !.phoned = {r \in audience[next[2]] : "whatsapp" \in person[r].addresses}])
  BY DEF Resolve
<1> DEFINE new == [s EXCEPT
            !.step = "recipient", !.event = next[2], !.batch = @ \ {next}, !.todo = audience[next[2]],
            !.phoned = {r \in audience[next[2]] : "whatsapp" \in person[r].addresses}]
<1>2. next[2] \in Events BY <1>0 DEF PassState
<1>3. audience[next[2]] \subseteq Recipients BY <1>2 DEF DispatchInv, TypeOK
<1>4. new \in PassState BY <1>0, <1>2, <1>3 DEF PassState
<1>5. new.step = "recipient" /\ new.wrote = NoWrites BY <1>0 DEF PassState
<1>6. Go(p, new) BY <1>1
<1> HIDE DEF new, s
<1>7. \A e \in Events, r \in Recipients : ~Carries(new, e, r) /\ ~Carries(s, e, r)
  BY <1>0, <1>5, NothingCarried
<1> QED BY <1>0, <1>4, <1>6, <1>7, CarriedOn DEF history, s

\* A pass that writes nothing and stays out of the flush carries what it did.
LEMMA CarriesAsBefore ==
  ASSUME NEW s, NEW new, s.step # "flush", new.event = s.event, new.wrote = s.wrote,
         \/ new.step # "flush"
         \/ new.new.status # "sent",
         NEW e, NEW r
  PROVE  Carries(new, e, r) <=> Carries(s, e, r)
BY DEF Carries

LEMMA LookCarries ==
  ASSUME DispatchInv, ReceiptInv, NEW p \in Passes, Look(p) PROVE ReceiptInv'
<1> DEFINE s == pass[p]
           e == s.event
<1>0. s \in PassState /\ s.step = "recipient" /\ e \in Events
      /\ UNCHANGED <<delivery, history>>
  BY AtHand DEF Look, AtWork
<1>1. PICK r \in s.todo :
       \/ Go(p, Leave(s, r))
       \/ Go(p, [s EXCEPT !.step = "send", !.at = r, !.read = delivery[e][r],
                          !.covered = @ \cup {r}])
       \/ Go(p, [s EXCEPT !.step = "insert", !.at = r, !.covered = @ \cup {r}])
  BY DEF Look
<1>2. r \in Recipients BY <1>0 DEF PassState
<1>3. delivery[e][r] \in Row BY <1>0, <1>2 DEF DispatchInv, TypeOK
<1>4. PICK new \in PassState : Go(p, new) /\ new.event = s.event /\ new.wrote = s.wrote /\ new.step # "flush"
  <2>1. CASE Go(p, Leave(s, r))
    <3>1. Leave(s, r) \in PassState BY <1>0, LeaveType
    <3>2. Leave(s, r).event = s.event /\ Leave(s, r).wrote = s.wrote /\ Leave(s, r).step # "flush"
      BY <1>0 DEF Leave, PassState
    <3> QED BY <2>1, <3>1, <3>2
  <2>2. ASSUME NEW step \in {"send", "insert"}, NEW read \in Row,
               Go(p, [s EXCEPT !.step = step, !.at = r, !.read = read, !.covered = @ \cup {r}])
        PROVE  \E new \in PassState :
                 Go(p, new) /\ new.event = s.event /\ new.wrote = s.wrote /\ new.step # "flush"
    <3> DEFINE n == [s EXCEPT !.step = step, !.at = r, !.read = read, !.covered = @ \cup {r}]
    <3>1. n \in PassState /\ n.event = s.event /\ n.wrote = s.wrote /\ n.step # "flush"
      BY <1>0, <1>2 DEF PassState
    <3> HIDE DEF n
    <3>2. Go(p, n) BY <2>2 DEF n
    <3> QED BY <3>1, <3>2
  <2>3. CASE Go(p, [s EXCEPT !.step = "insert", !.at = r, !.covered = @ \cup {r}])
    <3>1. s.read \in Row BY <1>0 DEF PassState
    <3>2. [s EXCEPT !.step = "insert", !.at = r, !.covered = @ \cup {r}]
          = [s EXCEPT !.step = "insert", !.at = r, !.read = s.read, !.covered = @ \cup {r}]
      BY <1>0 DEF PassState
    <3> QED BY <2>2, <2>3, <3>1, <3>2
  <2> QED BY <1>1, <1>3, <2>1, <2>2, <2>3
<1> HIDE DEF s
<1>5. \A f \in Events, x \in Recipients : Carries(new, f, x) <=> Carries(s, f, x)
  BY <1>0, <1>4, CarriesAsBefore
<1> QED BY <1>0, <1>4, <1>5, CarriedOn DEF history, s

LEMMA InsertCarries ==
  ASSUME DispatchInv, ReceiptInv, NEW p \in Passes, Insert(p) PROVE ReceiptInv'
<1> DEFINE s == pass[p]
           e == s.event
           r == s.at
           row == delivery[e][r]
           back == [s EXCEPT !.wrote = NoWrites]
<1>0. s \in PassState /\ s.step = "insert" /\ e \in Events /\ r \in Recipients
      /\ UNCHANGED <<delivery, inbox, told, disturbed>> /\ s.wrote[r] = NoRow
  BY AtHand DEF Insert, Sound
<1>1. delivery \in [Events -> [Recipients -> Row]] /\ dropped \in [Events -> SUBSET Recipients]
  BY DEF DispatchInv, TypeOK
<1>2. CASE /\ row = NoRow /\ UNCHANGED dropped
           /\ Go(p, [s EXCEPT !.step = "send", !.read = Queued, !.wrote[r] = Queued])
  <2> DEFINE new == [s EXCEPT !.step = "send", !.read = Queued, !.wrote[r] = Queued]
  <2>1. new \in PassState BY <1>0, RowTypes DEF PassState
  <2>2. new.step = "send" /\ new.event = e
        /\ \A x \in Recipients : new.wrote[x] = IF x = r THEN Queued ELSE s.wrote[x]
    BY <1>0 DEF PassState
  <2>3. Go(p, new) BY <1>2
  <2> HIDE DEF new, s
  <2>4. NoRow.status # "sent" /\ Queued.status # "sent" BY DEF Queued, NoRow
  <2>5. \A f \in Events, x \in Recipients : Carries(new, f, x) <=> Carries(s, f, x)
    BY <1>0, <2>2, <2>4 DEF Carries
  <2> QED BY <1>0, <1>2, <2>1, <2>3, <2>5, CarriedOn DEF s
<1>3. CASE /\ row # NoRow
           /\ Go(p, IF row.status = "sent" THEN Leave(back, r)
                    ELSE [back EXCEPT !.step = "send", !.read = row])
           /\ dropped' = [dropped EXCEPT ![e] = @ \cup {q \in Recipients : s.wrote[q] # NoRow}]
  <2> DEFINE new == IF row.status = "sent" THEN Leave(back, r)
                    ELSE [back EXCEPT !.step = "send", !.read = row]
  <2>1. back \in PassState BY <1>0, RowTypes DEF PassState
  <2>2. row \in Row BY <1>0, <1>1
  <2>3. Leave(back, r) \in PassState BY <2>1, LeaveType
  <2>4. [back EXCEPT !.step = "send", !.read = row] \in PassState BY <2>1, <2>2 DEF PassState
  <2>5. new \in PassState BY <2>3, <2>4
  <2>6. new.wrote = NoWrites /\ new.step # "flush" BY <2>1 DEF Leave, PassState
  <2>7. Go(p, new) BY <1>3
  <2>8. \A f \in Events : dropped[f] \subseteq dropped'[f] BY <1>0, <1>1, <1>3
  <2>9. \A x \in Recipients : s.wrote[x] # NoRow => x \in dropped'[e] BY <1>0, <1>1, <1>3
  <2> HIDE DEF new, back, row, s
  <2>10. ASSUME NEW f \in Events, NEW x \in Recipients
         PROVE  ~Carries(new, f, x) /\ (Carries(s, f, x) => x \in dropped'[f])
    <3>1. NoRow.status # "sent" BY DEF NoRow
    <3> QED BY <1>0, <2>6, <2>9, <3>1, NothingCarried DEF Carries
  <2> QED BY <1>0, <2>5, <2>7, <2>8, <2>10, CarriedOn DEF s
<1> QED BY <1>2, <1>3 DEF Insert

\* An attempt that reached nobody.
LEMMA RefusalCarries ==
  ASSUME DispatchInv, ReceiptInv, NEW p \in Passes, pass[p].step = "send", NEW row \in Row,
         row.status = "failed", Answer(p, row), UNCHANGED <<delivery, history>>
  PROVE  ReceiptInv'
<1> DEFINE s == pass[p]
           new == [s EXCEPT !.step = "flush", !.new = row]
<1>1. s \in PassState BY AtHand
<1>2. new \in PassState /\ new.event = s.event /\ new.wrote = s.wrote /\ new.new.status # "sent"
  BY <1>1 DEF PassState
<1>3. Go(p, new) BY DEF Answer
<1> HIDE DEF new
<1>4. \A e \in Events, r \in Recipients : Carries(new, e, r) <=> Carries(s, e, r)
  BY <1>2, CarriesAsBefore
<1> QED BY <1>2, <1>3, <1>4, CarriedOn DEF history

LEMMA RefuseOffboardedCarries ==
  ASSUME DispatchInv, ReceiptInv, NEW p \in Passes, RefuseOffboarded(p) PROVE ReceiptInv'
<1> DEFINE row == [pass[p].read EXCEPT !.status = "failed", !.code = "unreachable"]
<1>1. pass[p].read \in Row BY AtHand DEF PassState
<1>2. row \in Row /\ row.status = "failed" BY <1>1 DEF Row
<1> QED BY <1>2, RefusalCarries DEF RefuseOffboarded

LEMMA RefuseUnaddressedCarries ==
  ASSUME DispatchInv, ReceiptInv, NEW p \in Passes, RefuseUnaddressed(p) PROVE ReceiptInv'
<1> DEFINE row == Attempted(p, "failed", "unreachable")
<1>1. row \in Row BY AtHand, AttemptedType
<1>2. row.status = "failed" BY DEF Attempted
<1> HIDE DEF row
<1>3. pass[p].step = "send" /\ Answer(p, row) /\ UNCHANGED <<delivery, history>>
  BY DEF RefuseUnaddressed, row
<1> QED BY <1>1, <1>2, <1>3, RefusalCarries

LEMMA StillUnreachableCarries ==
  ASSUME DispatchInv, ReceiptInv, NEW p \in Passes, StillUnreachable(p) PROVE ReceiptInv'
<1> DEFINE s == pass[p]
           new == Leave(s, s.at)
<1>1. s \in PassState /\ s.step = "send" /\ Go(p, new) /\ UNCHANGED <<delivery, history>>
  BY AtHand DEF StillUnreachable
<1>2. new \in PassState BY <1>1, LeaveType
<1>3. new.event = s.event /\ new.wrote = s.wrote /\ new.step = "recipient"
  BY <1>1 DEF Leave, PassState
<1> HIDE DEF new
<1>4. \A e \in Events, r \in Recipients : Carries(new, e, r) <=> Carries(s, e, r)
  BY <1>1, <1>3, CarriesAsBefore
<1> QED BY <1>1, <1>2, <1>4, CarriedOn DEF history

\* Whoever sends with the row it inserted, or with a failure nobody else is
\* at, sends the first message there is.
LEMMA FirstSend ==
  ASSUME DispatchInv, ReceiptInv, NEW p \in Passes, pass[p].step = "send", ~Overtaken(p),
         pass[p].at \notin disturbed[pass[p].event] \cup dropped[pass[p].event]
  PROVE  inbox[pass[p].event][pass[p].at] = 0
<1> DEFINE s == pass[p]
           e == s.event
           r == s.at
<1>0. s \in PassState /\ Sound(s, delivery, dropped) /\ e \in Events /\ r \in Recipients BY AtHand
<1>1. delivery[e][r].status # "sent"
  <2>1. CASE s.read.status = "failed" BY <2>1 DEF Overtaken
  <2>2. CASE s.read.status # "failed"
    <3>1. delivery[e][r] = NoRow BY <1>0, <2>2 DEF Sound
    <3> QED BY <3>1 DEF NoRow
  <2> QED BY <2>1, <2>2
<1>2. ASSUME NEW q \in Passes, Carries(pass[q], e, r) PROVE FALSE
  <2>1. pass[q] \in PassState /\ Sound(pass[q], delivery, dropped) BY AtHand
  <2>2. NoRow.status # "sent" /\ Queued.status # "sent" /\ Queued # NoRow
        /\ Queued.status # "failed"
    BY DEF NoRow, Queued
  <2>3. s.wrote[r] = Queued \/ s.wrote[r] = NoRow BY <1>0 DEF Sound
  <2>4. CASE q = p BY <1>2, <2>2, <2>3, <2>4 DEF Carries
  <2>5. CASE q # p /\ s.read.status = "failed"
    <3>1. ~Holds(q, e, r) BY <2>5 DEF Overtaken, LockedForOthers
    <3>2. pass[q].step = "flush" /\ pass[q].at = r /\ pass[q].event = e
      BY <1>2, <2>2, <3>1 DEF Carries, Holds
    <3> QED BY <2>5, <3>2 DEF Overtaken
  <2>6. CASE q # p /\ s.read.status # "failed"
    <3>1. s.wrote[r] = Queued /\ delivery[e][r] = NoRow BY <1>0, <2>6 DEF Sound
    <3>2. Holds(p, e, r) BY <2>2, <3>1 DEF Holds
    <3>3. ~Holds(q, e, r) BY <1>0, <2>6, <3>2 DEF DispatchInv, Exclusive
    <3>4. pass[q].event = e /\ pass[q].wrote[r] = NoRow BY <1>2, <3>3 DEF Carries, Holds
    <3>5. pass[q].step = "flush" /\ pass[q].at = r BY <1>2, <2>2, <3>4 DEF Carries
    <3>6. delivery[e][r] # NoRow BY <2>1, <2>2, <3>4, <3>5 DEF Sound
    <3> QED BY <3>1, <3>6
  <2> QED BY <2>4, <2>5, <2>6
<1> HIDE DEF s
<1>3. r \notin disturbed[e] \cup dropped[e] BY DEF s
<1>4. inbox[e][r] = 0 BY <1>0, <1>1, <1>2, <1>3 DEF ReceiptInv, AccountedFor
<1> QED BY <1>4 DEF s

LEMMA SendCarries ==
  ASSUME DispatchInv, ReceiptInv, NEW p \in Passes, Send(p) PROVE ReceiptInv'
<1> DEFINE s == pass[p]
           e == s.event
           r == s.at
<1>1. PICK accepted \in BOOLEAN, answered \in BOOLEAN :
       /\ accepted \/ answered
       /\ inbox' = IF accepted THEN [inbox EXCEPT ![e][r] = @ + 1] ELSE inbox
       /\ disturbed' = IF ~answered \/ Overtaken(p)
                       THEN [disturbed EXCEPT ![e] = @ \cup {r}] ELSE disturbed
       /\ Answer(p, IF accepted /\ answered THEN Attempted(p, "sent", "none")
                    ELSE Attempted(p, "failed", "refused"))
  BY DEF Send
<1> DEFINE row == IF accepted /\ answered THEN Attempted(p, "sent", "none")
                  ELSE Attempted(p, "failed", "refused")
           new == [s EXCEPT !.step = "flush", !.new = row]
<1>2. row \in Row /\ row.status = (IF accepted /\ answered THEN "sent" ELSE "failed")
  BY AtHand, AttemptedType DEF Attempted
<1>3. s \in PassState /\ s.step = "send" /\ e \in Events /\ r \in Recipients
      /\ UNCHANGED <<delivery, dropped>>
  BY AtHand DEF Send
<1> HIDE DEF row
<1>4. new \in PassState /\ new.event = e /\ new.at = r /\ new.wrote = s.wrote
      /\ new.step = "flush" /\ new.new = row
  BY <1>2, <1>3 DEF PassState
<1>5. Go(p, new) BY <1>1 DEF Answer, row
<1>6. pass'[p] = new /\ \A q \in Passes \ {p} : pass'[q] = pass[q]
  BY <1>4, <1>5, GoType DEF DispatchInv
<1>7. inbox \in [Events -> [Recipients -> Nat]] /\ disturbed \in [Events -> SUBSET Recipients]
  BY DEF DispatchInv, TypeOK
<1>8. ~answered \/ Overtaken(p) => r \in disturbed'[e] BY <1>1, <1>3, <1>7
<1>9. \A f \in Events : disturbed[f] \subseteq disturbed'[f] BY <1>1, <1>3, <1>7
<1>10. \A f \in Events, x \in Recipients :
         inbox'[f][x] = IF accepted /\ f = e /\ x = r THEN inbox[f][x] + 1 ELSE inbox[f][x]
  BY <1>1, <1>3, <1>7
<1>11. Overtaken(p) \/ r \in disturbed[e] \cup dropped[e] \/ inbox[e][r] = 0
  BY <1>3, FirstSend
<1> HIDE DEF s, new
<1>12. \A f \in Events, x \in Recipients :
         Carries(new, f, x) <=>
           Carries(s, f, x) \/ (f = e /\ x = r /\ accepted /\ answered)
  BY <1>2, <1>3, <1>4 DEF Carries
<1>13. RecordedIsReceived'
  BY <1>3, <1>7, <1>10 DEF ReceiptInv, RecordedIsReceived
<1>14. CarriedIsReceived'
  <2> SUFFICES ASSUME NEW q \in Passes, NEW f \in Events, NEW x \in Recipients,
                      Carries(pass'[q], f, x)
               PROVE  inbox'[f][x] >= 1
    BY DEF CarriedIsReceived, Carries
  <2>1. inbox[f][x] \in Nat BY <1>7
  <2>2. CASE Carries(pass[q], f, x)
    <3>1. inbox[f][x] >= 1 BY <2>2 DEF ReceiptInv, CarriedIsReceived
    <3> QED BY <1>10, <2>1, <3>1
  <2>3. CASE ~Carries(pass[q], f, x)
    <3>1. f = e /\ x = r /\ accepted BY <1>6, <1>12, <2>3 DEF s
    <3> QED BY <1>10, <2>1, <3>1
  <2> QED BY <2>2, <2>3
<1>15. AccountedFor'
  <2> SUFFICES ASSUME NEW f \in Events, NEW x \in Recipients,
                      x \notin disturbed'[f] \cup dropped[f], inbox'[f][x] # 0
               PROVE  /\ inbox'[f][x] = 1
                      /\ delivery[f][x].status = "sent" \/ \E q \in Passes : Carries(pass'[q], f, x)
    BY <1>3 DEF AccountedFor, Carries
  <2>1. x \notin disturbed[f] \cup dropped[f] BY <1>9
  <2>2. CASE f = e /\ x = r /\ accepted
    <3>1. inbox[e][r] = 0 BY <1>8, <1>11, <2>1, <2>2
    <3>2. inbox'[f][x] = 1 BY <1>10, <2>2, <3>1
    <3>3. answered BY <1>8, <2>2
    <3>4. Carries(pass'[p], f, x) BY <1>6, <1>12, <2>2, <3>3
    <3> QED BY <3>2, <3>4
  <2>3. CASE ~(f = e /\ x = r /\ accepted)
    <3>1. inbox'[f][x] = inbox[f][x] BY <1>10, <2>3
    <3>2. /\ inbox[f][x] = 1
          /\ delivery[f][x].status = "sent" \/ \E q \in Passes : Carries(pass[q], f, x)
      BY <2>1, <3>1 DEF ReceiptInv, AccountedFor
    <3>3. \A q \in Passes : Carries(pass[q], f, x) => Carries(pass'[q], f, x)
      BY <1>6, <1>12 DEF s
    <3> QED BY <3>1, <3>2, <3>3
  <2> QED BY <2>2, <2>3
<1> QED BY <1>13, <1>14, <1>15 DEF ReceiptInv

LEMMA FlushCarries ==
  ASSUME DispatchInv, ReceiptInv, NEW p \in Passes, Flush(p) PROVE ReceiptInv'
<1> DEFINE s == pass[p]
           e == s.event
           r == s.at
           row == Written(p, e, r)
           mine == IF s.new = s.read THEN s.wrote[r] ELSE Merge(row, s.read, s.new)
           new == [Leave(s, r) EXCEPT !.wrote[r] = IF s.new = s.read THEN @
                                                   ELSE Merge(row, s.read, s.new)]
<1>0. s \in PassState /\ Sound(s, delivery, dropped) /\ s.step = "flush"
      /\ e \in Events /\ r \in Recipients /\ Go(p, new) /\ UNCHANGED <<delivery, history>>
  BY AtHand DEF Flush
<1>1. row \in Row BY <1>0, WrittenType DEF DispatchInv
<1>2. s.new \in Row /\ s.read \in Row /\ s.new.status \in {"failed", "sent"}
      /\ s.wrote \in [Recipients -> Row]
  BY <1>0 DEF Sound, PassState
<1>3. Queued # NoRow /\ Queued.status = "queued" /\ NoRow.status = "none" BY DEF Queued, NoRow
<1>4. \/ s.read = Queued /\ s.wrote[r] = Queued /\ row = Queued
      \/ /\ s.read.status = "failed" /\ s.wrote[r] = NoRow
         /\ row = delivery[e][r] /\ row.status \in {"failed", "sent"}
  <2>1. \/ s.read = Queued /\ s.wrote[r] = Queued
        \/ s.read.status = "failed" /\ s.wrote[r] = NoRow /\ delivery[e][r] # NoRow
    BY <1>0 DEF Sound
  <2>2. CASE s.read = Queued /\ s.wrote[r] = Queued BY <1>3, <2>2 DEF Written
  <2>3. CASE s.read.status = "failed" /\ s.wrote[r] = NoRow /\ delivery[e][r] # NoRow
    <3>1. row = delivery[e][r] BY <2>3 DEF Written
    <3> QED BY <1>0, <2>3, <3>1 DEF DispatchInv, CommittedRows
  <2> QED BY <2>1, <2>2, <2>3
<1>5. mine \in Row BY <1>0, <1>1, <1>2, MergeType
<1>6. mine.status = "sent" => s.new.status = "sent" \/ row.status = "sent"
  <2>1. CASE s.new = s.read BY <1>3, <1>4, <2>1
  <2>2. CASE s.new # s.read
    <3> HIDE DEF s, row
    <3>1. mine = Merge(row, s.read, s.new) BY <2>2
    <3> HIDE DEF mine
    <3>2. Merge(row, s.read, s.new).status = "sent" => s.new.status = "sent" \/ row.status = "sent"
      BY DEF Merge
    <3> QED BY <3>1, <3>2
  <2> QED BY <2>1, <2>2
<1>7. s.new.status = "sent" => mine.status = "sent"
  <2> HIDE DEF s, row
  <2>1. s.new.status = "sent" => s.new # s.read BY <1>3, <1>4
  <2>2. s.new # s.read => mine = Merge(row, s.read, s.new) OBVIOUS
  <2> HIDE DEF mine
  <2>3. s.new.status = "sent" => Merge(row, s.read, s.new).status = "sent"
    BY <1>1, <1>2, <1>4, MergedStatus
  <2> QED BY <2>1, <2>2, <2>3
<1> HIDE DEF mine, row
<1>8. row.status = "sent" => inbox[e][r] >= 1
  BY <1>0, <1>3, <1>4 DEF ReceiptInv, RecordedIsReceived
<1>9. s.wrote[r].status # "sent" BY <1>3, <1>4
<1>10. new \in PassState /\ new.step = "recipient" /\ new.event = e
       /\ \A x \in Recipients : new.wrote[x] = IF x = r THEN mine ELSE s.wrote[x]
  <2>1. new = [Leave(s, r) EXCEPT !.wrote = [@ EXCEPT ![r] = mine]]
    BY <1>0, <1>2 DEF Leave, PassState, mine
  <2>2. Leave(s, r) \in PassState BY <1>0, LeaveType
  <2>3. Leave(s, r).step = "recipient" /\ Leave(s, r).event = e /\ Leave(s, r).wrote = s.wrote
    BY <1>0 DEF Leave, PassState
  <2> DEFINE left == Leave(s, r)
  <2> HIDE DEF left, new, s
  <2>4. new = [left EXCEPT !.wrote = [@ EXCEPT ![r] = mine]] BY <2>1 DEF left
  <2>5. left \in PassState /\ left.step = "recipient" /\ left.event = e /\ left.wrote = s.wrote
    BY <2>2, <2>3 DEF left
  <2> QED BY <1>2, <1>5, <2>4, <2>5 DEF PassState
<1> HIDE DEF new, s
<1>11. ASSUME NEW f \in Events, NEW x \in Recipients
       PROVE  /\ Carries(new, f, x) => Carries(s, f, x) \/ inbox[f][x] >= 1
              /\ Carries(s, f, x) => Carries(new, f, x)
  <2>1. CASE x = r
    <3>1. Carries(new, f, x) <=> f = e /\ mine.status = "sent" BY <1>10, <2>1 DEF Carries
    <3>2. Carries(s, f, x) <=> f = e /\ s.new.status = "sent" BY <1>0, <1>9, <2>1 DEF Carries
    <3> QED BY <1>6, <1>7, <1>8, <2>1, <3>1, <3>2
  <2>2. CASE x # r BY <1>10, <2>2 DEF Carries
  <2> QED BY <2>1, <2>2
<1> QED BY <1>0, <1>10, <1>11, CarriedOn DEF history, s

LEMMA CommitEventCarries ==
  ASSUME DispatchInv, ReceiptInv, NEW p \in Passes, CommitEvent(p) PROVE ReceiptInv'
<1> DEFINE s == pass[p]
           e == s.event
<1>0. s \in PassState /\ Sound(s, delivery, dropped) /\ s.step = "recipient" /\ AtWork(s)
      /\ e \in Events /\ Go(p, Between(s.batch)) /\ UNCHANGED <<inbox, dropped, disturbed>>
  BY AtHand DEF CommitEvent, AtWork
<1>1. \A f \in Events, r \in Recipients :
        delivery'[f][r] = IF f = e /\ s.wrote[r] # NoRow THEN s.wrote[r] ELSE delivery[f][r]
  <2>1. delivery \in [Events -> [Recipients -> Row]] BY DEF DispatchInv, TypeOK
  <2> QED BY <2>1 DEF CommitEvent, Written
<1>2. Between(s.batch) \in PassState /\ Between(s.batch).wrote = NoWrites
      /\ Between(s.batch).step # "flush"
  <2>1. s.batch \in SUBSET (Nat \X Events) BY <1>0 DEF PassState
  <2> QED BY <2>1, BetweenType, BetweenIsSound DEF Between, Idle
<1>3. pass'[p] = Between(s.batch) /\ \A q \in Passes \ {p} : pass'[q] = pass[q]
  BY <1>0, <1>2, GoType DEF DispatchInv
<1>4. \A f \in Events, r \in Recipients : ~Carries(pass'[p], f, r)
  BY <1>2, <1>3, NothingCarried
<1>5. NoRow.status # "sent" BY DEF NoRow
<1>6. \A r \in Recipients : s.wrote[r] # NoRow /\ delivery[e][r].status = "sent"
                              => s.wrote[r].status = "sent"
  BY <1>0 DEF Sound
<1> HIDE DEF s
\* What was recorded still is, and so is what p carried.
<1>7. \A f \in Events, r \in Recipients :
        /\ delivery[f][r].status = "sent" => delivery'[f][r].status = "sent"
        /\ Carries(s, f, r) => delivery'[f][r].status = "sent"
        /\ delivery'[f][r].status = "sent" => delivery[f][r].status = "sent" \/ Carries(s, f, r)
  BY <1>0, <1>1, <1>5, <1>6 DEF Carries
<1>8. RecordedIsReceived'
  BY <1>0, <1>7 DEF ReceiptInv, RecordedIsReceived, CarriedIsReceived, s
<1>9. CarriedIsReceived'
  <2> SUFFICES ASSUME NEW q \in Passes, NEW f \in Events, NEW r \in Recipients,
                      Carries(pass'[q], f, r)
               PROVE  inbox[f][r] >= 1
    BY <1>0 DEF CarriedIsReceived, Carries
  <2>1. q # p BY <1>4
  <2> QED BY <1>3, <2>1 DEF ReceiptInv, CarriedIsReceived
<1>10. AccountedFor'
  <2> SUFFICES ASSUME NEW f \in Events, NEW r \in Recipients,
                      r \notin disturbed[f] \cup dropped[f], inbox[f][r] # 0
               PROVE  /\ inbox[f][r] = 1
                      /\ delivery'[f][r].status = "sent" \/ \E q \in Passes : Carries(pass'[q], f, r)
    BY <1>0 DEF AccountedFor, Carries
  <2>1. /\ inbox[f][r] = 1
        /\ delivery[f][r].status = "sent" \/ \E q \in Passes : Carries(pass[q], f, r)
    BY DEF ReceiptInv, AccountedFor
  <2>2. ASSUME NEW q \in Passes, Carries(pass[q], f, r)
        PROVE  delivery'[f][r].status = "sent" \/ Carries(pass'[q], f, r)
    <3>1. CASE q = p BY <1>7, <2>2, <3>1 DEF s
    <3>2. CASE q # p BY <1>3, <2>2, <3>2
    <3> QED BY <3>1, <3>2
  <2> QED BY <1>7, <2>1, <2>2
<1> QED BY <1>8, <1>9, <1>10 DEF ReceiptInv

\* A pass that dies disturbs everybody whose record it carried.
LEMMA DieCarries ==
  ASSUME DispatchInv, ReceiptInv, NEW p \in Passes, Die(p) PROVE ReceiptInv'
<1> DEFINE s == pass[p]
           e == s.event
<1>1. Go(p, Idle) /\ UNCHANGED <<delivery, inbox, dropped>> /\ s \in PassState
  BY AtHand DEF Die, Abort
<1>2. disturbed' = IF e = NoEvent THEN disturbed
       ELSE [disturbed EXCEPT ![e] =
              @ \cup {r \in Recipients : \/ s.wrote[r] # NoRow
                                         \/ s.step = "flush" /\ s.at = r}]
  BY DEF Die, Abort
<1>3. disturbed \in [Events -> SUBSET Recipients] /\ e \in Events \cup {NoEvent}
  BY <1>1 DEF DispatchInv, TypeOK, PassState
<1>4. Idle \in PassState /\ Idle.wrote = NoWrites /\ Idle.step # "flush" BY RowTypes DEF Idle
<1>5. \A f \in Events, r \in Recipients : ~Carries(Idle, f, r) BY <1>4, NothingCarried
<1> HIDE DEF s
<1>6. \A f \in Events : disturbed[f] \subseteq disturbed'[f] BY <1>2, <1>3
<1>7. ASSUME NEW f \in Events, NEW r \in Recipients, Carries(s, f, r) PROVE r \in disturbed'[f]
  <2>1. NoRow.status # "sent" BY DEF NoRow
  <2>2. e = f /\ (s.wrote[r] # NoRow \/ (s.step = "flush" /\ s.at = r)) BY <1>7, <2>1 DEF Carries
  <2>3. e \in Events /\ e # NoEvent BY <2>2, ConstantsAssumption
  <2> DEFINE cut == {x \in Recipients : s.wrote[x] # NoRow \/ (s.step = "flush" /\ s.at = x)}
  <2>4. disturbed' = [disturbed EXCEPT ![e] = @ \cup cut] BY <1>2, <2>3
  <2>5. r \in cut BY <2>2
  <2> HIDE DEF cut
  <2>6. disturbed'[e] = disturbed[e] \cup cut BY <1>3, <2>3, <2>4
  <2> QED BY <2>2, <2>5, <2>6
<1> QED BY <1>1, <1>4, <1>5, <1>6, <1>7, CarriedOn DEF s

-----------------------------------------------------------------------------
(* The theorems.                                                           *)

LEMMA ReceiptInvIsInductive ==
  ASSUME DispatchInv, ReceiptInv, [Next]_vars PROVE ReceiptInv'
<1>1. ASSUME NEW p \in Passes, Dispatch(p) PROVE ReceiptInv'
  BY <1>1, SelectCarries, ResolveCarries, LookCarries, InsertCarries, RefuseOffboardedCarries,
     StillUnreachableCarries, RefuseUnaddressedCarries, SendCarries, FlushCarries,
     CommitEventCarries
  DEF Dispatch
<1>2. CASE UNCHANGED <<delivery, pass, history>>
  BY <1>2 DEF history, ReceiptInv, RecordedIsReceived, CarriedIsReceived, AccountedFor, Carries
<1>3. CASE Environment
  BY <1>2, <1>3 DEF Environment, Emit, Toggle, Connect, Unlink, SetPhone, ClearPhone, SetActive, ChangePerson,
                    ChangeAudience
<1>4. CASE UNCHANGED vars BY <1>2, <1>4 DEF vars
<1> QED BY <1>1, <1>3, <1>4, DieCarries DEF Next

LEMMA InitialReceiptInv == Init => ReceiptInv
<1> SUFFICES ASSUME Init PROVE ReceiptInv OBVIOUS
<1>1. RecordedIsReceived BY DEF Init, RecordedIsReceived, NoWrites, NoRow
<1>2. CarriedIsReceived
  <2>1. \A e \in Events, r \in Recipients : ~Carries(Idle, e, r) BY NothingCarried DEF Idle
  <2> QED BY <2>1 DEF Init, CarriedIsReceived
<1>3. AccountedFor BY DEF Init, AccountedFor
<1> QED BY <1>1, <1>2, <1>3 DEF ReceiptInv

LEMMA ReceiptInvariant == Spec => []ReceiptInv
BY DispatchInvariant, InitialReceiptInv, ReceiptInvIsInductive, PTL DEF Spec

\* No crash, rollback or overlap of passes leaves a delivery recorded as sent
\* that the provider never accepted (message_dispatch.py:992-1041).
THEOREM RecordsAreReceived == Spec => []RecordedIsReceived
<1>1. ReceiptInv => RecordedIsReceived BY DEF ReceiptInv
<1> QED BY <1>1, ReceiptInvariant, PTL

\* Passes that merely overlap never send a message twice: a second copy goes
\* out only after a lost answer, a death before the commit, a rolled back
\* record, or two retries of one failure (message_dispatch.py:934-1041).
THEOREM SentOnceUnlessDisturbed == Spec => []OnceUnlessDisturbed
<1>1. ReceiptInv => OnceUnlessDisturbed
  <2> SUFFICES ASSUME ReceiptInv, NEW e \in Events, NEW r \in Recipients, inbox[e][r] > 1
               PROVE  r \in disturbed[e] \cup dropped[e]
    BY DEF OnceUnlessDisturbed
  <2> QED BY DEF ReceiptInv, AccountedFor
<1> QED BY <1>1, ReceiptInvariant, PTL

-----------------------------------------------------------------------------
(* The dispatcher implements the mailbox.                                  *)

\* A pass works on events that have happened.
OnEmitted(s) ==
  /\ s.event # NoEvent => status[s.event] # "unborn"
  /\ \A next \in s.batch : status[next[2]] # "unborn"

EmittedOnly == \A p \in Passes : OnEmitted(pass[p])

\* No step makes an event unhappen.
LEMMA EventsStayEmitted ==
  ASSUME DispatchInv, [Next]_vars, NEW e \in Events, status[e] # "unborn"
  PROVE  status'[e] # "unborn"
<1>1. status \in [Events -> {"unborn", "pending", "dispatched"}]
  BY DEF DispatchInv, TypeOK
<1>2. ASSUME NEW f \in Events, Emit(f) PROVE status'[e] # "unborn"
  BY <1>1, <1>2 DEF Emit
<1>3. ASSUME NEW p \in Passes, CommitEvent(p) PROVE status'[e] # "unborn"
  <2>1. status' = [status EXCEPT ![pass[p].event] = "dispatched"]
    BY <1>3 DEF CommitEvent
  <2> QED BY <1>1, <2>1
<1>4. CASE UNCHANGED status BY <1>4
<1>5. ASSUME NEW p \in Passes, Dispatch(p) \/ Die(p) PROVE status'[e] # "unborn"
  BY <1>3, <1>4, <1>5
  DEF Dispatch, Select, Resolve, Look, Insert, RefuseOffboarded, StillUnreachable,
      RefuseUnaddressed, Send, Flush, Die, Abort
<1>6. CASE Environment
  BY <1>2, <1>4, <1>6
  DEF Environment, Toggle, Connect, Unlink, SetPhone, ClearPhone, SetActive, ChangePerson, ChangeAudience
<1>7. CASE UNCHANGED vars BY <1>4, <1>7 DEF vars
<1> QED BY <1>5, <1>6, <1>7 DEF Next

\* In the middle of an event, a pass keeps the event and the rest of the batch.
LEMMA KeepsItsEvent ==
  ASSUME DispatchInv, NEW p \in Passes,
         \/ Look(p) \/ Insert(p) \/ RefuseOffboarded(p) \/ StillUnreachable(p)
         \/ RefuseUnaddressed(p) \/ Send(p) \/ Flush(p)
  PROVE  pass'[p].event = pass[p].event /\ pass'[p].batch = pass[p].batch
<1> DEFINE s == pass[p]
           Same(new) == new.event = s.event /\ new.batch = s.batch
<1>0. s \in PassState BY AtHand
<1>1. ASSUME NEW new, Go(p, new), Same(new) PROVE Same(pass'[p])
  BY <1>1 DEF Go, DispatchInv, TypeOK
<1>2. \A r : Same(Leave(s, r)) BY <1>0 DEF Leave, PassState
<1>3. CASE Look(p)
  <2>1. \E r \in Recipients :
          \/ Go(p, Leave(s, r))
          \/ Go(p, [s EXCEPT !.step = "send", !.at = r, !.read = delivery[s.event][r],
                             !.covered = @ \cup {r}])
          \/ Go(p, [s EXCEPT !.step = "insert", !.at = r, !.covered = @ \cup {r}])
    BY <1>0, <1>3 DEF Look, PassState
  <2>2. \A r, row : /\ Same([s EXCEPT !.step = "send", !.at = r, !.read = row,
                                      !.covered = @ \cup {r}])
                    /\ Same([s EXCEPT !.step = "insert", !.at = r, !.covered = @ \cup {r}])
    BY <1>0 DEF PassState
  <2> QED BY <1>1, <1>2, <2>1, <2>2
<1>4. CASE Insert(p)
  <2> DEFINE back == [s EXCEPT !.wrote = NoWrites]
  <2>1. back \in PassState /\ Same(back) BY <1>0, RowTypes DEF PassState
  <2>2. \/ Go(p, [s EXCEPT !.step = "send", !.read = Queued, !.wrote[s.at] = Queued])
        \/ Go(p, Leave(back, s.at))
        \/ \E row : Go(p, [back EXCEPT !.step = "send", !.read = row])
    BY <1>4 DEF Insert
  <2>3. Same([s EXCEPT !.step = "send", !.read = Queued, !.wrote[s.at] = Queued])
    BY <1>0 DEF PassState
  <2> HIDE DEF back
  <2>4. Same(Leave(back, s.at)) BY <2>1 DEF Leave, PassState
  <2>5. \A row : Same([back EXCEPT !.step = "send", !.read = row]) BY <2>1 DEF PassState
  <2> QED BY <1>1, <2>2, <2>3, <2>4, <2>5
<1>5. \A row : Same([s EXCEPT !.step = "flush", !.new = row]) BY <1>0 DEF PassState
<1>6. CASE RefuseOffboarded(p) \/ RefuseUnaddressed(p)
  BY <1>1, <1>5, <1>6 DEF RefuseOffboarded, RefuseUnaddressed, Answer
<1>7. CASE Send(p)
  <2>1. \E row : Answer(p, row) BY <1>7 DEF Send
  <2> QED BY <1>1, <1>5, <2>1 DEF Answer
<1>8. CASE StillUnreachable(p) BY <1>1, <1>2, <1>8 DEF StillUnreachable
<1>9. CASE Flush(p)
  <2>1. \E row : Go(p, [Leave(s, s.at) EXCEPT !.wrote[s.at] = row])
    <3>1. PICK row : row = IF s.new = s.read THEN Leave(s, s.at).wrote[s.at]
                           ELSE Merge(Written(p, s.event, s.at), s.read, s.new)
      OBVIOUS
    <3> QED BY <1>9, <3>1 DEF Flush
  <2>2. \A row : Same([Leave(s, s.at) EXCEPT !.wrote[s.at] = row])
    BY <1>0 DEF Leave, PassState
  <2> QED BY <1>1, <2>1, <2>2
<1> QED BY <1>3, <1>4, <1>6, <1>7, <1>8, <1>9

LEMMA EmittedOnlyIsInductive ==
  ASSUME DispatchInv, EmittedOnly, [Next]_vars PROVE EmittedOnly'
<1>1. \A e \in Events : status[e] # "unborn" => status'[e] # "unborn"
  BY EventsStayEmitted
\* Whoever keeps to the events it had, or rests, is fine.
<1>2. ASSUME NEW q \in Passes,
             pass'[q].event \in {pass[q].event, NoEvent},
             pass'[q].batch \subseteq pass[q].batch
      PROVE  OnEmitted(pass[q])'
  <2>1. pass[q] \in PassState /\ OnEmitted(pass[q]) BY AtHand DEF EmittedOnly
  <2>2. \A next \in pass[q].batch : next[2] \in Events BY <2>1 DEF PassState
  <2>3. pass[q].event # NoEvent => pass[q].event \in Events BY <2>1 DEF PassState
  <2> QED BY <1>1, <1>2, <2>1, <2>2, <2>3 DEF OnEmitted
<1>3. ASSUME NEW p \in Passes, NEW new, Go(p, new)
      PROVE  pass'[p] = new /\ \A q \in Passes \ {p} : pass'[q] = pass[q]
  BY <1>3 DEF Go, DispatchInv, TypeOK
<1>4. ASSUME NEW p \in Passes, \E new : Go(p, new), OnEmitted(pass[p])' PROVE EmittedOnly'
  BY <1>2, <1>3, <1>4 DEF EmittedOnly
<1>5. ASSUME NEW p \in Passes, Select(p) PROVE EmittedOnly'
  <2> DEFINE batch == {<<Position(e), e>> : e \in Selected}
  <2>1. \A next \in batch : status[next[2]] # "unborn" /\ next[2] \in Events
    BY DEF Selected, Candidates
  <2> HIDE DEF batch
  <2>2. Go(p, Between(batch)) /\ UNCHANGED status BY <1>5 DEF Select, batch
  <2>3. Between(batch).event = NoEvent /\ Between(batch).batch \subseteq batch
    BY DEF Between, Idle
  <2>4. OnEmitted(pass[p])' BY <1>3, <2>1, <2>2, <2>3 DEF OnEmitted
  <2> QED BY <1>4, <2>2, <2>4
<1>6. ASSUME NEW p \in Passes, Resolve(p) PROVE EmittedOnly'
  <2>0. pass[p] \in PassState /\ OnEmitted(pass[p]) /\ UNCHANGED status
    BY <1>6, AtHand DEF EmittedOnly, Resolve
  <2> DEFINE new(next) ==
        [pass[p] EXCEPT
           !.step = "recipient", !.event = next[2], !.batch = @ \ {next}, !.todo = audience[next[2]],
           !.phoned = {r \in audience[next[2]] : "whatsapp" \in person[r].addresses}]
  <2>1. PICK next \in pass[p].batch : Go(p, new(next)) BY <1>6 DEF Resolve
  <2>2. new(next).event = next[2] /\ new(next).batch = pass[p].batch \ {next}
    BY <2>0 DEF PassState
  <2> HIDE DEF new
  <2>3. pass'[p].event = next[2] /\ pass'[p].batch = pass[p].batch \ {next}
    BY <1>3, <2>1, <2>2
  <2>4. OnEmitted(pass[p])' BY <2>0, <2>3 DEF OnEmitted
  <2> QED BY <1>4, <2>1, <2>4
<1>7. ASSUME NEW p \in Passes,
             \/ Look(p) \/ Insert(p) \/ RefuseOffboarded(p) \/ StillUnreachable(p)
             \/ RefuseUnaddressed(p) \/ Send(p) \/ Flush(p)
      PROVE  EmittedOnly'
  <2>1. \E new : Go(p, new)
    BY <1>7 DEF Look, Insert, RefuseOffboarded, StillUnreachable, RefuseUnaddressed, Send, Flush, Answer
  <2>2. OnEmitted(pass[p])' BY <1>2, <1>7, KeepsItsEvent
  <2> QED BY <1>4, <2>1, <2>2
<1>8. ASSUME NEW p \in Passes, CommitEvent(p) PROVE EmittedOnly'
  <2>1. Go(p, Between(pass[p].batch)) BY <1>8 DEF CommitEvent
  <2>2. \A batch : Between(batch).event = NoEvent /\ Between(batch).batch \subseteq batch
    BY DEF Between, Idle
  <2>3. OnEmitted(pass[p])' BY <1>2, <1>3, <2>1, <2>2
  <2> QED BY <1>4, <2>1, <2>3
<1>9. ASSUME NEW p \in Passes, Die(p) PROVE EmittedOnly'
  <2>1. Go(p, Idle) BY <1>9 DEF Die, Abort
  <2>2. Idle.event = NoEvent /\ Idle.batch = {} BY DEF Idle
  <2>3. OnEmitted(pass[p])' BY <1>2, <1>3, <2>1, <2>2
  <2> QED BY <1>4, <2>1, <2>3
<1>10. CASE UNCHANGED pass BY <1>2, <1>10 DEF EmittedOnly
<1>11. CASE Environment
  BY <1>10, <1>11
  DEF Environment, Emit, Toggle, Connect, Unlink, SetPhone, ClearPhone, SetActive, ChangePerson, ChangeAudience
<1>12. CASE UNCHANGED vars BY <1>10, <1>12 DEF vars
<1> QED BY <1>5, <1>6, <1>7, <1>8, <1>9, <1>11, <1>12 DEF Next, Dispatch

LEMMA EmittedInvariant == Spec => []EmittedOnly
<1>1. Init => EmittedOnly
  BY DEF Init, EmittedOnly, OnEmitted, Idle
<1> QED BY <1>1, DispatchInvariant, EmittedOnlyIsInductive, PTL DEF Spec

-----------------------------------------------------------------------------
(* Each step is one of the mailbox's, or none of its business.             *)

\* What the mailbox shows of the dispatcher.
Notes == [e \in Events |-> [r \in Recipients |-> delivery[e][r].status]]
Excused == [e \in Events |-> disturbed[e] \cup dropped[e]]
Shown == <<status, Notes, inbox, told, Excused>>

MailStep == Mail!Next \/ UNCHANGED Shown

LEMMA EmitIsHappen ==
  ASSUME NEW e \in Events, Emit(e) PROVE Mail!Happen(e)
BY DEF Emit, Mail!Happen, history

\* What was rolled back or cut short is an excuse.
LEMMA LossIsExcuse ==
  ASSUME DispatchInv, DispatchInv', NEW e \in Events, status[e] # "unborn",
         UNCHANGED <<status, delivery, inbox, told>>,
         NEW lost \in SUBSET Recipients,
         Excused' = [Excused EXCEPT ![e] = @ \cup lost]
  PROVE  MailStep
<1>1. Mail!Excuse(e, lost)
  BY DEF Mail!Excuse, Excused
<1> QED
  BY <1>1 DEF MailStep, Mail!Next

LEMMA InsertIsExcuse ==
  ASSUME DispatchInv, DispatchInv', EmittedOnly, NEW p \in Passes, Insert(p)
  PROVE  MailStep
<1> DEFINE s == pass[p]
           e == s.event
           lost == {q \in Recipients : s.wrote[q] # NoRow}
<1>1. e \in Events /\ status[e] # "unborn"
  BY AtHand, ConstantsAssumption DEF Insert, AtWork, EmittedOnly, OnEmitted
<1>2. UNCHANGED <<status, delivery, inbox, told, disturbed>>
  BY DEF Insert
<1>3. UNCHANGED dropped \/ dropped' = [dropped EXCEPT ![e] = @ \cup lost]
  BY DEF Insert
<1> HIDE DEF e, lost
<1>4. CASE UNCHANGED dropped
  BY <1>2, <1>4 DEF MailStep, Shown, Notes, Excused
<1>5. CASE dropped' = [dropped EXCEPT ![e] = @ \cup lost]
  <2>1. Excused' = [Excused EXCEPT ![e] = @ \cup lost]
    BY <1>1, <1>2, <1>5 DEF Excused, DispatchInv, TypeOK
  <2>2. lost \in SUBSET Recipients BY DEF lost
  <2> QED BY <1>1, <1>2, <2>1, <2>2, LossIsExcuse
<1> QED BY <1>3, <1>4, <1>5

LEMMA DieIsExcuse ==
  ASSUME DispatchInv, DispatchInv', EmittedOnly, NEW p \in Passes, Die(p)
  PROVE  MailStep
<1> DEFINE s == pass[p]
           e == s.event
           lost == {r \in Recipients : \/ s.wrote[r] # NoRow
                                       \/ s.step = "flush" /\ s.at = r}
<1>1. UNCHANGED <<status, delivery, inbox, told, dropped>>
  BY DEF Die, Abort
<1>2. disturbed' = IF e = NoEvent THEN disturbed ELSE [disturbed EXCEPT ![e] = @ \cup lost]
  BY DEF Die, Abort
<1>3. e # NoEvent => e \in Events /\ status[e] # "unborn"
  BY AtHand DEF PassState, EmittedOnly, OnEmitted
<1> HIDE DEF e, lost
<1>4. CASE e = NoEvent
  BY <1>1, <1>2, <1>4 DEF MailStep, Shown, Notes, Excused
<1>5. CASE e # NoEvent
  <2>1. Excused' = [Excused EXCEPT ![e] = @ \cup lost]
    BY <1>1, <1>2, <1>3, <1>5 DEF Excused, DispatchInv, TypeOK
  <2>2. lost \in SUBSET Recipients BY DEF lost
  <2> QED BY <1>1, <1>3, <1>5, <2>1, <2>2, LossIsExcuse
<1> QED BY <1>4, <1>5

LEMMA SendIsArrive ==
  ASSUME DispatchInv, DispatchInv', ReceiptInv', EmittedOnly, NEW p \in Passes, Send(p)
  PROVE  MailStep
<1> DEFINE s == pass[p]
           e == s.event
           r == s.at
<1>1. e \in Events /\ r \in Recipients /\ status[e] # "unborn"
  BY AtHand, ConstantsAssumption DEF Send, AtWork, EmittedOnly, OnEmitted, Sound
<1>2. UNCHANGED <<status, delivery, told, dropped>>
  BY DEF Send
<1>3. PICK losing \in SUBSET {r} : disturbed' = [disturbed EXCEPT ![e] = @ \cup losing]
  <2>1. disturbed = [disturbed EXCEPT ![e] = @ \cup {}]
    BY <1>1 DEF DispatchInv, TypeOK
  <2>2. disturbed' \in {disturbed, [disturbed EXCEPT ![e] = @ \cup {r}]}
    BY DEF Send
  <2> QED BY <2>1, <2>2
<1>4. inbox' \in {inbox, [inbox EXCEPT ![e][r] = @ + 1]}
  BY DEF Send
<1> HIDE DEF e, r
<1>5. Excused' = [Excused EXCEPT ![e] = @ \cup losing]
  BY <1>1, <1>2, <1>3 DEF Excused, DispatchInv, TypeOK
<1>6. CASE inbox' = inbox
  <2>1. losing \in SUBSET Recipients BY <1>1
  <2> QED BY <1>1, <1>2, <1>5, <1>6, <2>1, LossIsExcuse
<1>7. CASE inbox' = [inbox EXCEPT ![e][r] = @ + 1]
  <2>1. inbox[e][r] \in Nat /\ inbox'[e][r] = inbox[e][r] + 1
    BY <1>1, <1>7 DEF DispatchInv, TypeOK
  <2>2. inbox[e][r] = 0 \/ r \in disturbed'[e] \cup dropped'[e]
    BY <1>1, <2>1 DEF ReceiptInv, AccountedFor
  <2>3. disturbed'[e] \cup dropped'[e] = disturbed[e] \cup dropped[e] \cup losing
    BY <1>1, <1>2, <1>3 DEF DispatchInv, TypeOK
  <2>4. Mail!Arrive(e, r, losing)
    BY <1>1, <1>2, <1>5, <1>7, <2>2, <2>3 DEF Mail!Arrive, Excused
  <2> QED BY <1>1, <2>4 DEF MailStep, Mail!Next
<1> QED BY <1>4, <1>6, <1>7

LEMMA CommitIsSettle ==
  ASSUME DispatchInv, DispatchInv', ReceiptInv', EmittedOnly, NEW p \in Passes, CommitEvent(p)
  PROVE  MailStep
<1> DEFINE s == pass[p]
           e == s.event
           row == [r \in Recipients |-> Written(p, e, r).status]
<1>0. s \in PassState /\ Sound(s, delivery, dropped) /\ AtWork(s)
  BY AtHand DEF CommitEvent, AtWork
<1>1. e \in Events /\ status[e] # "unborn"
  BY <1>0, AtHand, ConstantsAssumption DEF EmittedOnly, OnEmitted, Sound
<1>2. /\ delivery' = [delivery EXCEPT ![e] = [r \in Recipients |-> Written(p, e, r)]]
      /\ status' = [status EXCEPT ![e] = "dispatched"]
      /\ told' = [told EXCEPT ![e] = @ \cup s.covered]
      /\ UNCHANGED <<inbox, dropped, disturbed>>
  BY DEF CommitEvent
<1>3. s.covered \in SUBSET Recipients BY <1>0 DEF PassState
<1>4. \A r \in Recipients : delivery'[e][r] = Written(p, e, r)
  BY <1>1, <1>2 DEF DispatchInv, TypeOK
<1>5. \A r \in Recipients :
        /\ delivery[e][r].status = "sent" => delivery'[e][r].status = "sent"
        /\ delivery'[e][r] = NoRow => delivery[e][r] = NoRow
  BY <1>0, <1>1, <1>4 DEF Sound, Written
<1>6. \A r \in Recipients : delivery'[e][r].status = "none" => delivery'[e][r] = NoRow
  BY <1>1 DEF DispatchInv, CommittedRows
<1>7. \A r \in Recipients : row[r] = delivery'[e][r].status
  BY <1>4
<1>8. row \in [Recipients -> Mail!Note]
  <2>1. \A r \in Recipients : delivery'[e][r].status \in {"none", "failed", "sent"}
    BY <1>1 DEF DispatchInv, CommittedRows, NoRow
  <2> QED BY <1>7, <2>1 DEF Mail!Note
<1>9. Notes' = [Notes EXCEPT ![e] = row]
  BY <1>1, <1>2, <1>7 DEF Notes, DispatchInv, TypeOK
<1> HIDE DEF row
<1>10. \A r \in Recipients :
         /\ row[r] = "sent" => inbox[e][r] > 0
         /\ delivery[e][r].status = "sent" => row[r] = "sent"
         /\ row[r] = "none" => /\ delivery[e][r].status = "none"
                               /\ r \in told[e] \cup s.covered => r \in disturbed[e] \cup dropped[e]
  <2> SUFFICES ASSUME NEW r \in Recipients
               PROVE  /\ row[r] = "sent" => inbox[e][r] > 0
                      /\ delivery[e][r].status = "sent" => row[r] = "sent"
                      /\ row[r] = "none" =>
                           /\ delivery[e][r].status = "none"
                           /\ r \in told[e] \cup s.covered => r \in disturbed[e] \cup dropped[e]
    OBVIOUS
  <2>1. row[r] = "sent" => inbox[e][r] > 0
    <3>1. inbox' = inbox /\ inbox[e][r] \in Nat BY <1>1, <1>2 DEF DispatchInv, TypeOK
    <3>2. delivery'[e][r].status = "sent" => inbox'[e][r] >= 1
      BY <1>1 DEF ReceiptInv, RecordedIsReceived
    <3> QED BY <1>7, <3>1, <3>2
  <2>2. told'[e] = told[e] \cup s.covered
    BY <1>1, <1>2 DEF DispatchInv, TypeOK
  <2>3. row[r] = "none" /\ r \in told[e] \cup s.covered => r \in dropped[e]
    BY <1>1, <1>2, <1>6, <1>7, <2>2 DEF DispatchInv, NobodyEverForgotten
  <2>4. row[r] = "none" => delivery[e][r].status = "none"
    BY <1>5, <1>6, <1>7 DEF NoRow
  <2> QED BY <1>5, <1>7, <2>1, <2>3, <2>4
<1>11. Mail!Settle(e, s.covered, row)
  BY <1>1, <1>2, <1>9, <1>10 DEF Mail!Settle, Notes
<1>12. PICK f, through, new : f = e /\ through = s.covered /\ new = row
  OBVIOUS
<1>13. Mail!Settle(f, through, new)
  BY <1>11, <1>12 DEF Mail!Settle
<1>14. f \in Events /\ through \in SUBSET Recipients /\ new \in [Recipients -> Mail!Note]
  BY <1>1, <1>3, <1>8, <1>12
<1> QED
  BY <1>13, <1>14 DEF MailStep, Mail!Next

LEMMA StepIsMailStep ==
  ASSUME DispatchInv, DispatchInv', ReceiptInv', EmittedOnly, [Next]_vars PROVE MailStep
<1>1. CASE UNCHANGED <<status, delivery, history>>
  BY <1>1 DEF MailStep, Shown, Notes, Excused, history
<1>2. ASSUME NEW p \in Passes, Dispatch(p) \/ Die(p) PROVE MailStep
  BY <1>1, <1>2, InsertIsExcuse, DieIsExcuse, SendIsArrive, CommitIsSettle
  DEF Dispatch, Select, Resolve, Look, RefuseOffboarded, StillUnreachable, RefuseUnaddressed, Flush
<1>3. CASE Environment
  BY <1>1, <1>3, EmitIsHappen
  DEF Environment, Toggle, Connect, Unlink, SetPhone, ClearPhone, SetActive, ChangePerson,
      ChangeAudience, MailStep, Mail!Next
<1>4. CASE UNCHANGED vars BY <1>1, <1>4 DEF vars
<1> QED BY <1>2, <1>3, <1>4 DEF Next

\* The dispatch loops, with all their batches, locks, rollbacks and retries, give
\* each person of an event the outbox Mailbox describes: once unless excused, true
\* notes that are never taken back, nobody a dispatch went through left out
\* (message_dispatch.py:880-1173).
THEOREM DispatchImplementsMailbox == Spec => ImplementsMailbox
<1>1. Init => Mail!Init
  BY DEF Init, Mail!Init, NoWrites, NoRow
<1>2. MailStep => [Mail!Next]_(Mail!vars)
  BY DEF MailStep, Shown, Notes, Excused, Mail!vars
<1>3. DispatchInv /\ DispatchInv' /\ ReceiptInv' /\ EmittedOnly /\ [Next]_vars
        => [Mail!Next]_(Mail!vars)
  BY <1>2, StepIsMailStep
<1> QED
  BY <1>1, <1>3, DispatchInvariant, ReceiptInvariant, EmittedInvariant, PTL
  DEF Spec, ImplementsMailbox, Mail!Spec
=============================================================================
