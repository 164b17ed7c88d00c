-------------------------- MODULE TelegramChatProofs --------------------------
(***************************************************************************)
(* For any people, chats, tasks and number of updates: a chat belongs to   *)
(* one person at most, and an answer is only ever handled for the person   *)
(* who was asked. The argument: whoever an open question or an update at   *)
(* hand names is the only person its chat can belong to (ChatInv), because *)
(* questions are put to the person the chat was found linked to, and a     *)
(* chat changes hands only between two updates, which empties it           *)
(* (StartKeeps); every other step hands the name on (Inherits).            *)
(***************************************************************************)
EXTENDS TelegramChat, TLAPS

IsQuestion(q) == \E k, t, p, o : q = [kind |-> k, token |-> t, asked |-> p, open |-> o]

IsUpdate(h) ==
  \E c, p, code, t, a, f :
    h = [chat |-> c, who |-> p, code |-> code, token |-> t, asked |-> a, fresh |-> f]

LinksTyped == linked \in [Person -> Chat \cup {None}]
PendingTyped ==
  /\ pending = [c \in Chat |-> pending[c]]
  /\ \A c \in Chat : pending[c] # None => IsQuestion(pending[c])
HandlingTyped == handling # None => IsUpdate(handling) /\ handling.chat \in Chat

\* The chat of an update at hand belongs to nobody but the person found there.
HandledForOwner ==
  handling # None /\ handling.who # None => LinkedPerson(handling.chat) \subseteq {handling.who}

ChatInv == LinksTyped /\ PendingTyped /\ HandlingTyped /\ HandledForOwner /\ ChatSound

\* The people linked to a chat after the step.
OwnersAfter(c) == {p \in Person : linked'[p] = c}

(* How a step that links nobody may change the three variables. *)

LinksShrink == linked' \in [Person -> Chat \cup {None}] /\ \A p \in Person : linked'[p] \in {linked[p], None}

\* A question is the one before, or is put to the person at hand or found linked.
AskedRightly(c) ==
  \/ pending'[c] = None
  \/ pending[c] # None /\ IsQuestion(pending'[c]) /\ pending'[c].asked = pending[c].asked
  \/ handling # None /\ handling.who # None /\ c = handling.chat
     /\ IsQuestion(pending'[c]) /\ pending'[c].asked = handling.who
  \/ IsQuestion(pending'[c]) /\ pending'[c].asked \in LinkedPerson(c)

PendingInherits == pending' = [c \in Chat |-> pending'[c]] /\ \A c \in Chat : AskedRightly(c)

\* An update is the one before, is for the person found linked, or answers.
HandlingInherits ==
  \/ handling' = None
  \/ /\ IsUpdate(handling') /\ handling'.chat \in Chat
     /\ \/ handling # None /\ handling'.chat = handling.chat
           /\ handling'.who = handling.who /\ handling'.asked = handling.asked
        \/ handling'.who \in LinkedPerson(handling'.chat)
        \/ handling'.who = None /\ pending[handling'.chat] # None
           /\ handling'.asked = pending[handling'.chat].asked

Inherits == LinksShrink /\ PendingInherits /\ HandlingInherits

-----------------------------------------------------------------------------
\* At first no question is open and no update is at hand.
LEMMA InitChat == Init => ChatInv
  BY DEF Init, ChatInv, LinksTyped, PendingTyped, HandlingTyped, HandledForOwner, ChatSound, Answering

\* Nobody else can own a chat where one person is found.
LEMMA OnlyOwner ==
  ASSUME ChatSound
  PROVE  \A c \in Chat : \A p \in LinkedPerson(c) : LinkedPerson(c) \subseteq {p}
  BY ConstantsAssumption DEF ChatSound, LinkedPerson

\* Links that are only removed leave a chat to fewer people.
LEMMA FewerOwners ==
  ASSUME ChatInv, LinksShrink
  PROVE  \A c \in Chat : OwnersAfter(c) \subseteq LinkedPerson(c)
  BY ConstantsAssumption DEF LinksShrink, LinkedPerson, OwnersAfter

\* A step that links nobody and hands the names on keeps the invariant.
LEMMA InheritsKeeps == ChatInv /\ Inherits => ChatInv'
  <1> SUFFICES ASSUME ChatInv, Inherits PROVE ChatInv'
    OBVIOUS
  <1>0. LinksShrink /\ ChatSound
    BY DEF Inherits, ChatInv
  <1>1. LinksTyped'
    BY <1>0 DEF LinksShrink, LinksTyped
  <1>2. PendingTyped'
    BY DEF Inherits, PendingInherits, AskedRightly, PendingTyped
  <1>3. HandlingTyped'
    BY DEF Inherits, HandlingInherits, HandlingTyped
  <1>4. HandledForOwner'
    <2> SUFFICES ASSUME handling' # None, handling'.who # None
                 PROVE  OwnersAfter(handling'.chat) \subseteq {handling'.who}
      BY DEF HandledForOwner, LinkedPerson, OwnersAfter
    <2>1. handling'.chat \in Chat
      BY DEF Inherits, HandlingInherits
    <2>2. OwnersAfter(handling'.chat) \subseteq LinkedPerson(handling'.chat)
      BY <1>0, <2>1, FewerOwners
    <2>3. CASE handling # None /\ handling'.chat = handling.chat /\ handling'.who = handling.who
      BY <2>2, <2>3 DEF ChatInv, HandledForOwner
    <2>4. CASE handling'.who \in LinkedPerson(handling'.chat)
      BY <1>0, <2>1, <2>2, <2>4, OnlyOwner
    <2> QED
      BY <2>3, <2>4 DEF Inherits, HandlingInherits
  <1>5. ChatSound'
    <2>1. \A p, q \in Person : p # q /\ linked'[p] = linked'[q] => linked'[p] = None
      BY <1>0 DEF LinksShrink, ChatSound
    <2>2. ASSUME NEW c \in Chat, pending'[c] # None
          PROVE  OwnersAfter(c) \subseteq {pending'[c].asked}
      <3>1. AskedRightly(c)
        BY DEF Inherits, PendingInherits
      <3>2. OwnersAfter(c) \subseteq LinkedPerson(c)
        BY <1>0, FewerOwners
      <3>3. CASE pending[c] # None /\ pending'[c].asked = pending[c].asked
        BY <1>0, <3>2, <3>3 DEF ChatSound
      <3>4. CASE handling # None /\ handling.who # None /\ c = handling.chat /\ pending'[c].asked = handling.who
        BY <3>2, <3>4 DEF ChatInv, HandledForOwner
      <3>5. CASE pending'[c].asked \in LinkedPerson(c)
        BY <1>0, <3>2, <3>5, OnlyOwner
      <3> QED
        BY <2>2, <3>1, <3>3, <3>4, <3>5 DEF AskedRightly
    <2>3. ASSUME handling' # None, handling'.who = None
          PROVE  OwnersAfter(handling'.chat) \subseteq {handling'.asked}
      <3>1. handling'.chat \in Chat
        BY <2>3 DEF Inherits, HandlingInherits
      <3>2. OwnersAfter(handling'.chat) \subseteq LinkedPerson(handling'.chat)
        BY <1>0, <3>1, FewerOwners
      <3>3. CASE handling # None /\ handling'.chat = handling.chat /\ handling'.who = handling.who
                 /\ handling'.asked = handling.asked
        BY <1>0, <2>3, <3>2, <3>3 DEF ChatSound, Answering
      <3>4. CASE handling'.who \in LinkedPerson(handling'.chat)
        BY <2>3, <3>4, ConstantsAssumption DEF LinkedPerson
      <3>5. CASE pending[handling'.chat] # None /\ handling'.asked = pending[handling'.chat].asked
        BY <1>0, <3>1, <3>2, <3>5 DEF ChatSound
      <3> QED
        BY <2>3, <3>3, <3>4, <3>5 DEF Inherits, HandlingInherits
    <2> QED
      BY <2>1, <2>2, <2>3 DEF ChatSound, Answering, LinkedPerson, OwnersAfter
  <1> QED
    BY <1>1, <1>2, <1>3, <1>4, <1>5 DEF ChatInv

-----------------------------------------------------------------------------
(* The pieces the actions are made of. *)

LEMMA LinksStay ==
  ASSUME ChatInv, UNCHANGED linked
  PROVE  LinksShrink
  BY DEF ChatInv, LinksTyped, LinksShrink

LEMMA PendingStays ==
  ASSUME ChatInv, UNCHANGED pending
  PROVE  PendingInherits
  <1>1. PendingTyped
    BY DEF ChatInv
  <1>2. ASSUME NEW c \in Chat PROVE AskedRightly(c)
    BY <1>1 DEF PendingTyped, AskedRightly
  <1> QED
    BY <1>1, <1>2 DEF PendingTyped, PendingInherits

\* One chat's question is replaced, the others stay.
LEMMA PendingChanges ==
  ASSUME ChatInv, NEW d \in Chat, NEW q, pending' = [pending EXCEPT ![d] = q],
         \/ q = None
         \/ pending[d] # None /\ IsQuestion(q) /\ q.asked = pending[d].asked
         \/ handling # None /\ handling.who # None /\ d = handling.chat /\ IsQuestion(q) /\ q.asked = handling.who
         \/ IsQuestion(q) /\ q.asked \in LinkedPerson(d)
  PROVE  PendingInherits
  <1>1. PendingTyped
    BY DEF ChatInv
  <1>2. pending' = [c \in Chat |-> IF c = d THEN q ELSE pending[c]]
    BY <1>1 DEF PendingTyped
  <1>3. ASSUME NEW c \in Chat, c # d PROVE AskedRightly(c)
    BY <1>1, <1>2, <1>3 DEF PendingTyped, AskedRightly
  <1>4. AskedRightly(d)
    BY <1>2 DEF AskedRightly
  <1>5. pending' = [c \in Chat |-> pending'[c]]
    BY <1>2
  <1> QED
    BY <1>3, <1>4, <1>5 DEF PendingInherits

\* A put question is a question to the person named.
LEMMA QuestionForm ==
  ASSUME NEW k, NEW t, NEW p
  PROVE  IsQuestion(Question(k, t, p)) /\ Question(k, t, p).asked = p
  BY DEF IsQuestion, Question

LEMMA PendingEmpties ==
  ASSUME ChatInv, NEW d \in Chat, pending' = [pending EXCEPT ![d] = None]
  PROVE  PendingInherits
  BY PendingChanges

LEMMA AddProgressCloses ==
  ASSUME ChatInv, NEW d \in Chat, pending' = CloseAddProgress(d)
  PROVE  PendingInherits
  BY PendingEmpties, PendingStays DEF CloseAddProgress

LEMMA HandlingStays ==
  ASSUME ChatInv, UNCHANGED handling
  PROVE  HandlingInherits
  BY DEF ChatInv, HandlingTyped, HandlingInherits

\* A request of the Web App makes a look stale and nothing else.
LEMMA OvertakenInherits ==
  ASSUME ChatInv, Overtaken
  PROVE  HandlingInherits
  <1>1. CASE handling = None
    BY <1>1 DEF Overtaken, HandlingInherits
  <1>2. CASE handling # None
    <2>1. PICK c, p, code, t, a, f :
            handling = [chat |-> c, who |-> p, code |-> code, token |-> t, asked |-> a, fresh |-> f]
      BY <1>2 DEF ChatInv, HandlingTyped, IsUpdate
    <2>2. PICK g : handling' = [handling EXCEPT !.fresh = g]
      BY <1>2 DEF Overtaken
    <2>3. handling' = [chat |-> c, who |-> p, code |-> code, token |-> t, asked |-> a, fresh |-> g]
      BY <2>1, <2>2
    <2>4. handling.chat \in Chat
      BY <1>2 DEF ChatInv, HandlingTyped
    <2>5. IsUpdate(handling')
      BY <2>3 DEF IsUpdate
    <2> QED
      BY <1>2, <2>1, <2>3, <2>4, <2>5 DEF HandlingInherits
  <1> QED
    BY <1>1, <1>2

-----------------------------------------------------------------------------
(* The actions. *)

\* Requests that move or question nobody in a chat.
LEMMA WebKeeps ==
  ASSUME ChatInv, NEW p \in Person,
         \/ WebStatus(p) \/ WebProgress(p) \/ WebVerify(p) \/ WebApprove(p)
         \/ WebCreateBlocker(p) \/ WebResolveBlocker(p)
  PROVE  Inherits
  <1>1. UNCHANGED linked /\ UNCHANGED pending /\ Overtaken
    BY DEF WebStatus, WebProgress, WebVerify, WebApprove, WebTask, WebCreateBlocker, WebResolveBlocker, Change, identity
  <1> QED
    BY <1>1, LinksStay, PendingStays, OvertakenInherits DEF Inherits

LEMMA TeamKeeps ==
  ASSUME ChatInv, NEW p \in Person,
         \/ AssignSupport(p) \/ EndSupport(p) \/ EndMembership(p) \/ GenerateCode(p)
         \/ \E event \in Event : Send(event, p)
  PROVE  Inherits
  <1>1. UNCHANGED linked /\ UNCHANGED pending /\ UNCHANGED handling
    BY DEF AssignSupport, EndSupport, EndMembership, GenerateCode, Send, Move, identity
  <1> QED
    BY <1>1, LinksStay, PendingStays, HandlingStays DEF Inherits

\* Unlinking leaves the chat without an owner and without a question.
LEMMA UnlinkKeeps ==
  ASSUME ChatInv, NEW p \in Person, Unlink(p)
  PROVE  Inherits
  <1>1. linked[p] \in Chat
    BY DEF ChatInv, LinksTyped, Unlink
  <1>2. LinksShrink
    BY DEF ChatInv, LinksTyped, Unlink, LinksShrink
  <1>3. PendingInherits
    BY <1>1, PendingEmpties DEF Unlink
  <1>4. HandlingInherits
    BY HandlingStays DEF Unlink, Move
  <1> QED
    BY <1>2, <1>3, <1>4 DEF Inherits

\* A question that expires is still put to the same person.
LEMMA ExpiredForm ==
  ASSUME NEW q, IsQuestion(q), NEW r, r = [q EXCEPT !.open = FALSE]
  PROVE  IsQuestion(r) /\ r.asked = q.asked /\ r.kind = q.kind
  <1>1. PICK k, t, p, o : q = [kind |-> k, token |-> t, asked |-> p, open |-> o]
    BY DEF IsQuestion
  <1>2. r = [kind |-> k, token |-> t, asked |-> p, open |-> FALSE]
    BY <1>1
  <1>3. r.asked = p /\ q.asked = p /\ r.kind = k /\ q.kind = k
    BY <1>1, <1>2
  <1> QED
    BY <1>2, <1>3 DEF IsQuestion

LEMMA ExpireKeeps ==
  ASSUME ChatInv, NEW c \in Chat, Expire(c)
  PROVE  Inherits
  <1> DEFINE q == [pending[c] EXCEPT !.open = FALSE]
  <1>1. pending[c] # None /\ IsQuestion(pending[c])
    BY DEF Expire, ChatInv, PendingTyped
  <1>2. IsQuestion(q) /\ q.asked = pending[c].asked
    BY <1>1, ExpiredForm
  <1>3. pending' = [pending EXCEPT ![c] = q]
    BY DEF Expire
  <1> HIDE DEF q
  <1>4. PendingInherits
    BY <1>1, <1>2, <1>3, PendingChanges
  <1>5. UNCHANGED linked /\ UNCHANGED handling
    BY DEF Expire, identity
  <1> QED
    BY <1>4, <1>5, LinksStay, HandlingStays DEF Inherits

LEMMA PressKeeps ==
  ASSUME ChatInv, NEW c \in Chat, NEW code, Press(c, code)
  PROVE  Inherits
  <1>1. UNCHANGED linked /\ UNCHANGED pending
    BY DEF Press, identity
  <1>2. HandlingInherits
    <2>1. CASE handling' = None
      BY <2>1 DEF HandlingInherits
    <2>2. ASSUME NEW p \in LinkedPerson(c), NEW t, handling' = Update(c, p, code, t, None)
          PROVE  HandlingInherits
      BY <2>2 DEF Update, IsUpdate, HandlingInherits
    <2> QED
      BY <2>1, <2>2 DEF Press
  <1> QED
    BY <1>1, <1>2, LinksStay, PendingStays DEF Inherits

\* An answer is handled in the name of whom the question was put to.
LEMMA AnswerInherits ==
  ASSUME ChatInv, NEW c \in Chat, NEW k, NEW t, pending[c] # None,
         handling' \in {None, Update(c, None, k, t, pending[c].asked)}
  PROVE  HandlingInherits
  BY DEF Update, IsUpdate, HandlingInherits

LEMMA TextKeeps ==
  ASSUME ChatInv, NEW c \in Chat, Text(c) \/ ProgressItem(c)
  PROVE  Inherits
  <1>1. UNCHANGED linked
    BY DEF Text, ProgressItem, identity
  <1>2. PendingInherits
    BY PendingEmpties, PendingStays, AddProgressCloses DEF Text, ProgressItem
  <1>3. CASE Text(c)
    <2>1. handling' \in {None, Update(c, None, pending[c].kind, pending[c].token, pending[c].asked)}
      BY <1>3 DEF Text
    <2>2. pending[c] # None
      BY <1>3 DEF Text
    <2> QED
      BY <1>1, <1>2, <2>1, <2>2, LinksStay, AnswerInherits DEF Inherits
  <1>4. CASE ProgressItem(c)
    <2>1. handling' \in {None, Update(c, None, "task_add_progress", 0, pending[c].asked)}
      BY <1>4 DEF ProgressItem
    <2>2. pending[c] # None
      BY <1>4 DEF ProgressItem, Progressing
    <2> QED
      BY <1>1, <1>2, <2>1, <2>2, LinksStay, AnswerInherits DEF Inherits
  <1> QED
    BY <1>3, <1>4

LEMMA RemovalKeeps ==
  ASSUME ChatInv, NEW c \in Chat,
         Command(c) \/ \E kinds : Removes(c, kinds)
  PROVE  Inherits
  <1>1. UNCHANGED linked /\ UNCHANGED handling
    BY DEF Command, Removes, identity
  <1>2. PendingInherits
    BY PendingEmpties, AddProgressCloses DEF Command, Removes
  <1> QED
    BY <1>1, <1>2, LinksStay, HandlingStays DEF Inherits

LEMMA AskKeeps ==
  ASSUME ChatInv, NEW c \in Chat, NEW k, AskGateQuestion(c, k)
  PROVE  Inherits
  <1>1. UNCHANGED linked /\ UNCHANGED handling
    BY DEF AskGateQuestion, identity
  <1>2. PICK p \in LinkedPerson(c) : pending' = [pending EXCEPT ![c] = Question(k, 0, p)]
    BY DEF AskGateQuestion
  <1> DEFINE q == Question(k, 0, p)
  <1>3. IsQuestion(q) /\ q.asked \in LinkedPerson(c)
    BY QuestionForm
  <1>4. pending' = [pending EXCEPT ![c] = q]
    BY <1>2
  <1> HIDE DEF q
  <1>5. PendingInherits
    BY <1>3, <1>4, PendingChanges
  <1> QED
    BY <1>1, <1>5, LinksStay, HandlingStays DEF Inherits

\* The person found linked to the answer's chat is who it is handled for.
LEMMA IdentifyKeeps ==
  ASSUME ChatInv, Identify
  PROVE  Inherits
  <1>1. UNCHANGED linked
    BY DEF Identify, identity
  <1>2. handling # None /\ IsUpdate(handling) /\ handling.chat \in Chat
    BY DEF Identify, Answering, ChatInv, HandlingTyped
  <1>3. PendingInherits
    BY <1>2, PendingStays, AddProgressCloses DEF Identify
  <1>4. HandlingInherits
    <2>1. CASE handling' = None
      BY <2>1 DEF HandlingInherits
    <2>2. ASSUME NEW p \in LinkedPerson(handling.chat),
                 handling' = [handling EXCEPT !.who = p, !.asked = None, !.fresh = TRUE]
          PROVE  HandlingInherits
      <3>1. PICK c, w, code, t, a, f :
              handling = [chat |-> c, who |-> w, code |-> code, token |-> t, asked |-> a, fresh |-> f]
        BY <1>2 DEF IsUpdate
      <3>2. handling' = [chat |-> c, who |-> p, code |-> code, token |-> t, asked |-> None, fresh |-> TRUE]
        BY <2>2, <3>1
      <3>3. IsUpdate(handling')
        BY <3>2 DEF IsUpdate
      <3> QED
        BY <1>2, <2>2, <3>1, <3>2, <3>3 DEF HandlingInherits
    <2> QED
      BY <2>1, <2>2 DEF Identify
  <1> QED
    BY <1>1, <1>3, <1>4, LinksStay DEF Inherits

\* A handler's question is put to the person it handles the update for.
LEMMA PutsKeeps ==
  ASSUME ChatInv, NEW k, Puts(k), handling # None, handling.who # None
  PROVE  Inherits
  <1>1. UNCHANGED linked /\ handling' = None
    BY DEF Puts, Done, identity
  <1>2. handling.chat \in Chat
    BY DEF ChatInv, HandlingTyped
  <1> DEFINE q == Question(k, handling.token, handling.who)
  <1>3. IsQuestion(q) /\ q.asked = handling.who
    BY QuestionForm
  <1>4. pending' = [pending EXCEPT ![handling.chat] = q]
    BY DEF Puts
  <1> HIDE DEF q
  <1>5. PendingInherits
    BY <1>2, <1>3, <1>4, PendingChanges
  <1> QED
    BY <1>1, <1>5, LinksStay DEF Inherits, HandlingInherits

LEMMA SucceedsKeeps ==
  ASSUME ChatInv, NEW code, Succeeds(code), handling # None
  PROVE  Inherits
  <1>1. UNCHANGED linked /\ handling' = None
    BY DEF Succeeds, Done, identity
  <1>2. handling.chat \in Chat
    BY DEF ChatInv, HandlingTyped
  <1>3. PendingInherits
    BY <1>2, PendingStays, AddProgressCloses DEF Succeeds
  <1> QED
    BY <1>1, <1>3, LinksStay DEF Inherits, HandlingInherits

LEMMA EndKeeps ==
  ASSUME ChatInv, Refuse \/ RunGateCommand \/ Crash
  PROVE  Inherits
  <1>1. UNCHANGED linked /\ handling' = None /\ handling # None
    BY DEF Refuse, RunGateCommand, Crash, Done, identity, Answered
  <1>2. handling.chat \in Chat
    BY <1>1 DEF ChatInv, HandlingTyped
  <1>3. PendingInherits
    BY <1>2, PendingStays, AddProgressCloses DEF Refuse, RunGateCommand, Crash
  <1> QED
    BY <1>1, <1>3, LinksStay DEF Inherits, HandlingInherits

\* The service behind a press or an answer, and the question a handler puts.
LEMMA HandlersKeep ==
  ASSUME ChatInv,
         \/ StatusButton \/ StartEarly \/ OpenAddProgress \/ StoreProgress
         \/ ReviewButton \/ DecideVerification \/ ApprovalButton \/ DecideApproval
         \/ ReportBlocker \/ BlockerAnswer \/ ResolveBlocker
         \/ ReadinessButton \/ DeclareReadiness \/ ReportDelay \/ DelayAnswer \/ Acknowledge
  PROVE  Inherits
  <1>1. ASSUME NEW code, ServesPress(code) PROVE Inherits
    BY <1>1, SucceedsKeeps DEF ServesPress, Pressed
  <1>2. ASSUME NEW q, ServesAnswer(q) PROVE Inherits
    BY <1>2, SucceedsKeeps DEF ServesAnswer, Answered
  <1>3. ASSUME NEW code, NEW q, PressPuts(code, q) PROVE Inherits
    BY <1>3, PutsKeeps DEF PressPuts, Pressed
  <1>4. ASSUME NEW a, NEW q, AnswerPuts(a, q) PROVE Inherits
    BY <1>4, PutsKeeps DEF AnswerPuts, Answered
  <1>5. CASE StatusButton \/ StartEarly \/ OpenAddProgress \/ StoreProgress
    BY <1>1, <1>2, <1>3, <1>5 DEF StatusButton, StartEarly, OpenAddProgress, StoreProgress
  <1>6. CASE ReviewButton \/ DecideVerification \/ ApprovalButton \/ DecideApproval
    BY <1>1, <1>2, <1>3, <1>6 DEF ReviewButton, DecideVerification, ApprovalButton, DecideApproval
  <1>7. CASE ReportBlocker \/ BlockerAnswer \/ ResolveBlocker
    BY <1>1, <1>2, <1>3, <1>4, <1>7 DEF ReportBlocker, BlockerAnswer, ResolveBlocker
  <1>8. CASE ReadinessButton \/ DeclareReadiness \/ ReportDelay \/ DelayAnswer \/ Acknowledge
    BY <1>1, <1>2, <1>3, <1>4, <1>8 DEF ReadinessButton, DeclareReadiness, ReportDelay, DelayAnswer, Acknowledge
  <1> QED
    BY <1>5, <1>6, <1>7, <1>8

\* A chat that gets an owner had none, no update is at hand, and whatever was
\* asked in it before is gone.
LEMMA StartKeeps ==
  ASSUME ChatInv, NEW d \in Chat, NEW p \in Person, Start(d, p)
  PROVE  ChatInv'
  <1>1. handling = None /\ handling' = None
    BY DEF Start, Receive
  <1>2. CASE linked[p] = d
    <2>1. UNCHANGED linked /\ UNCHANGED pending
      BY <1>2 DEF Start, ChatInv, LinksTyped
    <2> QED
      BY <1>1, <2>1, LinksStay, PendingStays, InheritsKeeps DEF Inherits, HandlingInherits
  <1>3. CASE linked[p] = None /\ LinkedPerson(d) = {}
    <2>1. linked' = [linked EXCEPT ![p] = d] /\ linked \in [Person -> Chat \cup {None}]
      BY DEF Start, ChatInv, LinksTyped
    <2>2. linked[p] # d
      BY <1>3, ConstantsAssumption
    <2>3. pending' = [pending EXCEPT ![d] = None]
      BY <2>2 DEF Start
    <2>4. PendingInherits
      BY <2>3, PendingEmpties
    <2>5. LinksTyped' /\ HandlingTyped' /\ HandledForOwner'
      BY <1>1, <2>1 DEF LinksTyped, HandlingTyped, HandledForOwner
    <2>6. PendingTyped'
      BY <2>4 DEF PendingInherits, AskedRightly, PendingTyped, ChatInv
    <2>7. \A q \in Person : linked[q] # d
      BY <1>3 DEF LinkedPerson
    <2>8. \A q, r \in Person : q # r /\ linked'[q] = linked'[r] => linked'[q] = None
      BY <2>1, <2>7 DEF ChatInv, ChatSound
    <2>9. ASSUME NEW c \in Chat, pending'[c] # None
          PROVE  OwnersAfter(c) \subseteq {pending'[c].asked}
      <3>1. c # d /\ pending'[c] = pending[c]
        BY <2>3, <2>9 DEF ChatInv, PendingTyped
      <3>2. OwnersAfter(c) \subseteq LinkedPerson(c)
        BY <2>1, <3>1 DEF OwnersAfter, LinkedPerson
      <3> QED
        BY <2>9, <3>1, <3>2 DEF ChatInv, ChatSound
    <2>10. ChatSound'
      BY <1>1, <2>8, <2>9 DEF ChatSound, Answering, LinkedPerson, OwnersAfter
    <2> QED
      BY <2>5, <2>6, <2>10 DEF ChatInv
  <1> QED
    BY <1>2, <1>3 DEF Start

-----------------------------------------------------------------------------
LEMMA StutterKeeps == ChatInv /\ (UNCHANGED vars \/ PredecessorSatisfied) => Inherits
  BY LinksStay, PendingStays, HandlingStays DEF vars, PredecessorSatisfied, identity, Inherits

\* Every step hands the names on, or links somebody to a chat nobody has.
LEMMA StepKeeps == ChatInv /\ [Next]_vars => ChatInv'
  <1> SUFFICES ASSUME ChatInv, Next PROVE ChatInv'
    BY StutterKeeps, InheritsKeeps
  <1>1. ASSUME NEW p \in Person,
               \/ WebStatus(p) \/ WebProgress(p) \/ WebVerify(p) \/ WebApprove(p)
               \/ WebCreateBlocker(p) \/ WebResolveBlocker(p)
        PROVE  ChatInv'
    BY <1>1, WebKeeps, InheritsKeeps
  <1>2. ASSUME NEW p \in Person,
               \/ AssignSupport(p) \/ EndSupport(p) \/ EndMembership(p) \/ GenerateCode(p)
               \/ Unlink(p) \/ \E event \in Event : Send(event, p)
        PROVE  ChatInv'
    BY <1>2, TeamKeeps, UnlinkKeeps, InheritsKeeps
  <1>3. ASSUME NEW c \in Chat,
               Expire(c) \/ Text(c) \/ ProgressItem(c) \/ \E code : Press(c, code)
        PROVE  ChatInv'
    BY <1>3, ExpireKeeps, TextKeeps, PressKeeps, InheritsKeeps
  <1>4. ASSUME NEW c \in Chat,
               \/ Command(c)
               \/ \E q \in GateQuestion : AskGateQuestion(c, q)
               \/ \E kinds : Removes(c, kinds)
        PROVE  ChatInv'
    BY <1>4, RemovalKeeps, AskKeeps, InheritsKeeps
  <1>5. ASSUME NEW c \in Chat,
               \/ CancelEarlyStart(c) \/ DoneAdding(c) \/ CancelReview(c) \/ CancelApproval(c)
               \/ CancelBlocker(c) \/ CancelQuestion(c) \/ GateAnswerButton(c)
        PROVE  \E kinds : Removes(c, kinds)
    BY <1>5 DEF CancelEarlyStart, DoneAdding, CancelReview, CancelApproval, CancelBlocker,
                CancelQuestion, GateAnswerButton
  <1>6. ASSUME \/ StatusButton \/ StartEarly \/ OpenAddProgress \/ StoreProgress
               \/ ReviewButton \/ DecideVerification \/ ApprovalButton \/ DecideApproval
               \/ ReportBlocker \/ BlockerAnswer \/ ResolveBlocker
               \/ ReadinessButton \/ DeclareReadiness \/ ReportDelay \/ DelayAnswer \/ Acknowledge
        PROVE  ChatInv'
    BY <1>6, HandlersKeep, InheritsKeeps
  <1>7. ASSUME Identify \/ Refuse \/ RunGateCommand \/ Crash \/ PredecessorSatisfied PROVE ChatInv'
    BY <1>7, IdentifyKeeps, EndKeeps, StutterKeeps, InheritsKeeps
  <1> QED
    BY <1>1, <1>2, <1>3, <1>4, <1>5, <1>6, <1>7, StartKeeps DEF Next

\* Whatever a chat is asked or answers, it is asked of and answered by the
\* person it belongs to now, through unlinking, linking anew, expiry and crashes.
THEOREM ChatsAreSound == Spec => []ChatSound
  <1>1. ChatInv => ChatSound
    BY DEF ChatInv
  <1> QED
    BY InitChat, StepKeeps, <1>1, PTL DEF Spec

-----------------------------------------------------------------------------
(* What messages offer. These hold of any task, team and decision, so no    *)
(* invariant is needed: the rules of rendering imply those of the services, *)
(* the exceptions apart that FreshButtonsWork names.                        *)

\* FreshButtonsWork, for one button.
Works(p, code) ==
  \/ code = "as" /\ MayAcknowledge(p)
  \/ Allowed(p, code) /\ ~ReviewRefusal(code, task.submission)
  \/ code \in {"rd", "st"} /\ ~MayProceed
  \/ code = "sb" /\ (UndelegatedGate \/ ~task.logged)
  \/ code \in {"vf", "vr"} /\ SubmittedByAnother

LEMMA StartWorks == ASSUME NEW p \in Insider PROVE \A code \in StartActions(p) : Works(p, code)
  <1>1. CanMarkReady(p) => Works(p, "rd")
    BY DEF CanMarkReady, Works, Allowed, ReviewRefusal
  <1>2. CanStart(p) => Works(p, "st")
    BY DEF CanStart, MayExecute, Works, Allowed, ReviewRefusal
  <1> QED
    BY <1>1, <1>2 DEF StartActions, When

LEMMA ProgressWorks ==
  ASSUME NEW p \in Insider
  PROVE  \A code \in ProgressAndSubmitActions(p) \cup ProgressActions(p) : Works(p, code)
  <1>1. CanLogProgress(p) => Works(p, "ap")
    BY DEF CanLogProgress, MayLog, Works, Allowed, ReviewRefusal
  <1>2. CanLogProgress(p) => Works(p, "sb")
    BY DEF CanLogProgress, MayExecute, UndelegatedGate, Works, Allowed, ReviewRefusal
  <1> QED
    BY <1>1, <1>2 DEF ProgressAndSubmitActions, ProgressActions, When

LEMMA AdvisoryWorks ==
  ASSUME NEW p \in Insider
  PROVE  \A code \in ReportBlockerActions(p) \cup ReportDelayActions(p) \cup ReadinessActions(p)
                     \cup RenderBlockerCreated(p) : Works(p, code)
  <1>1. Works(p, "rb") /\ Works(p, "dl") /\ Works(p, "yr") /\ Works(p, "yh")
    BY DEF Works, Allowed, ReviewRefusal, MayReportBlocker, MayRecordDelay, MayDeclareReadiness
  <1>2. MayResolve(p) => Works(p, "bs")
    BY DEF Works, Allowed, ReviewRefusal
  <1> QED
    BY <1>1, <1>2 DEF ReportBlockerActions, ReportDelayActions, ReadinessActions, RenderBlockerCreated, When

LEMMA ReviewWorks == ASSUME NEW p \in Insider PROVE \A code \in ReviewActions(p) : Works(p, code)
  <1>1. ASSUME AwaitsReview, p \in Admins \/ p \in Accountable \ {task.by}, ~SubmittedByAnother,
               NEW code \in {"vf", "vr"}
        PROVE  Works(p, code)
    <2>1. MayVerify(p)
      BY <1>1 DEF MayVerify, SubmittedByAnother
    <2>2. Allowed(p, code)
      BY <1>1, <2>1 DEF Allowed
    <2>3. ~ReviewRefusal(code, task.submission)
      BY <1>1 DEF ReviewRefusal, AwaitsReview
    <2> QED
      BY <2>2, <2>3 DEF Works
  <1>2. ASSUME SubmittedByAnother, NEW code \in {"vf", "vr"} PROVE Works(p, code)
    BY <1>2 DEF Works
  <1> QED
    BY <1>1, <1>2 DEF ReviewActions, When

LEMMA ApprovalWorks == ASSUME NEW p \in Insider PROVE \A code \in ApprovalActions(p) : Works(p, code)
  <1>1. ASSUME MayApprove(p), NEW code \in {"pa", "pr"} PROVE Works(p, code)
    BY <1>1 DEF MayApprove, Works, Allowed, ReviewRefusal
  <1> QED
    BY <1>1 DEF ApprovalActions, MayApprove, When

LEMMA AssignedWorks == ASSUME NEW p \in Insider PROVE \A code \in RenderSupportAssigned(p) : Works(p, code)
  <1>1. MayAcknowledge(p) => Works(p, "as")
    BY DEF Works
  <1> QED
    BY <1>1, StartWorks DEF RenderSupportAssigned, When

LEMMA RenderWorks ==
  ASSUME NEW event \in Event, NEW p \in Insider, NEW code \in Render(event, p)
  PROVE  Works(p, code)
  <1>1. CASE event \in {"ready", "start_check"}
    BY <1>1, StartWorks, AdvisoryWorks DEF Render, RenderStartCheck
  <1>2. CASE event \in {"started", "rework"}
    BY <1>2, ProgressWorks, AdvisoryWorks DEF Render, RenderStarted, RenderRework
  <1>3. CASE event = "submitted"
    BY <1>3, ReviewWorks, ApprovalWorks DEF Render, RenderSubmitted
  <1>4. CASE event = "verification_recorded"
    BY <1>4, ApprovalWorks DEF Render, RenderVerificationRecorded, When
  <1>5. CASE event = "support_assigned"
    BY <1>5, AssignedWorks DEF Render
  <1>6. CASE event \in {"blocker_created", "prestart_warning", "readiness_check"}
    BY <1>6, AdvisoryWorks DEF Render
  <1>7. CASE event \in {"midday_check", "eod_check", "overdue"}
    BY <1>7, ProgressWorks, AdvisoryWorks DEF Render, RenderMiddayCheck, RenderEodCheck, RenderOverdue
  <1> QED
    BY <1>1, <1>2, <1>3, <1>4, <1>5, <1>6, <1>7 DEF Event

\* Where there is a [Submit] there is an [Add Progress] that works.
LEMMA SubmitWithProgress ==
  ASSUME NEW event \in Event, NEW p \in Insider, "sb" \in Render(event, p)
  PROVE  "ap" \in Render(event, p) /\ Allowed(p, "ap")
  <1> DEFINE Asks == {"rb", "dl", "yr", "yh", "bs", "as", "rd", "st", "vf", "vr", "pa", "pr"}
  <1>1. /\ ReportBlockerActions(p) \subseteq Asks /\ ReportDelayActions(p) \subseteq Asks
        /\ ReadinessActions(p) \subseteq Asks /\ RenderBlockerCreated(p) \subseteq Asks
        /\ StartActions(p) \subseteq Asks /\ RenderSupportAssigned(p) \subseteq Asks
    BY DEF ReportBlockerActions, ReportDelayActions, ReadinessActions, RenderBlockerCreated, StartActions,
           RenderSupportAssigned, When
  <1>2. /\ RenderSubmitted(p) \subseteq Asks /\ RenderVerificationRecorded(p) \subseteq Asks
    BY DEF RenderSubmitted, RenderVerificationRecorded, ReviewActions, ApprovalActions, When
  <1>3. "sb" \notin ProgressActions(p) /\ "sb" \notin Asks
    BY DEF ProgressActions, When
  <1>4. "sb" \in ProgressAndSubmitActions(p) => "ap" \in ProgressAndSubmitActions(p) /\ Allowed(p, "ap")
    BY DEF ProgressAndSubmitActions, When, CanLogProgress, MayLog, Allowed
  <1> HIDE DEF Asks
  <1>5. CASE event \in {"ready", "start_check", "started", "support_assigned"}
    BY <1>1, <1>3, <1>5 DEF Render, RenderStartCheck, RenderStarted
  <1>6. CASE event \in {"submitted", "verification_recorded", "blocker_created", "prestart_warning", "readiness_check"}
    BY <1>1, <1>2, <1>3, <1>6 DEF Render
  <1>7. CASE event \in {"rework", "midday_check", "eod_check", "overdue"}
    BY <1>1, <1>3, <1>4, <1>7 DEF Render, RenderRework, RenderMiddayCheck, RenderEodCheck, RenderOverdue
  <1> QED
    BY <1>5, <1>6, <1>7 DEF Event

\* Of any task and team, a member is offered only what the services allow, but
\* for the four exceptions of FreshButtonsWork.
THEOREM ButtonsWork == Spec => []FreshButtonsWork
  <1>1. ASSUME NEW event \in Event, NEW p \in Insider, NEW code \in Render(event, p)
        PROVE  \/ code = "as" /\ MayAcknowledge(p)
               \/ Allowed(p, code) /\ ~ReviewRefusal(code, task.submission)
               \/ code \in {"rd", "st"} /\ ~MayProceed
               \/ code = "sb" /\ (UndelegatedGate \/ MissingProgress(Render(event, p), p))
               \/ code \in {"vf", "vr"} /\ SubmittedByAnother
    BY <1>1, RenderWorks, SubmitWithProgress DEF Works, MissingProgress
  <1>2. FreshButtonsWork
    BY <1>1 DEF FreshButtonsWork
  <1> QED
    BY <1>2, PTL

\* Who may decide on a submission is asked, or an Admin who may is.
LEMMA SubmissionOffered ==
  ASSUME task.status = "submitted", ~SubmittedByAnother, NEW p \in Person, MayVerify(p) \/ MayApprove(p)
  PROVE  Decider("submitted", {"vf", "pa"}) # {}
  <1>1. SUFFICES \E q \in Recipients("submitted") :
                   \E code \in RenderSubmitted(q) \cap {"vf", "pa"} : Allowed(q, code)
    BY DEF Decider, Render
  <1>2. Accountable \cup When(SubmissionNeedsAdmin, Admins) \subseteq Recipients("submitted")
    BY DEF Recipients, OnlyActiveMembers, PmSupervisorRecipients, AdminRecipients, When
  <1>3. CASE kind = "approval_gate"
    <2>1. MayApprove(p) /\ AwaitsApproval /\ p \in Admins \cup {seat.manager}
      BY <1>3 DEF MayVerify, MayApprove, AwaitsReview
    <2>2. p \in Insider /\ (p \notin Admins => p \in Accountable)
      BY <2>1, ConstantsAssumption DEF Insider, Accountable
    <2>3. "pa" \in RenderSubmitted(p) /\ Allowed(p, "pa")
      BY <1>3, <2>1, <2>2 DEF RenderSubmitted, ApprovalActions, When, MayApprove, Allowed
    <2>4. CASE p \in Recipients("submitted")
      BY <2>3, <2>4
    <2>5. CASE seat.manager = None
      <3>1. p \in Admins
        BY <2>1, <2>5, ConstantsAssumption
      <3> QED
        BY <1>2, <1>3, <2>3, <2>5, <3>1 DEF SubmissionNeedsAdmin, When
    <2>6. CASE seat.manager # None /\ p # seat.manager
      <3>1. seat.manager \in Accountable /\ seat.manager \in Insider
        BY <2>6 DEF Accountable, Insider
      <3>2. ~IneligibleApprover(seat.manager)
        BY <1>3 DEF IneligibleApprover
      <3>3. "pa" \in RenderSubmitted(seat.manager) /\ Allowed(seat.manager, "pa")
        BY <1>3, <2>1, <3>1, <3>2 DEF RenderSubmitted, ApprovalActions, When, MayApprove, Allowed
      <3> QED
        BY <1>2, <3>1, <3>3
    <2>7. CASE p = seat.manager /\ seat.manager # None
      BY <1>2, <2>3, <2>7 DEF Accountable
    <2> QED
      BY <2>5, <2>6, <2>7
  <1>4. CASE kind # "approval_gate"
    <2>1. MayVerify(p) /\ AwaitsReview
      BY <1>4 DEF MayApprove, AwaitsApproval, MayVerify
    <2>2. ASSUME NEW q \in Admins \cup (Accountable \ {task.by})
          PROVE  "vf" \in RenderSubmitted(q) /\ Allowed(q, "vf")
      <3>1. MayVerify(q) /\ q \in Insider
        BY <2>1, <2>2 DEF MayVerify, SubmittedByAnother, Insider
      <3>2. "vf" \in ReviewActions(q)
        BY <2>1, <2>2 DEF ReviewActions, When
      <3>3. RenderSubmitted(q) = ReviewActions(q)
        BY <1>4, <2>2 DEF RenderSubmitted
      <3> QED
        BY <3>1, <3>2, <3>3 DEF Allowed
    <2>3. CASE Accountable \subseteq {task.by}
      <3>1. p \in Admins
        BY <2>1, <2>3 DEF MayVerify, SubmittedByAnother
      <3>2. p \in Recipients("submitted")
        BY <1>2, <1>4, <2>3, <3>1 DEF SubmissionNeedsAdmin, When
      <3> QED
        BY <2>2, <3>1, <3>2
    <2>4. CASE \E q \in Accountable : q # task.by
      BY <1>2, <2>2, <2>4
    <2> QED
      BY <2>3, <2>4
  <1> QED
    BY <1>3, <1>4

\* Who may approve verified work is asked, or an Admin who may is.
LEMMA ApprovalOffered ==
  ASSUME task.status = "verified", NEW p \in Person, MayApprove(p)
  PROVE  Decider("verification_recorded", {"pa"}) # {}
  <1>1. SUFFICES \E q \in Recipients("verification_recorded") :
                   "pa" \in RenderVerificationRecorded(q) /\ Allowed(q, "pa")
    BY DEF Decider, Render
  <1>2. Accountable \cup When(ApprovalNeedsAdmin, Admins) \subseteq Recipients("verification_recorded")
    BY DEF Recipients, OnlyActiveMembers, PmSupervisorRecipients, AdminRecipients, When
  <1>3. kind = "class_a" /\ AwaitsApproval /\ p \in Admins \cup {seat.manager}
    BY DEF MayApprove, AwaitsApproval
  <1>4. ASSUME NEW q \in Insider, MayApprove(q)
        PROVE  "pa" \in RenderVerificationRecorded(q) /\ Allowed(q, "pa")
    BY <1>3, <1>4 DEF RenderVerificationRecorded, ApprovalActions, When, MayApprove, Allowed
  <1>5. CASE ApprovalNeedsAdmin
    <2>1. p \in Admins
      BY <1>3, <1>5, ConstantsAssumption DEF ApprovalNeedsAdmin, MayApprove
    <2>2. p \in Insider /\ p \in Recipients("verification_recorded")
      BY <1>2, <1>5, <2>1 DEF Insider, When
    <2> QED
      BY <1>4, <2>2
  <1>6. CASE ~ApprovalNeedsAdmin
    <2>1. seat.manager # None /\ ~IneligibleApprover(seat.manager)
      BY <1>3, <1>6 DEF ApprovalNeedsAdmin
    <2>2. seat.manager \in Accountable /\ seat.manager \in Insider /\ MayApprove(seat.manager)
      BY <1>3, <2>1 DEF Accountable, Insider, MayApprove
    <2> QED
      BY <1>2, <1>4, <2>2
  <1> QED
    BY <1>5, <1>6

\* Of any task and team: whenever somebody may decide, somebody who may is asked.
THEOREM DecisionsAreOffered == Spec => []DecisionIsOffered
  <1>1. DecisionIsOffered
    BY SubmissionOffered, ApprovalOffered DEF DecisionIsOffered
  <1> QED
    BY <1>1, PTL

-----------------------------------------------------------------------------
(* What a decision is about. *)

\* Who handles a review, and has not been overtaken, looks at the submission
\* under review.
SeesSubmission ==
  handling # None /\ handling.who # None /\ handling.fresh /\ ByReview(handling.code)
    => handling.token = task.submission

\* What is asked, and answered, is one of the questions.
Asked == TaskQuestion \cup GateQuestion
QuestionsAreAsked ==
  /\ \A c \in Chat : pending[c] # None => pending[c].kind \in Asked
  /\ Answering => handling.code \in Asked

ReviewInv == SeesSubmission /\ QuestionsAreAsked

PendingAsks == \A c \in Chat : pending'[c] # None => pending'[c].kind \in Asked

LEMMA InitReview == Init => ReviewInv
  BY DEF Init, ReviewInv, SeesSubmission, QuestionsAreAsked, Answering

LEMMA AsksWithout ==
  ASSUME ChatInv, ReviewInv, NEW d \in Chat,
         \/ UNCHANGED pending
         \/ pending' = [pending EXCEPT ![d] = None]
         \/ pending' = CloseAddProgress(d)
  PROVE  PendingAsks
  BY DEF ChatInv, PendingTyped, ReviewInv, QuestionsAreAsked, CloseAddProgress, PendingAsks

LEMMA AsksAnew ==
  ASSUME ChatInv, ReviewInv, NEW d \in Chat, NEW q, q.kind \in Asked, pending' = [pending EXCEPT ![d] = q]
  PROVE  PendingAsks
  BY DEF ChatInv, PendingTyped, ReviewInv, QuestionsAreAsked, PendingAsks

\* The end of an update, whatever became of it.
LEMMA EndSees ==
  ASSUME PendingAsks, handling' = None
  PROVE  ReviewInv'
  BY DEF PendingAsks, ReviewInv, SeesSubmission, QuestionsAreAsked, Answering

\* A step that leaves the task and the update at hand alone.
LEMMA StillSees ==
  ASSUME ReviewInv, PendingAsks, UNCHANGED task, UNCHANGED handling
  PROVE  ReviewInv'
  BY DEF PendingAsks, ReviewInv, SeesSubmission, QuestionsAreAsked, Answering

\* An update taken up with a look at the submission under review, or a question.
LEMMA TakesUp ==
  ASSUME PendingAsks, UNCHANGED task,
         handling'.who # None /\ ByReview(handling'.code) => handling'.token = task.submission,
         handling'.who = None => handling'.code \in Asked
  PROVE  ReviewInv'
  BY DEF PendingAsks, ReviewInv, SeesSubmission, QuestionsAreAsked, Answering

\* A request of the Web App makes every look at the task an old one.
LEMMA OvertakenSees ==
  ASSUME ChatInv, ReviewInv, Overtaken, UNCHANGED pending
  PROVE  ReviewInv'
  <1>1. PendingAsks
    BY DEF ReviewInv, QuestionsAreAsked, PendingAsks
  <1>2. CASE handling = None
    BY <1>1, <1>2, EndSees DEF Overtaken
  <1>3. CASE handling # None
    <2>1. PICK c, p, code, t, a, f :
            handling = [chat |-> c, who |-> p, code |-> code, token |-> t, asked |-> a, fresh |-> f]
      BY <1>3 DEF ChatInv, HandlingTyped, IsUpdate
    <2>2. PICK g : g = ~ByReview(handling.code) /\ handling' = [handling EXCEPT !.fresh = g]
      BY <1>3 DEF Overtaken
    <2>3. handling' = [chat |-> c, who |-> p, code |-> code, token |-> t, asked |-> a, fresh |-> g]
      BY <2>1, <2>2
    <2>4. ByReview(handling'.code) => ~handling'.fresh
      BY <2>1, <2>2, <2>3
    <2>5. handling'.who = None => handling'.code \in Asked
      BY <1>3, <2>1, <2>3 DEF ReviewInv, QuestionsAreAsked, Answering
    <2> QED
      BY <1>1, <2>4, <2>5 DEF ReviewInv, SeesSubmission, QuestionsAreAsked, PendingAsks, Answering
  <1> QED
    BY <1>2, <1>3

\* The review buttons' own check, and the check on an answer's identity.
LEMMA PressSees ==
  ASSUME ChatInv, ReviewInv, NEW c \in Chat,
         NEW code \in {"rd", "st", "ap", "sb", "vf", "vr", "pa", "pr", "rb", "bs", "yr", "yh", "dl", "as"},
         Press(c, code)
  PROVE  ReviewInv'
  <1>1. UNCHANGED task /\ PendingAsks
    BY AsksWithout DEF Press
  <1>2. CASE handling' = None
    BY <1>1, <1>2, EndSees
  <1>3. CASE handling' # None
    <2>1. PICK p \in LinkedPerson(c) :
            /\ ~ReviewRefusal(code, screen[c].token)
            /\ handling' = Update(c, p, code, IF ByReview(code) THEN screen[c].token ELSE 0, None)
      BY <1>3 DEF Press, Refused
    <2>2. /\ handling'.code = code /\ handling'.who = p
          /\ handling'.token = IF ByReview(code) THEN screen[c].token ELSE 0
      BY <2>1 DEF Update
    <2>3. ByReview(code) => screen[c].token = task.submission
      BY <2>1 DEF ByReview, ReviewRefusal
    <2>4. p # None
      BY ConstantsAssumption DEF LinkedPerson
    <2> QED
      BY <1>1, <2>2, <2>3, <2>4, TakesUp
  <1> QED
    BY <1>2, <1>3

LEMMA TextSees ==
  ASSUME ChatInv, ReviewInv, NEW c \in Chat, Text(c) \/ ProgressItem(c)
  PROVE  ReviewInv'
  <1>1. UNCHANGED task /\ PendingAsks
    BY AsksWithout DEF Text, ProgressItem
  <1>2. CASE handling' = None
    BY <1>1, <1>2, EndSees
  <1>3. CASE handling' # None
    <2>1. PICK k, t, a : k \in Asked /\ handling' = Update(c, None, k, t, a)
      BY <1>3 DEF Text, ProgressItem, Progressing, ReviewInv, QuestionsAreAsked, Asked, TaskQuestion
    <2>2. handling'.who = None /\ handling'.code = k
      BY <2>1 DEF Update
    <2> QED
      BY <1>1, <2>1, <2>2, TakesUp
  <1> QED
    BY <1>2, <1>3

LEMMA IdentifySees ==
  ASSUME ChatInv, ReviewInv, Identify
  PROVE  ReviewInv'
  <1>1. handling.chat \in Chat /\ IsUpdate(handling)
    BY DEF Identify, Answering, ChatInv, HandlingTyped
  <1>2. UNCHANGED task /\ PendingAsks
    BY <1>1, AsksWithout DEF Identify
  <1>3. CASE handling' = None
    BY <1>2, <1>3, EndSees
  <1>4. CASE handling' # None
    <2>1. PICK c, w, code, t, a, f :
            handling = [chat |-> c, who |-> w, code |-> code, token |-> t, asked |-> a, fresh |-> f]
      BY <1>1 DEF IsUpdate
    <2>2. PICK p \in LinkedPerson(handling.chat) :
             /\ CodeOf(handling.code) # "gate" => ~ReviewRefusal(CodeOf(handling.code), handling.token)
             /\ handling' = [handling EXCEPT !.who = p, !.asked = None, !.fresh = TRUE]
      BY <1>4 DEF Identify
    <2>3. handling' = [chat |-> c, who |-> p, code |-> code, token |-> t, asked |-> None, fresh |-> TRUE]
      BY <2>1, <2>2
    <2>4. p # None
      BY ConstantsAssumption DEF LinkedPerson
    <2>5. CASE code \in {"task_verify_reject_reason", "task_approval_reject_reason"}
      <3>1. CodeOf(code) \in {"vr", "pr"}
        BY <2>5 DEF CodeOf
      <3>2. t = task.submission
        BY <2>1, <2>2, <3>1 DEF ReviewRefusal
      <3> QED
        BY <1>2, <2>3, <2>4, <3>2, TakesUp
    <2>6. CASE ~ByReview(code)
      BY <1>2, <2>3, <2>4, <2>6, TakesUp
    <2>7. code \in Asked
      BY <2>1 DEF Identify, ReviewInv, QuestionsAreAsked
    <2> QED
      BY <2>5, <2>6, <2>7 DEF ByReview, Asked, TaskQuestion, GateQuestion
  <1> QED
    BY <1>3, <1>4

\* Requests of the Web App, and what happens between two updates.
LEMMA OutsideSees ==
  ASSUME ChatInv, ReviewInv, NEW p \in Person,
         \/ WebStatus(p) \/ WebProgress(p) \/ WebVerify(p) \/ WebApprove(p)
         \/ WebCreateBlocker(p) \/ WebResolveBlocker(p)
         \/ AssignSupport(p) \/ EndSupport(p) \/ EndMembership(p) \/ GenerateCode(p) \/ Unlink(p)
         \/ \E event \in Event : Send(event, p)
  PROVE  ReviewInv'
  <1>1. CASE \/ WebStatus(p) \/ WebProgress(p) \/ WebVerify(p) \/ WebApprove(p)
             \/ WebCreateBlocker(p) \/ WebResolveBlocker(p)
    <2>1. Overtaken /\ UNCHANGED pending
      BY <1>1 DEF WebStatus, WebProgress, WebVerify, WebApprove, WebTask, WebCreateBlocker, WebResolveBlocker, Change
    <2> QED
      BY <2>1, OvertakenSees
  <1>2. CASE \/ AssignSupport(p) \/ EndSupport(p) \/ EndMembership(p) \/ GenerateCode(p)
             \/ \E event \in Event : Send(event, p)
    <2>1. UNCHANGED task /\ UNCHANGED handling /\ UNCHANGED pending
      BY <1>2 DEF AssignSupport, EndSupport, EndMembership, GenerateCode, Send, Move
    <2>2. PendingAsks
      BY <2>1 DEF ReviewInv, QuestionsAreAsked, PendingAsks
    <2> QED
      BY <2>1, <2>2, StillSees
  <1>3. CASE Unlink(p)
    <2>1. UNCHANGED task /\ UNCHANGED handling
      BY <1>3 DEF Unlink, Move
    <2>2. linked[p] \in Chat
      BY <1>3 DEF ChatInv, LinksTyped, Unlink
    <2>3. PendingAsks
      BY <1>3, <2>2, AsksWithout DEF Unlink
    <2> QED
      BY <2>1, <2>3, StillSees
  <1> QED
    BY <1>1, <1>2, <1>3

LEMMA QuestionsSee ==
  ASSUME ChatInv, ReviewInv, NEW c \in Chat,
         \/ Expire(c) \/ Command(c)
         \/ \E kinds : Removes(c, kinds)
         \/ \E q \in GateQuestion : AskGateQuestion(c, q)
         \/ \E p \in Person : Start(c, p)
  PROVE  ReviewInv'
  <1>1. UNCHANGED task /\ UNCHANGED handling
    BY DEF Expire, Command, Removes, AskGateQuestion, Start, Receive
  <1>2. CASE Expire(c)
    <2>1. IsQuestion(pending[c]) /\ pending[c].kind \in Asked
      BY <1>2 DEF Expire, ChatInv, PendingTyped, ReviewInv, QuestionsAreAsked
    <2> DEFINE q == [pending[c] EXCEPT !.open = FALSE]
    <2>2. q.kind \in Asked
      BY <2>1, ExpiredForm
    <2>3. pending' = [pending EXCEPT ![c] = q]
      BY <1>2 DEF Expire
    <2> HIDE DEF q
    <2> QED
      BY <1>1, <2>2, <2>3, AsksAnew, StillSees
  <1>3. CASE Command(c) \/ (\E kinds : Removes(c, kinds)) \/ \E p \in Person : Start(c, p)
    <2>1. PendingAsks
      BY <1>3, AsksWithout DEF Command, Removes, Start
    <2> QED
      BY <1>1, <2>1, StillSees
  <1>4. ASSUME NEW k \in GateQuestion, AskGateQuestion(c, k) PROVE ReviewInv'
    <2>1. PICK p : pending' = [pending EXCEPT ![c] = Question(k, 0, p)]
      BY <1>4 DEF AskGateQuestion
    <2>2. Question(k, 0, p).kind \in Asked
      BY DEF Question, Asked
    <2> QED
      BY <1>1, <2>1, <2>2, AsksAnew, StillSees
  <1> QED
    BY <1>2, <1>3, <1>4

\* Handlers end their update; what they put is a question.
LEMMA HandlerSees ==
  ASSUME ChatInv, ReviewInv, handling # None,
         \/ \E k \in Asked : Puts(k)
         \/ \E code : Succeeds(code)
         \/ Refuse \/ RunGateCommand \/ Crash
  PROVE  ReviewInv'
  <1>1. handling' = None
    BY DEF Puts, Succeeds, Refuse, RunGateCommand, Crash, Done
  <1>2. handling.chat \in Chat
    BY DEF ChatInv, HandlingTyped
  <1>3. ASSUME NEW k \in Asked, Puts(k) PROVE PendingAsks
    <2>1. Question(k, handling.token, handling.who).kind \in Asked
      BY DEF Question
    <2> QED
      BY <1>2, <1>3, <2>1, AsksAnew DEF Puts
  <1>4. ASSUME (\E code : Succeeds(code)) \/ Refuse \/ RunGateCommand \/ Crash PROVE PendingAsks
    BY <1>2, <1>4, AsksWithout DEF Succeeds, Refuse, RunGateCommand, Crash
  <1> QED
    BY <1>1, <1>3, <1>4, EndSees

\* The services' actions and the questions' actions, sorted.
Handlers ==
  \/ StatusButton \/ StartEarly \/ OpenAddProgress \/ StoreProgress
  \/ ReviewButton \/ DecideVerification \/ ApprovalButton \/ DecideApproval
  \/ ReportBlocker \/ BlockerAnswer \/ ResolveBlocker
  \/ ReadinessButton \/ DeclareReadiness \/ ReportDelay \/ DelayAnswer \/ Acknowledge

LEMMA HandlersServe ==
  ASSUME Handlers
  PROVE  \/ \E code : ServesPress(code)
         \/ \E q \in TaskQuestion : ServesAnswer(q)
         \/ \E k \in Asked : Puts(k) /\ handling # None
  <1>1. CASE StatusButton \/ StartEarly \/ OpenAddProgress \/ StoreProgress
    BY <1>1 DEF StatusButton, StartEarly, OpenAddProgress, StoreProgress, PressPuts, Pressed, Asked, TaskQuestion
  <1>2. CASE ReviewButton \/ DecideVerification \/ ApprovalButton \/ DecideApproval
    BY <1>2 DEF ReviewButton, DecideVerification, ApprovalButton, DecideApproval, PressPuts, Pressed, Asked, TaskQuestion
  <1>3. CASE ReportBlocker \/ BlockerAnswer \/ ResolveBlocker
    BY <1>3 DEF ReportBlocker, BlockerAnswer, ResolveBlocker, PressPuts, AnswerPuts, Pressed, Answered, Asked, TaskQuestion
  <1>4. CASE ReadinessButton \/ DeclareReadiness \/ ReportDelay \/ DelayAnswer \/ Acknowledge
    BY <1>4 DEF ReadinessButton, DeclareReadiness, ReportDelay, DelayAnswer, Acknowledge, PressPuts, AnswerPuts,
                Pressed, Answered, Asked, TaskQuestion
  <1> QED
    BY <1>1, <1>2, <1>3, <1>4 DEF Handlers

LEMMA HandlersSee ==
  ASSUME ChatInv, ReviewInv, Handlers
  PROVE  ReviewInv'
  <1>1. ASSUME NEW code, ServesPress(code) PROVE ReviewInv'
    BY <1>1, HandlerSees DEF ServesPress, Pressed
  <1>2. ASSUME NEW q, ServesAnswer(q) PROVE ReviewInv'
    BY <1>2, HandlerSees DEF ServesAnswer, Answered
  <1>3. ASSUME NEW k \in Asked, Puts(k), handling # None PROVE ReviewInv'
    BY <1>3, HandlerSees
  <1> QED
    BY <1>1, <1>2, <1>3, HandlersServe

\* What a step other than a handler's is, for both steps below.
Outside ==
  \E p \in Person :
    \/ WebStatus(p) \/ WebProgress(p) \/ WebVerify(p) \/ WebApprove(p)
    \/ WebCreateBlocker(p) \/ WebResolveBlocker(p)
    \/ AssignSupport(p) \/ EndSupport(p) \/ EndMembership(p) \/ GenerateCode(p) \/ Unlink(p)
    \/ \E event \in Event : Send(event, p)

InChat ==
  \E c \in Chat :
    \/ Expire(c) \/ Command(c)
    \/ \E kinds : Removes(c, kinds)
    \/ \E q \in GateQuestion : AskGateQuestion(c, q)
    \/ \E p \in Person : Start(c, p)

TakingUp ==
  \/ \E c \in Chat :
       \/ Text(c) \/ ProgressItem(c)
       \/ \E code \in {"rd", "st", "ap", "sb", "vf", "vr", "pa", "pr", "rb", "bs", "yr", "yh", "dl", "as"} : Press(c, code)
  \/ Identify

LEMMA NextForms ==
  Next => \/ Outside \/ InChat \/ TakingUp \/ Handlers \/ PredecessorSatisfied
          \/ Refuse \/ RunGateCommand \/ Crash
  <1>1. ASSUME NEW c \in Chat,
               \/ CancelEarlyStart(c) \/ DoneAdding(c) \/ CancelReview(c) \/ CancelApproval(c)
               \/ CancelBlocker(c) \/ CancelQuestion(c) \/ GateAnswerButton(c)
        PROVE  \E kinds : Removes(c, kinds)
    BY <1>1 DEF CancelEarlyStart, DoneAdding, CancelReview, CancelApproval, CancelBlocker,
                CancelQuestion, GateAnswerButton
  <1> QED
    BY <1>1 DEF Next, Outside, InChat, TakingUp, Handlers

LEMMA ReviewKeeps == ChatInv /\ ReviewInv /\ [Next]_vars => ReviewInv'
  <1> SUFFICES ASSUME ChatInv, ReviewInv, [Next]_vars PROVE ReviewInv'
    OBVIOUS
  <1>1. CASE UNCHANGED vars \/ PredecessorSatisfied
    <2>1. PendingAsks /\ UNCHANGED task /\ UNCHANGED handling
      BY <1>1 DEF vars, PredecessorSatisfied, ReviewInv, QuestionsAreAsked, PendingAsks
    <2> QED
      BY <2>1, StillSees
  <1>2. CASE Outside
    BY <1>2, OutsideSees DEF Outside
  <1>3. CASE InChat
    BY <1>3, QuestionsSee DEF InChat
  <1>4. CASE TakingUp
    BY <1>4, TextSees, PressSees, IdentifySees DEF TakingUp
  <1>5. CASE Handlers
    BY <1>5, HandlersSee
  <1>6. CASE Refuse \/ RunGateCommand \/ Crash
    BY <1>6, HandlerSees DEF RunGateCommand, Answered, Refuse, Crash
  <1> QED
    BY <1>1, <1>2, <1>3, <1>4, <1>5, <1>6, NextForms

\* A service that decides on a submission is called for a review.
LEMMA DecisionIsReview ==
  ASSUME NEW code, Succeeds(code), task'.status # task.status, task.status \in {"submitted", "verified"}
  PROVE  code \in {"vf", "vr", "pa", "pr"}
  <1>1. /\ \E enough \in BOOLEAN : task' = After(code, handling.who, enough)
        /\ code = "as" \/ Allowed(handling.who, code)
    BY DEF Succeeds
  <1>2. code \notin {"as", "rb", "bs", "dl", "yr", "yh"}
    BY <1>1 DEF After
  <1>3. code \notin {"rd", "st", "ap", "sb"}
    BY <1>1, <1>2 DEF Allowed
  <1> QED
    BY <1>1, <1>2, <1>3 DEF Allowed

\* What happens elsewhere is counted as a change when it touches the task.
LEMMA OutsideCounts ==
  ASSUME changes \in Nat, Outside
  PROVE  changes' \in Nat /\ (changes' = changes => task' = task)
  <1> PICK p \in Person : \/ WebStatus(p) \/ WebProgress(p) \/ WebVerify(p) \/ WebApprove(p)
                          \/ WebCreateBlocker(p) \/ WebResolveBlocker(p)
                          \/ AssignSupport(p) \/ EndSupport(p) \/ EndMembership(p)
                          \/ GenerateCode(p) \/ Unlink(p)
                          \/ \E event \in Event : Send(event, p)
    BY DEF Outside
  <1>1. Change => changes' = changes + 1
    BY DEF Change
  <1>2. Move => changes' = changes
    BY DEF Move
  <1>3. UNCHANGED counters => changes' = changes
    BY DEF counters
  <1>4. CASE WebStatus(p) \/ WebProgress(p) \/ WebVerify(p) \/ WebApprove(p)
    BY <1>4, <1>1 DEF WebStatus, WebProgress, WebVerify, WebApprove, WebTask
  <1>5. CASE WebCreateBlocker(p) \/ WebResolveBlocker(p)
    BY <1>5, <1>1 DEF WebCreateBlocker, WebResolveBlocker
  <1>6. CASE AssignSupport(p) \/ EndMembership(p)
    BY <1>6, <1>2 DEF AssignSupport, EndMembership
  <1>7. CASE EndSupport(p)
    <2>1. Move /\ task' = task
      BY <1>7 DEF EndSupport
    <2> QED
      BY <2>1, <1>2
  <1>8. CASE Unlink(p)
    <2>1. Move /\ task' = task
      BY <1>8 DEF Unlink
    <2> QED
      BY <2>1, <1>2
  <1>9. CASE GenerateCode(p)
    BY <1>9, <1>3 DEF GenerateCode
  <1>10. CASE \E event \in Event : Send(event, p)
    <2>1. UNCHANGED counters /\ task' = task
      BY <1>10 DEF Send
    <2> QED
      BY <2>1, <1>3
  <1> QED
    BY <1>4, <1>5, <1>6, <1>7, <1>8, <1>9, <1>10

ShownStep ==
  handling # None /\ handling.fresh /\ changes' = changes /\ task'.status # task.status
    /\ task.status \in {"submitted", "verified"}
  => handling.token = task.submission

LEMMA DecisionsSee == ReviewInv /\ changes \in Nat /\ [Next]_vars => ShownStep
  <1> SUFFICES ASSUME ReviewInv, changes \in Nat, [Next]_vars,
                      handling # None, handling.fresh, changes' = changes, task'.status # task.status,
                      task.status \in {"submitted", "verified"}
               PROVE  handling.token = task.submission
    BY DEF ShownStep
  <1>1. task' # task
    OBVIOUS
  <1>2. ~Outside
    BY OutsideCounts, <1>1
  <1>3. /\ ~InChat /\ ~TakingUp /\ ~PredecessorSatisfied
        /\ ~Refuse /\ ~RunGateCommand /\ ~Crash /\ ~UNCHANGED vars
    BY <1>1 DEF PredecessorSatisfied, InChat, TakingUp, Expire, Command, Removes, AskGateQuestion, Start, Text, ProgressItem, Press, Identify,
                Refuse, RunGateCommand, Crash, vars
  <1>4. Handlers
    BY <1>2, <1>3, NextForms
  <1>5. ASSUME NEW code, ServesPress(code) PROVE handling.token = task.submission
    <2>1. code = handling.code /\ handling.who # None
      BY <1>5 DEF ServesPress, Pressed
    <2>2. ByReview(code)
      BY <1>5, DecisionIsReview DEF ServesPress, ByReview
    <2> QED
      BY <2>1, <2>2 DEF ReviewInv, SeesSubmission
  <1>6. ASSUME NEW q \in TaskQuestion, ServesAnswer(q) PROVE handling.token = task.submission
    <2>1. q = handling.code /\ handling.who # None
      BY <1>6 DEF ServesAnswer, Answered
    <2>2. CodeOf(q) \in {"vf", "vr", "pa", "pr"}
      BY <1>6, DecisionIsReview DEF ServesAnswer
    <2>3. ByReview(q)
      BY <2>2 DEF CodeOf, TaskQuestion, ByReview
    <2> QED
      BY <2>1, <2>3 DEF ReviewInv, SeesSubmission
  <1>7. ASSUME NEW k, Puts(k) PROVE FALSE
    BY <1>1, <1>7 DEF Puts
  <1> QED
    BY <1>4, <1>5, <1>6, <1>7, HandlersServe

\* The number of requests is a number.
LEMMA ChangesCount == changes \in Nat /\ [Next]_vars => changes' \in Nat
  <1> SUFFICES ASSUME changes \in Nat, [Next]_vars PROVE changes' \in Nat
    OBVIOUS
  <1>1. CASE Outside
    BY <1>1, OutsideCounts
  <1>2. CASE InChat
    BY <1>2 DEF InChat, Expire, Command, Removes, AskGateQuestion, Start, Receive, counters
  <1>3. CASE TakingUp
    BY <1>3 DEF TakingUp, Text, ProgressItem, Press, Identify, Receive, counters
  <1>4. CASE Handlers
    BY <1>4, HandlersServe DEF ServesPress, ServesAnswer, Succeeds, Puts, Done, counters
  <1>5. CASE Refuse \/ RunGateCommand \/ Crash
    BY <1>5 DEF Refuse, RunGateCommand, Crash, Done, counters
  <1>6. CASE UNCHANGED vars \/ PredecessorSatisfied
    BY <1>6 DEF vars, PredecessorSatisfied, counters
  <1> QED
    BY <1>1, <1>2, <1>3, <1>4, <1>5, <1>6, NextForms

\* No decision taken in a chat meets another submission than its message showed,
\* unless the Web App changed the task after the handler's last look.
THEOREM DecisionsAreOnTheShown == Spec => DecisionOnShownSubmission
  <1>1. Init => ChatInv /\ ReviewInv /\ changes \in Nat
    BY InitChat, InitReview DEF Init
  <1>2. ChatInv /\ ReviewInv /\ changes \in Nat /\ [Next]_vars => (ChatInv /\ ReviewInv /\ changes \in Nat)'
    BY StepKeeps, ReviewKeeps, ChangesCount
  <1>3. ChatInv /\ ReviewInv /\ changes \in Nat /\ [Next]_vars =>
          [handling # None /\ handling.fresh /\ changes' = changes /\ task'.status # task.status
             /\ task.status \in {"submitted", "verified"}
           => handling.token = task.submission]_vars
    BY DecisionsSee DEF ShownStep
  <1> QED
    BY <1>1, <1>2, <1>3, PTL DEF Spec, DecisionOnShownSubmission

-----------------------------------------------------------------------------
(* Types.                                                                  *)

TaskRow == [status : Status, submission : Nat, by : Person \cup {None}, logger : Person \cup {None},
            verifier : Person \cup {None}, logged : BOOLEAN]

Typed == TypeOK /\ task \in TaskRow /\ seat \in Seat

\* The people of the project and what the chats say of them; the counters.
PeopleTyped ==
  /\ members \subseteq Employees /\ acked \subseteq assignees /\ assignees \subseteq Employees
IdentityTyped == LinksTyped /\ codes \subseteq Person
CountersTyped == updates \in 0..MaxUpdates /\ changes \in 0..MaxChanges /\ moves \in 0..MaxMoves

LEMMA InsidersArePeople == Typed => Insider \subseteq Person
  BY DEF Typed, TypeOK, Insider, Accountable, Seat, Person

\* Progress and submissions name people and count on.
LEMMA ReportsTyped ==
  ASSUME NEW t \in TaskRow, NEW p \in Person
  PROVE  (\A enough \in BOOLEAN : Logged(t, p, enough) \in TaskRow) /\ Submitted(t, p) \in TaskRow
  <1>1. \A enough \in BOOLEAN : Logged(t, p, enough) \in TaskRow
    BY DEF TaskRow, Logged
  <1> DEFINE t1 == [t EXCEPT !.status = "submitted"]
             t2 == [t1 EXCEPT !.by = p]
             t3 == [t2 EXCEPT !.submission = t.submission + 1]
  <1>2. t1 \in TaskRow /\ t.submission + 1 \in Nat
    BY DEF TaskRow, Status
  <1> HIDE DEF t1
  <1>3. t2 \in TaskRow
    BY <1>2 DEF TaskRow
  <1> HIDE DEF t2
  <1>4. t3 \in TaskRow
    BY <1>2, <1>3 DEF TaskRow
  <1>5. Submitted(t, p) = t3
    BY Zenon DEF Submitted, t1, t2
  <1> QED
    BY <1>1, <1>4, <1>5

LEMMA InitTyped == Init => Typed
  <1> SUFFICES ASSUME Init PROVE Typed
    OBVIOUS
  <1>1. /\ kind \in Kind /\ blocked \in BOOLEAN /\ seat \in Seat /\ assignees \subseteq Employees
        /\ members = Employees /\ acked = {}
        /\ linked \in [Person -> Chat \cup {None}] /\ codes \subseteq Person
        /\ updates = 0 /\ changes = 0 /\ moves = 0
    BY ConstantsAssumption DEF Init
  <1>2. InitialWorkers \subseteq Person
    BY <1>1 DEF InitialWorkers, Accountable, Seat, Person
  <1>3. NoTask \in TaskRow
    BY DEF NoTask, TaskRow, Status
  <1>4. \A p \in Person : WorkOf(p) \in TaskRow
    BY <1>3, ReportsTyped DEF WorkOf
  <1>5. task \in TaskRow
    BY <1>2, <1>3, <1>4 DEF Init
  <1> QED
    BY <1>1, <1>5, ConstantsAssumption DEF Typed, TypeOK, TaskRow

\* What a service makes of the task.
LEMMA AfterTyped ==
  ASSUME task \in TaskRow, NEW p \in Person, NEW code, NEW enough \in BOOLEAN
  PROVE  After(code, p, enough) \in TaskRow
  <1>1. \A s \in Status : [task EXCEPT !.status = s] \in TaskRow
    BY DEF TaskRow
  <1>2. Logged(task, p, enough) \in TaskRow /\ Submitted(task, p) \in TaskRow
    BY ReportsTyped
  <1>4. Review(task) \in TaskRow
    BY DEF TaskRow, Review
  <1>5. \A t \in TaskRow : /\ [t EXCEPT !.status = "completed"] \in TaskRow
                           /\ [t EXCEPT !.status = "in_progress"] \in TaskRow
                           /\ [t EXCEPT !.status = "rejected"] \in TaskRow
    BY DEF TaskRow, Status
  <1>6. \A t \in TaskRow : \A s \in Status : [t EXCEPT !.status = s, !.verifier = p] \in TaskRow
    BY DEF TaskRow
  <1>7. Verified(task, p) \in TaskRow
    BY <1>4, <1>6 DEF Verified, Status
  <1>8. Reopened(task) \in TaskRow
    BY <1>4, <1>5 DEF Reopened
  <1> QED
    BY <1>1, <1>2, <1>4, <1>5, <1>7, <1>8 DEF After, Status

\* A request of the Web App, or a move of people.
LEMMA CountsTyped ==
  ASSUME Typed, Change \/ Move \/ Receive \/ UNCHANGED counters
  PROVE  CountersTyped'
  BY ConstantsAssumption DEF Typed, TypeOK, CountersTyped, Change, Move, Receive, counters

LEMMA OutsideTyped == ASSUME Typed, Outside PROVE Typed'
  <1>1. /\ kind' = kind /\ blocked' = blocked /\ seat' = seat
        /\ PeopleTyped' /\ IdentityTyped' /\ CountersTyped' /\ task' \in TaskRow
    <2>1. PICK p \in Person :
            \/ WebStatus(p) \/ WebProgress(p) \/ WebVerify(p) \/ WebApprove(p)
            \/ WebCreateBlocker(p) \/ WebResolveBlocker(p)
            \/ AssignSupport(p) \/ EndSupport(p) \/ EndMembership(p) \/ GenerateCode(p) \/ Unlink(p)
            \/ \E event \in Event : Send(event, p)
      BY DEF Outside
    <2>2. PeopleTyped /\ IdentityTyped /\ task \in TaskRow
      BY DEF Typed, TypeOK, PeopleTyped, IdentityTyped, LinksTyped
    <2>3. ASSUME NEW code, WebTask(p, code)
          PROVE  /\ UNCHANGED <<team, identity>> /\ task' \in TaskRow /\ CountersTyped'
      BY <2>2, <2>3, AfterTyped, CountsTyped DEF WebTask
    <2>4. CASE WebStatus(p) \/ WebProgress(p) \/ WebVerify(p) \/ WebApprove(p)
      <3>1. \E code : WebTask(p, code)
        BY <2>4 DEF WebStatus, WebProgress, WebVerify, WebApprove
      <3> QED
        BY <2>2, <2>3, <3>1 DEF team, identity, PeopleTyped, IdentityTyped, LinksTyped
    <2>5. CASE WebCreateBlocker(p) \/ WebResolveBlocker(p)
      <3>1. UNCHANGED <<team, task, identity>> /\ CountersTyped'
        BY <2>5, CountsTyped DEF WebCreateBlocker, WebResolveBlocker
      <3> QED
        BY <2>2, <3>1 DEF team, identity, PeopleTyped, IdentityTyped, LinksTyped
    <2>6. CASE AssignSupport(p) \/ EndSupport(p) \/ EndMembership(p)
      <3>1. UNCHANGED <<kind, task, blocked, seat, identity>> /\ CountersTyped'
        BY <2>6, CountsTyped DEF AssignSupport, EndSupport, EndMembership
      <3>2. PeopleTyped'
        BY <2>2, <2>6 DEF AssignSupport, EndSupport, EndMembership, PeopleTyped
      <3> QED
        BY <2>2, <3>1, <3>2 DEF identity, IdentityTyped, LinksTyped
    <2>7. CASE GenerateCode(p) \/ Unlink(p) \/ \E event \in Event : Send(event, p)
      <3>1. UNCHANGED <<team, task>> /\ CountersTyped'
        BY <2>7, CountsTyped DEF GenerateCode, Unlink, Send
      <3>2. IdentityTyped'
        BY <2>2, <2>7 DEF GenerateCode, Unlink, Send, identity, IdentityTyped, LinksTyped
      <3> QED
        BY <2>2, <3>1, <3>2 DEF team, PeopleTyped
    <2> QED
      BY <2>1, <2>4, <2>5, <2>6, <2>7
  <1> QED
    BY <1>1 DEF Typed, TypeOK, PeopleTyped, IdentityTyped, LinksTyped, CountersTyped, TaskRow

LEMMA ChatsTyped == ASSUME Typed, InChat \/ TakingUp PROVE Typed'
  <1>1. UNCHANGED <<team, task>> /\ (UNCHANGED counters \/ Receive)
    <2>1. CASE InChat
      BY <2>1 DEF InChat, Expire, Command, Removes, AskGateQuestion, Start
    <2>2. CASE TakingUp
      BY <2>2 DEF TakingUp, Text, ProgressItem, Press, Identify
    <2> QED
      BY <2>1, <2>2
  <1>2. IdentityTyped'
    <2>1. IdentityTyped
      BY DEF Typed, TypeOK, IdentityTyped, LinksTyped
    <2>2. UNCHANGED identity \/ \E c \in Chat, p \in Person : Start(c, p)
      BY DEF InChat, Expire, Command, Removes, AskGateQuestion, TakingUp, Text, ProgressItem, Press, Identify
    <2> QED
      BY <2>1, <2>2 DEF identity, IdentityTyped, LinksTyped, Start
  <1>3. CountersTyped'
    BY <1>1, CountsTyped
  <1> QED
    BY <1>1, <1>2, <1>3 DEF Typed, TypeOK, IdentityTyped, LinksTyped, CountersTyped, team

\* Services act for people, and only an assignee acknowledges.
LEMMA ServicesTyped == ASSUME Typed, NEW code, Succeeds(code) PROVE Typed'
  <1>1. UNCHANGED <<kind, blocked, seat, members, assignees, identity, counters>>
    BY DEF Succeeds, Done
  <1>2. handling.who \in Person
    <2>1. handling.who \in Insider \cup assignees
      BY DEF Succeeds, Allowed, MayAcknowledge
    <2> QED
      BY <2>1, InsidersArePeople DEF Typed, TypeOK, Person
  <1>3. task' \in TaskRow
    BY <1>2, AfterTyped DEF Succeeds, Typed
  <1>4. acked' \subseteq assignees
    BY DEF Succeeds, MayAcknowledge, Typed, TypeOK
  <1> QED
    BY <1>1, <1>3, <1>4 DEF Typed, TypeOK, identity, counters, TaskRow

LEMMA TypedKeeps == Typed /\ [Next]_vars => Typed'
  <1> SUFFICES ASSUME Typed, [Next]_vars PROVE Typed'
    OBVIOUS
  <1>1. CASE Handlers
    <2>1. CASE (\E code : ServesPress(code)) \/ (\E q \in TaskQuestion : ServesAnswer(q))
      BY <2>1, ServicesTyped DEF ServesPress, ServesAnswer
    <2>2. ASSUME NEW q, Puts(q) PROVE Typed'
      BY <2>2 DEF Puts, Done, Typed, TypeOK, team, identity, counters
    <2> QED
      BY <1>1, <2>1, <2>2, HandlersServe
  <1>2. CASE Refuse \/ RunGateCommand \/ Crash
    BY <1>2 DEF Refuse, RunGateCommand, Crash, Done, Typed, TypeOK, team, identity, counters
  <1>3. CASE UNCHANGED vars \/ PredecessorSatisfied
    BY <1>3 DEF vars, PredecessorSatisfied, Typed, TypeOK, team, identity, counters
  <1> QED
    BY <1>1, <1>2, <1>3, OutsideTyped, ChatsTyped, NextForms

\* The types of the task, its people and the chats: whoever submitted, logged or
\* verified is a person, and only an assignee has acknowledged.
THEOREM ChatTypes == Spec => []TypeOK
  <1>1. Typed => TypeOK
    BY DEF Typed
  <1> QED
    BY <1>1, InitTyped, TypedKeeps, PTL DEF Spec
=============================================================================
