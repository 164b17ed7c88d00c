------------------------ MODULE TemplateLibraryProofs -------------------------
(***************************************************************************)
(* What holds of the template library for any sets of templates, versions, *)
(* tasks, gates and editors and any content: it is sound in every          *)
(* interleaving of edits and locking commands, deadlocks included, and     *)
(* nobody changes, publishes or deletes a draft it does not see.           *)
(***************************************************************************)
EXTENDS TemplateLibrary, WellFoundedInduction, FiniteSetTheorems, TLAPS

ViewFields == {"on", "token", "seen", "torn"}

\* Types, as far as the proofs need them: what a version contains is any value.
Typed ==
  /\ version \in [Version -> VersionRow]
  /\ DOMAIN content = Version
  /\ cmd \in [Admin -> Command]
  /\ DOMAIN view = Admin
  /\ \A a \in Admin :
       /\ DOMAIN view[a] = ViewFields
       /\ view[a].on \in Version \cup {Nothing}
       /\ view[a].token \in Nat

\* A row that exists belongs to a template and has a token; what is published
\* has no blocking issue, and only what is published is current.
RowSound(v) ==
  /\ version[v].status \in VisibleStatuses =>
       version[v].template \in Template /\ version[v].token > 0
  /\ version[v].status \notin VisibleStatuses => version[v].template = Nothing
  /\ version[v].current => version[v].status = "published"
  /\ version[v].status = "published" => ~BlockingIssue(content[v])

\* A lock held keeps what was checked when it was taken: the status of the row,
\* and for a draft the token that the editor has seen.
CommandSound(a) ==
  LET c == cmd[a] IN
  /\ c.op = "idle" => c = NoCommand
  /\ c.op # "idle" =>
       /\ c.on \in Version /\ c.on \in c.held
       /\ c.op \in {"publish", "delete"} =>
            /\ version[c.on].status = "draft"
            /\ view[a].on = c.on /\ view[a].token = version[c.on].token
       /\ c.op = "archive" => c.other \in Version /\ version[c.on].status = "published"
       /\ c.op = "clone" =>
            /\ version[c.on].status \in {"draft", "published"}
            /\ c.other \in Version /\ version[c.other].status = "absent"

Exclusive ==
  \A a, b \in Admin : a # b =>
    /\ cmd[a].held \cap cmd[b].held = {}
    /\ cmd[a].op = "clone" /\ cmd[b].op = "clone" => cmd[a].other # cmd[b].other

\* Who read a token has a version on the screen; a token that is still that of
\* the row was read with the content, unless the view is torn.
ViewSound(a) ==
  LET v == view[a].on IN
  /\ v = Nothing => view[a].token = 0
  /\ v # Nothing =>
       /\ version[v].status # "absent"
       /\ version[v].status \in VisibleStatuses => view[a].token <= version[v].token
       /\ version[v].status \in VisibleStatuses /\ view[a].token = version[v].token =>
            view[a].seen = content[v] \/ view[a].torn

\* One version at most is current, one is when any is published, numbers are
\* unique and one of them is the greatest.
TemplateSound(p) ==
  /\ \A u, v \in Current(p) : u = v
  /\ (\E v \in Versions(p) : version[v].status = "published") => Current(p) # {}
  /\ \A u, v \in Versions(p) : u # v => version[u].no # version[v].no
  /\ Exists(p) => \E m \in Versions(p) : \A u \in Versions(p) : version[u].no <= version[m].no

LibraryInv ==
  /\ Typed
  /\ \A v \in Version : RowSound(v)
  /\ \A a \in Admin : CommandSound(a) /\ ViewSound(a)
  /\ Exclusive
  /\ \A p \in Template : TemplateSound(p)

-----------------------------------------------------------------------------
\* An empty library is sound, and one with a single published version.
LEMMA InitLibrary == Init => LibraryInv
  <1> SUFFICES ASSUME Init PROVE LibraryInv
    OBVIOUS
  <1>1. /\ view = [a \in Admin |-> NoView] /\ cmd = [a \in Admin |-> NoCommand]
        /\ \A a \in Admin : view[a] = NoView /\ cmd[a] = NoCommand
    BY DEF Init
  <1>2. /\ \A a \in Admin : CommandSound(a) /\ ViewSound(a)
        /\ Exclusive
    BY <1>1 DEF CommandSound, ViewSound, Exclusive, NoCommand, NoView
  <1>3. /\ cmd \in [Admin -> Command]
        /\ DOMAIN view = Admin
        /\ \A a \in Admin :
             /\ DOMAIN view[a] = ViewFields
             /\ view[a].on \in Version \cup {Nothing} /\ view[a].token \in Nat
    BY <1>1 DEF Command, NoCommand, NoView, ViewFields
  <1>4. /\ Absent \in VersionRow
        /\ \A p \in Template : /\ Published(p) \in VersionRow
                                /\ Published(p).template = p /\ Published(p).no = 1
                                /\ Published(p).status = "published"
                                /\ Published(p).current /\ Published(p).token = 3
    BY DEF Absent, Published, NewDraft, VersionRow
  <1>5. CASE version = [v \in Version |-> Absent] /\ content = [v \in Version |-> Blank]
    <2>1. Typed
      BY <1>3, <1>4, <1>5 DEF Typed
    <2>2. \A v \in Version : version[v] = Absent /\ RowSound(v)
      BY <1>5 DEF RowSound, Absent, VisibleStatuses
    <2>3. \A p \in Template : TemplateSound(p)
      BY <2>2, ConstantsAssumption DEF TemplateSound, Versions, Current, Exists, Absent
    <2> QED
      BY <1>2, <2>1, <2>2, <2>3 DEF LibraryInv
  <1>6. ASSUME NEW v \in Version, NEW p \in Template,
               version = [u \in Version |-> IF u = v THEN Published(p) ELSE Absent],
               content = [u \in Version |-> IF u = v THEN Seed ELSE Blank]
        PROVE  LibraryInv
    <2>1. Typed
      BY <1>3, <1>4, <1>6 DEF Typed
    <2>2. /\ version[v] = Published(p) /\ content[v] = Seed
          /\ \A u \in Version \ {v} : version[u] = Absent
      BY <1>6
    <2>3. \A u \in Version : RowSound(u)
      BY <1>4, <2>2, SeedAssumption DEF RowSound, Absent, VisibleStatuses
    <2>4. ASSUME NEW q \in Template PROVE TemplateSound(q)
      <3>1. Versions(q) \subseteq {v} /\ Current(q) = Versions(q)
        BY <1>4, <2>2, ConstantsAssumption DEF Versions, Current, Absent
      <3>2. version[v].no = 1
        BY <1>4, <2>2
      <3> QED
        BY <3>1, <3>2 DEF TemplateSound, Exists
    <2> QED
      BY <1>2, <2>1, <2>3, <2>4 DEF LibraryInv
  <1> QED
    BY <1>5, <1>6 DEF Init

-----------------------------------------------------------------------------
(* Steps that change no row.                                               *)

\* The rows of a template, as a function of the version rows alone.
LEMMA SameRows ==
  ASSUME LibraryInv, UNCHANGED <<version, content>>
  PROVE  /\ \A v \in Version : RowSound(v)'
         /\ \A p \in Template : TemplateSound(p)'
  <1>1. /\ \A v \in Version : RowSound(v)
        /\ \A p \in Template : TemplateSound(p)
    BY DEF LibraryInv
  <1> QED
    BY <1>1 DEF RowSound, TemplateSound, Current, Versions, Exists

\* A step of a command that changes nothing but locks.
LEMMA LocksKeepInv ==
  ASSUME LibraryInv, NEW a \in Admin, NEW c \in Command,
         UNCHANGED <<version, content, view>>, cmd' = [cmd EXCEPT ![a] = c],
         CommandSound(a)',
         \A b \in Admin \ {a} :
           /\ c.held \cap cmd[b].held = {}
           /\ c.op = "clone" /\ cmd[b].op = "clone" => c.other # cmd[b].other
  PROVE  LibraryInv'
  <1>1. /\ \A v \in Version : RowSound(v)'
        /\ \A p \in Template : TemplateSound(p)'
    BY SameRows
  <1>2. Typed'
    BY DEF LibraryInv, Typed
  <1>3. cmd'[a] = c /\ \A b \in Admin \ {a} : cmd'[b] = cmd[b]
    BY DEF LibraryInv, Typed
  <1>4. ASSUME NEW b \in Admin PROVE CommandSound(b)' /\ ViewSound(b)'
    <2>1. CommandSound(b) /\ ViewSound(b)
      BY DEF LibraryInv
    <2> QED
      BY <1>3, <2>1 DEF CommandSound, ViewSound
  <1>5. Exclusive'
    BY <1>3 DEF LibraryInv, Exclusive
  <1> QED
    BY <1>1, <1>2, <1>4, <1>5 DEF LibraryInv

\* A command that ends without effect.
LEMMA DoneKeepsInv ==
  ASSUME LibraryInv, NEW a \in Admin, Done(a), UNCHANGED <<version, content, view>>
  PROVE  LibraryInv'
  <1>1. NoCommand \in Command /\ cmd' = [cmd EXCEPT ![a] = NoCommand] /\ cmd'[a] = NoCommand
    BY DEF NoCommand, Command, Done, LibraryInv, Typed
  <1>2. CommandSound(a)'
    BY <1>1 DEF CommandSound, NoCommand
  <1> QED
    BY <1>1, <1>2, LocksKeepInv DEF NoCommand

LEMMA BeginKeepsInv ==
  ASSUME LibraryInv, NEW a \in Admin, NEW v \in Version, NEW other \in Version,
         BeginPublish(a, v) \/ BeginDelete(a, v) \/ BeginArchive(a, v, other) \/ BeginClone(a, v, other)
  PROVE  LibraryInv'
  <1>1. PICK op \in {"publish", "archive", "clone", "delete"}, o \in Version \cup {Nothing} :
          /\ Begin(a, op, v, o)
          /\ op \in {"publish", "delete"} => version[v].status = "draft" /\ TokenCurrent(a, v)
          /\ op = "archive" => o \in Version /\ version[v].status = "published"
          /\ op = "clone" => o \in Version /\ version[v].status \in {"draft", "published"} /\ Fresh(o)
    BY DEF BeginPublish, BeginDelete, BeginArchive, BeginClone
  <1> DEFINE c == [op |-> op, on |-> v, other |-> o, held |-> {v}]
  <1>2. /\ c \in Command /\ cmd' = [cmd EXCEPT ![a] = c] /\ cmd'[a] = c
        /\ UNCHANGED <<version, content, view>>
    BY <1>1 DEF Command, Begin, LibraryInv, Typed
  <1>3. CommandSound(a)'
    BY <1>1, <1>2 DEF CommandSound, TokenCurrent, Fresh
  <1>4. ASSUME NEW b \in Admin \ {a}
        PROVE  /\ c.held \cap cmd[b].held = {}
               /\ c.op = "clone" /\ cmd[b].op = "clone" => c.other # cmd[b].other
    BY <1>1 DEF Begin, Free, Fresh
  <1> QED
    BY <1>2, <1>3, <1>4, LocksKeepInv

LEMMA AdvanceKeepsInv ==
  ASSUME LibraryInv, NEW a \in Admin, Advance(a)
  PROVE  LibraryInv'
  <1>1. PICK l \in Wanted(a) : Free(l) /\ cmd' = [cmd EXCEPT ![a].held = @ \cup {l}]
    BY DEF Advance
  <1>2. /\ cmd[a] \in Command /\ CommandSound(a) /\ cmd[a].op # "idle"
        /\ version[cmd[a].on] \in VersionRow /\ RowSound(cmd[a].on)
        /\ UNCHANGED <<version, content, view>>
    BY DEF LibraryInv, Typed, Advance, Waiting, CommandSound
  <1>3. l \in Version \cup Template
    <2>1. version[cmd[a].on].template \in Template
      BY <1>2 DEF RowSound, CommandSound, VisibleStatuses, Command
    <2>2. Current(version[cmd[a].on].template) \subseteq Version
      BY DEF Current, Versions
    <2>3. cmd[a].op = "archive" => cmd[a].other \in Version
      BY <1>2 DEF CommandSound
    <2> QED
      BY <1>1, <2>1, <2>2, <2>3 DEF Wanted
  <1> DEFINE c == [cmd[a] EXCEPT !.held = @ \cup {l}]
  <1>4. c \in Command /\ cmd' = [cmd EXCEPT ![a] = c] /\ cmd'[a] = c
    BY <1>1, <1>2, <1>3 DEF Command, LibraryInv, Typed
  <1>5. CommandSound(a)'
    BY <1>2, <1>4 DEF CommandSound, Command
  <1>6. ASSUME NEW b \in Admin \ {a}
        PROVE  /\ c.held \cap cmd[b].held = {}
               /\ c.op = "clone" /\ cmd[b].op = "clone" => c.other # cmd[b].other
    BY <1>1, <1>2 DEF Free, LibraryInv, Exclusive, Command
  <1> QED
    BY <1>2, <1>4, <1>5, <1>6, LocksKeepInv

\* What an editor reads: nobody else is concerned.
LEMMA ReadsKeepInv ==
  ASSUME LibraryInv, NEW a \in Admin, (\E v \in Version : OpenVersion(a, v)) \/ ReadToken(a)
  PROVE  LibraryInv'
  <1>1. /\ UNCHANGED <<version, content, cmd>>
        /\ version \in [Version -> VersionRow] /\ DOMAIN view = Admin
        /\ \A b \in Admin : CommandSound(b) /\ ViewSound(b)
    BY DEF OpenVersion, ReadToken, LibraryInv, Typed
  <1>2. PICK w :
          /\ view' = [view EXCEPT ![a] = w]
          /\ DOMAIN w = ViewFields
          /\ w.on \in Version /\ version[w.on].status \in VisibleStatuses
          /\ \/ w.token = 0
             \/ w.token = version[w.on].token /\ (w.seen = content[w.on] \/ w.torn)
          /\ Waiting(a) => view[a].token = 0
    <2>1. CASE \E v \in Version : OpenVersion(a, v)
      <3>1. PICK v \in Version : OpenVersion(a, v)
        BY <2>1
      <3> DEFINE lists == [tasks |-> TasksListed(v), deps |-> DependenciesListed(v),
                           gates |-> GatesListed(v), files |-> FilesListed(v)]
                 w == [NoView EXCEPT !.on = v, !.seen = lists]
      <3>2. view' = [view EXCEPT ![a] = w] /\ version[v].status \in VisibleStatuses /\ ~Waiting(a)
        BY <3>1 DEF OpenVersion
      <3> HIDE DEF lists
      <3>3. DOMAIN w = ViewFields /\ w.on = v /\ w.token = 0
        BY DEF NoView, ViewFields
      <3> WITNESS w
      <3> QED
        BY <3>2, <3>3
    <2>2. CASE ReadToken(a)
      <3> DEFINE v == view[a].on
                 torn == view[a].seen # content[v]
                 w == [[view[a] EXCEPT !.token = version[v].token] EXCEPT !.torn = torn]
      <3>1. /\ v # Nothing /\ view[a].token = 0 /\ version[v].status \in VisibleStatuses
            /\ view' = [view EXCEPT ![a].token = version[v].token,
                                    ![a].torn = view[a].seen # content[v]]
        BY <2>2 DEF ReadToken
      <3>2. a \in DOMAIN view /\ DOMAIN view[a] = ViewFields /\ v \in Version
        BY <3>1 DEF LibraryInv, Typed
      <3>3. view' = [view EXCEPT ![a] = w]
        BY <3>1, <3>2, Zenon
      <3>4. /\ DOMAIN w = ViewFields /\ w.on = v /\ w.token = version[v].token
            /\ w.seen = view[a].seen /\ w.torn = torn
        <4> HIDE DEF v, torn
        <4> QED
          BY <3>2 DEF ViewFields, v
      <3> HIDE DEF w
      <3> WITNESS w
      <3> QED
        BY <3>1, <3>2, <3>3, <3>4
    <2> QED
      BY <2>1, <2>2
  <1>3. view'[a] = w /\ DOMAIN view' = Admin /\ \A b \in Admin \ {a} : view'[b] = view[b]
    BY <1>1, <1>2
  <1>4. version[w.on].token \in Nat \ {0} /\ w.token \in Nat /\ w.on # Nothing
    BY <1>1, <1>2, ConstantsAssumption DEF VersionRow, LibraryInv, RowSound
  <1>5. Typed'
    BY <1>1, <1>2, <1>3, <1>4 DEF LibraryInv, Typed
  <1>6. ASSUME NEW b \in Admin PROVE CommandSound(b)' /\ ViewSound(b)'
    <2>1. CASE b # a
      BY <1>1, <1>3, <2>1 DEF CommandSound, ViewSound
    <2>2. CASE b = a
      <3>1. ViewSound(a)'
        BY <1>1, <1>2, <1>3, <1>4 DEF ViewSound, VisibleStatuses
      <3>2. cmd[a].op \notin {"publish", "delete"}
        BY <1>1, <1>2 DEF CommandSound, LibraryInv, Typed, RowSound, VisibleStatuses, Waiting
      <3> QED
        BY <1>1, <2>2, <3>1, <3>2 DEF CommandSound
    <2> QED
      BY <2>1, <2>2
  <1>7. Exclusive'
    BY <1>1 DEF LibraryInv, Exclusive
  <1> QED
    BY <1>1, <1>5, <1>6, <1>7, SameRows DEF LibraryInv

-----------------------------------------------------------------------------
(* A draft is edited.                                                      *)

\* All edits are one: they lock the draft, compare the token, change and touch.
Edited(a, v) == \E new : Editable(a, v) /\ Touch(a, v, new)

LEMMA EditsTouch ==
  ASSUME NEW a \in Admin, NEW v \in Version,
         EditTasks(a, v) \/ EditOrder(a, v) \/ EditDependencies(a, v) \/ EditGates(a, v)
  PROVE  Edited(a, v)
  <1>1. ASSUME EditTasks(a, v) PROVE Edited(a, v)
    BY <1>1 DEF EditTasks, CreateTask, UpdateTask, DeleteTask, AddReference, RemoveReference, Edited
  <1>2. ASSUME EditOrder(a, v) PROVE Edited(a, v)
    BY <1>2 DEF EditOrder, ReorderTasks, Edited
  <1>3. ASSUME EditDependencies(a, v) PROVE Edited(a, v)
    BY <1>3 DEF EditDependencies, CreateDependency, DeleteDependency, UpdateDependency, Edited
  <1>4. ASSUME EditGates(a, v) PROVE Edited(a, v)
    BY <1>4 DEF EditGates, CreateGate, UpdateGate, ConfigureMappings, DeleteGate, AddReference,
               RemoveReference, Edited
  <1> QED
    BY <1>1, <1>2, <1>3, <1>4

LEMMA EditsKeepInv ==
  ASSUME LibraryInv, NEW a \in Admin, NEW v \in Version, Edited(a, v)
  PROVE  LibraryInv'
  <1>1. PICK new : Editable(a, v) /\ Touch(a, v, new)
    BY DEF Edited
  <1>2. /\ version \in [Version -> VersionRow] /\ DOMAIN content = Version
        /\ cmd \in [Admin -> Command] /\ DOMAIN view = Admin
        /\ DOMAIN view[a] = ViewFields
    BY DEF LibraryInv, Typed
  <1> DEFINE seen == IF view[a].seen = content[v] THEN new ELSE view[a].seen
             next == version[v].token + 1
             w == [[view[a] EXCEPT !.token = next] EXCEPT !.seen = seen]
  <1>3. /\ content' = [content EXCEPT ![v] = new]
        /\ version' = [version EXCEPT ![v].token = @ + 1]
        /\ view' = [view EXCEPT ![a].token = version[v].token + 1,
                                ![a].seen = IF @ = content[v] THEN new ELSE @]
        /\ UNCHANGED cmd
        /\ ~Waiting(a) /\ Free(v) /\ version[v].status = "draft"
        /\ view[a].on = v /\ view[a].token = version[v].token
    BY <1>1 DEF Touch, Editable, TokenCurrent
  <1>4. view' = [view EXCEPT ![a] = w]
    BY <1>2, <1>3, Zenon
  <1>5. /\ DOMAIN w = ViewFields /\ w.on = v /\ w.token = next
        /\ w.seen = seen /\ w.torn = view[a].torn
    <2> HIDE DEF next, seen
    <2> QED
      BY <1>2, <1>3 DEF ViewFields
  <1>6. /\ version' \in [Version -> VersionRow] /\ DOMAIN content' = Version
        /\ content'[v] = new /\ version'[v].token = next /\ next \in Nat
        /\ \A u \in Version :
             /\ version'[u].template = version[u].template /\ version'[u].no = version[u].no
             /\ version'[u].current = version[u].current
             /\ version'[u].status = version[u].status
             /\ u # v => version'[u] = version[u] /\ content'[u] = content[u]
    BY <1>2, <1>3 DEF VersionRow
  <1>7. view'[a] = w /\ DOMAIN view' = Admin /\ \A b \in Admin \ {a} : view'[b] = view[b]
    <2> HIDE DEF w
    <2> QED
      BY <1>2, <1>4
  <1> HIDE DEF w, next, seen
  <1>8. Typed'
    BY <1>3, <1>5, <1>6, <1>7 DEF LibraryInv, Typed
  <1>9. ASSUME NEW u \in Version PROVE RowSound(u)'
    <2>1. RowSound(u) /\ version[v].token \in Nat
      BY <1>2 DEF LibraryInv, VersionRow
    <2> QED
      BY <1>3, <1>6, <2>1 DEF RowSound, VisibleStatuses, next
  <1>10. ASSUME NEW b \in Admin PROVE CommandSound(b)'
    <2>1. CommandSound(b) /\ cmd'[b] = cmd[b]
      BY <1>3 DEF LibraryInv
    <2>2. CASE b = a
      BY <1>3, <2>1, <2>2 DEF CommandSound, Waiting
    <2>3. CASE b # a
      <3>1. v \notin cmd[b].held /\ view'[b] = view[b]
        BY <1>3, <1>7, <2>3 DEF Free
      <3> QED
        BY <1>6, <2>1, <3>1 DEF CommandSound
    <2> QED
      BY <2>2, <2>3
  <1>11. ASSUME NEW b \in Admin PROVE ViewSound(b)'
    <2>1. ViewSound(b) /\ view[b].on \in Version \cup {Nothing} /\ view[b].token \in Nat
          /\ version[v].token \in Nat /\ ViewSound(a)
      BY <1>2 DEF LibraryInv, Typed, VersionRow
    <2>2. CASE b = a
      <3>1. view[a].seen = content[v] \/ view[a].torn
        BY <1>3, <2>1, ConstantsAssumption DEF ViewSound, VisibleStatuses
      <3>2. view'[a].seen = new \/ view'[a].torn
        BY <1>5, <1>7, <3>1 DEF seen
      <3>3. /\ view'[a].on = v /\ view'[a].token = version'[v].token
            /\ content'[v] = new /\ version'[v].status = "draft" /\ v # Nothing
        BY <1>3, <1>5, <1>6, <1>7, ConstantsAssumption
      <3> QED
        BY <1>6, <2>2, <3>2, <3>3 DEF ViewSound
    <2>3. CASE b # a
      <3>1. view'[b] = view[b]
        BY <1>7, <2>3
      <3>2. CASE view[b].on = v
        <4>1. view[b].token <= version[v].token /\ v # Nothing
          BY <1>3, <2>1, <3>2, ConstantsAssumption DEF ViewSound, VisibleStatuses
        <4>2. view[b].token < next
          BY <2>1, <4>1 DEF next
        <4> QED
          BY <1>3, <1>6, <2>1, <3>1, <3>2, <4>1, <4>2 DEF ViewSound
      <3>3. CASE view[b].on # v
        BY <1>6, <2>1, <3>1, <3>3 DEF ViewSound
      <3> QED
        BY <3>2, <3>3
    <2> QED
      BY <2>2, <2>3
  <1>12. \A p \in Template : TemplateSound(p)'
    <2>1. \A p \in Template : /\ Versions(p)' = Versions(p) /\ Current(p)' = Current(p)
                              /\ TemplateSound(p)
      BY <1>6 DEF Versions, Current, LibraryInv
    <2>2. \A p : Versions(p) \subseteq Version
      BY DEF Versions
    <2> QED
      BY <1>6, <2>1, <2>2 DEF TemplateSound, Exists
  <1>13. Exclusive'
    BY <1>3 DEF LibraryInv, Exclusive
  <1> QED
    BY <1>8, <1>9, <1>10, <1>11, <1>12, <1>13 DEF LibraryInv

-----------------------------------------------------------------------------
(* A new version: of a new template, or the next one of an old.            *)

\* A row that is inserted with a number greater than all of its template.
LEMMA NewRowKeepsInv ==
  ASSUME LibraryInv, NEW a \in Admin, NEW n \in Version, NEW p \in Template, NEW k \in Nat,
         version[n].status = "absent",
         version' = [version EXCEPT ![n] = NewDraft(p, k)],
         DOMAIN content' = Version, \A v \in Version \ {n} : content'[v] = content[v],
         UNCHANGED view,
         \A u \in Versions(p) : version[u].no < k,
         \/ UNCHANGED cmd /\ \A b \in Admin : cmd[b].op = "clone" => cmd[b].other # n
         \/ Done(a) /\ cmd[a].op = "clone" /\ cmd[a].other = n
  PROVE  LibraryInv'
  <1>1. /\ version \in [Version -> VersionRow] /\ NewDraft(p, k) \in VersionRow
        /\ version'[n] = NewDraft(p, k)
        /\ version' \in [Version -> VersionRow]
        /\ \A v \in Version \ {n} : version'[v] = version[v]
        /\ cmd \in [Admin -> Command]
    BY DEF LibraryInv, Typed, NewDraft, VersionRow
  <1>2. cmd' \in [Admin -> Command] /\ \A b \in Admin : cmd'[b] = cmd[b] \/ cmd'[b] = NoCommand
    <2>1. NoCommand \in Command
      BY DEF NoCommand, Command
    <2> QED
      BY <1>1, <2>1 DEF Done
  <1>3. \A b \in Admin : cmd'[b].op = "clone" => cmd'[b].other # n
    BY <1>1, <1>2 DEF Done, NoCommand, LibraryInv, Exclusive
  <1>4. Typed'
    BY <1>1, <1>2 DEF LibraryInv, Typed
  <1>5. ASSUME NEW v \in Version PROVE RowSound(v)'
    <2>1. CASE v = n
      BY <1>1, <2>1 DEF RowSound, NewDraft, VisibleStatuses
    <2>2. CASE v # n
      <3>1. RowSound(v)
        BY DEF LibraryInv
      <3> QED
        BY <1>1, <2>2, <3>1 DEF RowSound
    <2> QED
      BY <2>1, <2>2
  <1>6. ASSUME NEW b \in Admin PROVE CommandSound(b)'
    <2>1. CASE cmd'[b] = NoCommand
      BY <2>1 DEF CommandSound, NoCommand
    <2>2. CASE cmd'[b] = cmd[b]
      <3>1. CommandSound(b)
        BY DEF LibraryInv
      <3>2. cmd[b].op # "idle" => cmd[b].on # n
        BY <3>1 DEF CommandSound, LibraryInv, Typed, Command
      <3> QED
        BY <1>1, <1>3, <2>2, <3>1, <3>2 DEF CommandSound
    <2> QED
      BY <1>2, <2>1, <2>2
  <1>7. ASSUME NEW b \in Admin PROVE ViewSound(b)'
    <2>1. ViewSound(b) /\ view[b].on \in Version \cup {Nothing} /\ view[b].on # n
      BY ConstantsAssumption DEF LibraryInv, Typed, ViewSound
    <2> QED
      BY <1>1, <2>1 DEF ViewSound
  <1>8. Exclusive'
    BY <1>2 DEF LibraryInv, Exclusive, NoCommand
  <1>9. ASSUME NEW q \in Template PROVE TemplateSound(q)'
    <2>1. /\ TemplateSound(q) /\ version[n].template = Nothing /\ q # Nothing
      BY ConstantsAssumption DEF LibraryInv, RowSound, VisibleStatuses
    <2>2. Current(q)' = Current(q) /\ (\A u \in Versions(q) : version'[u] = version[u])
      BY <1>1, <2>1 DEF Current, Versions, NewDraft
    <2>3. CASE q # p
      <3>1. Versions(q)' = Versions(q)
        BY <1>1, <2>1, <2>3 DEF Versions, NewDraft
      <3> QED
        BY <2>1, <2>2, <3>1 DEF TemplateSound, Exists
    <2>4. CASE q = p
      <3>1. Versions(q)' = Versions(q) \cup {n} /\ n \notin Versions(q)
        BY <1>1, <2>1, <2>4 DEF Versions, NewDraft
      <3>2. version'[n].no = k /\ version'[n].status = "draft"
        BY <1>1 DEF NewDraft
      <3>3. \A u \in Versions(q) : version[u].no \in Nat /\ version[u].no < k
        BY <1>1, <2>4 DEF Versions, VersionRow
      <3>4. \A u, v \in Versions(q)' : u # v => version'[u].no # version'[v].no
        BY <2>1, <2>2, <3>1, <3>2, <3>3 DEF TemplateSound
      <3>5. n \in Versions(q)' /\ \A u \in Versions(q)' : version'[u].no <= version'[n].no
        BY <2>2, <3>1, <3>2, <3>3
      <3>6. (\E v \in Versions(q)' : version'[v].status = "published") => Current(q)' # {}
        BY <2>1, <2>2, <3>1, <3>2 DEF TemplateSound
      <3>7. \A u, v \in Current(q)' : u = v
        BY <2>1, <2>2 DEF TemplateSound
      <3> QED
        BY <3>4, <3>5, <3>6, <3>7 DEF TemplateSound, Exists
    <2> QED
      BY <2>3, <2>4
  <1> QED
    BY <1>4, <1>5, <1>6, <1>7, <1>8, <1>9 DEF LibraryInv

\* The next number of a template is greater than those it has.
LEMMA NextNumberIsNew ==
  ASSUME LibraryInv, NEW p \in Template, Exists(p)
  PROVE  NextNumber(p) \in Nat /\ \A u \in Versions(p) : version[u].no < NextNumber(p)
  <1> DEFINE numbers == {version[v].no : v \in Versions(p)}
  <1>1. /\ \A v \in Versions(p) : version[v].no \in Nat
        /\ \E m \in Versions(p) : \A u \in Versions(p) : version[u].no <= version[m].no
    BY DEF LibraryInv, Typed, VersionRow, Versions, TemplateSound
  <1>2. \E x \in numbers : \A y \in numbers : x >= y
    BY <1>1
  <1>3. Max(numbers) \in numbers /\ \A y \in numbers : Max(numbers) >= y
    BY <1>2 DEF Max
  <1>4. \A y \in numbers : y \in Nat
    BY <1>1
  <1>5. NextNumber(p) = Max(numbers) + 1
    BY DEF NextNumber
  <1>6. \A u \in Versions(p) : version[u].no \in numbers
    OBVIOUS
  <1> HIDE DEF numbers
  <1> QED
    BY <1>3, <1>4, <1>5, <1>6

LEMMA InsertsKeepInv ==
  ASSUME LibraryInv, NEW a \in Admin, NEW v \in Version, NEW new \in Version, NEW p \in Template,
         CreateTemplate(a, p, v) \/ CloneToNewTemplate(a, v, p, new)
  PROVE  LibraryInv'
  <1>1. PICK n \in Version :
          /\ ~Exists(p) /\ Fresh(n) /\ UNCHANGED <<view, cmd>>
          /\ version' = [version EXCEPT ![n] = NewDraft(p, 1)]
          /\ content' = content \/ \E c : content' = [content EXCEPT ![n] = c]
    BY DEF CreateTemplate, CloneToNewTemplate
  <1>2. DOMAIN content' = Version /\ \A u \in Version \ {n} : content'[u] = content[u]
    BY <1>1 DEF LibraryInv, Typed
  <1>3. \A u \in Versions(p) : version[u].no < 1
    BY <1>1 DEF Exists
  <1> QED
    BY <1>1, <1>2, <1>3, NewRowKeepsInv DEF Fresh

LEMMA CloneKeepsInv ==
  ASSUME LibraryInv, NEW a \in Admin, FinishClone(a)
  PROVE  LibraryInv'
  <1>1. PICK v, n : v = cmd[a].on /\ n = cmd[a].other
    OBVIOUS
  <1>2. PICK p, k : p = version[v].template /\ k = NextNumber(p)
    OBVIOUS
  <1>3. /\ cmd[a].op = "clone" /\ Done(a) /\ UNCHANGED view
        /\ version' = [version EXCEPT ![n] = NewDraft(p, k)]
        /\ content' = [content EXCEPT ![n] = Copied(content[v])]
    BY <1>1, <1>2 DEF FinishClone, Ready
  <1>4. /\ v \in Version /\ n \in Version /\ version[n].status = "absent"
        /\ version[v].status \in {"draft", "published"}
    BY <1>1, <1>3 DEF LibraryInv, CommandSound
  <1>5. p \in Template /\ Exists(p)
    BY <1>2, <1>4 DEF LibraryInv, RowSound, VisibleStatuses, Exists, Versions
  <1>6. DOMAIN content' = Version /\ \A u \in Version \ {n} : content'[u] = content[u]
    BY <1>3 DEF LibraryInv, Typed
  <1>7. k \in Nat /\ \A u \in Versions(p) : version[u].no < k
    BY <1>2, <1>5, NextNumberIsNew
  <1> QED
    BY <1>1, <1>3, <1>4, <1>5, <1>6, <1>7, NewRowKeepsInv

-----------------------------------------------------------------------------
(* A command that holds its locks changes statuses.                        *)

Turned(r, s, c) == [r EXCEPT !.status = s, !.current = c, !.token = @ + 1]

Marked(r, c) == [r EXCEPT !.current = c, !.token = @ + 1]

\* What remains of a row whose status, mark and token are replaced.
LEMMA RowTurned ==
  ASSUME NEW r \in VersionRow, NEW s \in {"published", "archived"}, NEW c \in BOOLEAN
  PROVE  LET q == Turned(r, s, c) IN
         /\ q \in VersionRow /\ q.template = r.template /\ q.no = r.no
             /\ q.status = s /\ q.current = c /\ q.token = r.token + 1
  <1> DEFINE r1 == [r EXCEPT !.status = s]
             r2 == [r1 EXCEPT !.current = c]
             r3 == [r2 EXCEPT !.token = r.token + 1]
  <1>1. /\ r1 \in VersionRow /\ r1.template = r.template /\ r1.no = r.no
        /\ r1.status = s /\ r1.token = r.token
    BY DEF VersionRow
  <1> HIDE DEF r1
  <1>2. /\ r2 \in VersionRow /\ r2.template = r.template /\ r2.no = r.no
        /\ r2.status = s /\ r2.current = c /\ r2.token = r.token
    BY <1>1 DEF VersionRow
  <1> HIDE DEF r2
  <1>3. /\ r3 \in VersionRow /\ r3.template = r.template /\ r3.no = r.no
        /\ r3.status = s /\ r3.current = c /\ r3.token = r.token + 1
    BY <1>2 DEF VersionRow
  <1>4. Turned(r, s, c) = r3
    BY Zenon DEF r1, r2, Turned
  <1> QED
    BY <1>3, <1>4

LEMMA RowMarked ==
  ASSUME NEW r \in VersionRow, NEW c \in BOOLEAN
  PROVE  LET q == Marked(r, c) IN
         /\ q \in VersionRow /\ q.template = r.template /\ q.no = r.no
             /\ q.status = r.status /\ q.current = c /\ q.token = r.token + 1
  <1> DEFINE r2 == [r EXCEPT !.current = c]
             r3 == [r2 EXCEPT !.token = r.token + 1]
  <1>1. /\ r2 \in VersionRow /\ r2.template = r.template /\ r2.no = r.no
        /\ r2.status = r.status /\ r2.current = c /\ r2.token = r.token
    BY DEF VersionRow
  <1> HIDE DEF r2
  <1>2. /\ r3 \in VersionRow /\ r3.template = r.template /\ r3.no = r.no
        /\ r3.status = r.status /\ r3.current = c /\ r3.token = r.token + 1
    BY <1>1 DEF VersionRow
  <1>3. Marked(r, c) = r3
    BY SMT DEF r2, Marked
  <1> QED
    BY <1>2, <1>3

\* A version is published or archived; its own template's currents follow.
LEMMA TurnKeepsInv ==
  ASSUME LibraryInv, NEW a \in Admin, Done(a), NEW v \in Version, v = cmd[a].on,
         cmd[a].op \in {"publish", "archive"}, UNCHANGED <<content, view>>,
         version' \in [Version -> VersionRow],
         \A u \in Version :
           /\ version'[u].template = version[u].template /\ version'[u].no = version[u].no
           /\ \/ version'[u] = version[u]
              \/ /\ version'[u].token > version[u].token
                 /\ u = v \/ version[u].status = "published"
           /\ u # v => version'[u].status = version[u].status
           /\ version'[u].current => version'[u].status = "published",
         version'[v].status \in {"published", "archived"},
         version'[v].status = "published" => ~BlockingIssue(content[v]),
         \A p \in Template :
           /\ \A s, t \in Current(p)' : s = t
           /\ (\E u \in Versions(p)' : version'[u].status = "published") => Current(p)' # {}
  PROVE  LibraryInv'
  <1>1. /\ version \in [Version -> VersionRow] /\ cmd \in [Admin -> Command]
        /\ NoCommand \in Command /\ cmd' = [cmd EXCEPT ![a] = NoCommand]
        /\ \A u \in Version : version[u].token \in Nat /\ version'[u].token \in Nat
    BY DEF LibraryInv, Typed, NoCommand, Command, Done, VersionRow
  <1>2. /\ cmd' \in [Admin -> Command] /\ cmd'[a] = NoCommand
        /\ \A b \in Admin \ {a} : cmd'[b] = cmd[b]
    BY <1>1
  <1>3. /\ v \in cmd[a].held
        /\ version[v].status \in {"draft", "published"}
        /\ version[v].template \in Template /\ version[v].token > 0
    BY DEF LibraryInv, CommandSound, RowSound, VisibleStatuses
  <1>4. Typed'
    BY <1>2 DEF LibraryInv, Typed
  <1>5. ASSUME NEW u \in Version PROVE RowSound(u)'
    <2>1. RowSound(u)
      BY DEF LibraryInv
    <2>2. CASE u = v
      BY <1>1, <1>3, <2>2 DEF RowSound, VisibleStatuses
    <2>3. CASE u # v
      BY <1>1, <2>1, <2>3 DEF RowSound, VisibleStatuses
    <2> QED
      BY <2>2, <2>3
  <1>6. ASSUME NEW b \in Admin PROVE CommandSound(b)'
    <2>1. CASE b = a
      BY <1>2, <2>1 DEF CommandSound, NoCommand
    <2>2. CASE b # a
      <3>1. CommandSound(b) /\ cmd'[b] = cmd[b] /\ cmd[b] \in Command
        BY <1>1, <1>2, <2>2 DEF LibraryInv
      <3>2. cmd[b].op # "idle" => cmd[b].on \in Version /\ cmd[b].on # v
        BY <1>3, <2>2, <3>1 DEF CommandSound, LibraryInv, Exclusive
      <3>3. cmd[b].op \in {"publish", "delete"} => version'[cmd[b].on].token = version[cmd[b].on].token
        BY <3>1, <3>2 DEF CommandSound
      <3>4. cmd[b].op = "clone" => cmd[b].other # v
        BY <1>3, <3>1 DEF CommandSound
      <3> QED
        BY <3>1, <3>2, <3>3, <3>4 DEF CommandSound
    <2> QED
      BY <2>1, <2>2
  <1>7. ASSUME NEW b \in Admin PROVE ViewSound(b)'
    <2>0. PICK u : u = view[b].on
      OBVIOUS
    <2>1. ViewSound(b) /\ u \in Version \cup {Nothing} /\ view[b].token \in Nat
      BY <2>0 DEF LibraryInv, Typed
    <2>2. CASE u = Nothing
      BY <2>0, <2>1, <2>2 DEF ViewSound
    <2>3. CASE u \in Version /\ version'[u] = version[u]
      BY <2>0, <2>1, <2>3 DEF ViewSound
    <2>4. CASE u \in Version /\ version'[u].token > version[u].token
      <3>0. version'[u] # version[u]
        BY <1>1, <2>4
      <3>1. version[u].status \in VisibleStatuses /\ version'[u].status \in VisibleStatuses
        BY <1>3, <2>4, <3>0 DEF VisibleStatuses
      <3>2. view[b].token <= version[u].token /\ u # Nothing
        BY <2>0, <2>1, <2>4, <3>1, ConstantsAssumption DEF ViewSound
      <3>3. view[b].token < version'[u].token
        BY <1>1, <2>0, <2>1, <2>4, <3>2
      <3> QED
        BY <1>1, <2>0, <2>1, <2>4, <3>1, <3>2, <3>3 DEF ViewSound, VisibleStatuses
    <2> QED
      BY <2>1, <2>2, <2>3, <2>4
  <1>8. Exclusive'
    BY <1>2 DEF LibraryInv, Exclusive, NoCommand
  <1>9. ASSUME NEW p \in Template PROVE TemplateSound(p)'
    <2>1. TemplateSound(p) /\ Versions(p)' = Versions(p) /\ Versions(p) \subseteq Version
      BY DEF Versions, LibraryInv
    <2> QED
      BY <2>1 DEF TemplateSound, Exists
  <1> QED
    BY <1>4, <1>5, <1>6, <1>7, <1>8, <1>9 DEF LibraryInv

\* What publishing does to each row.
LEMMA PublishTurns ==
  ASSUME LibraryInv, NEW a \in Admin, FinishPublish(a), NEW v, v = cmd[a].on,
         NEW p, p = version[v].template
  PROVE  /\ cmd[a].op = "publish" /\ ~BlockingIssue(content[v])
         /\ Done(a) /\ UNCHANGED <<content, view>>
         /\ v \in Version /\ version[v].status = "draft" /\ p \in Template
         /\ version \in [Version -> VersionRow] /\ version' \in [Version -> VersionRow]
         /\ \A u \in Version :
              /\ version'[u].template = version[u].template /\ version'[u].no = version[u].no
              /\ u = v => /\ version'[u].status = "published" /\ version'[u].current
                          /\ version'[u].token = version[u].token + 1
              /\ u # v => version'[u].status = version[u].status
              /\ u # v /\ u \in Current(p) => /\ ~version'[u].current
                                              /\ version'[u].token = version[u].token + 1
              /\ u # v /\ u \notin Current(p) => version'[u] = version[u]
  <1>3. /\ cmd[a].op = "publish" /\ ~BlockingIssue(content[v])
        /\ Done(a) /\ UNCHANGED <<content, view>>
        /\ version' = [u \in Version |->
             CASE u = v -> Turned(version[u], "published", TRUE)
               [] u \in Current(p) \ {v} -> Marked(version[u], FALSE)
               [] OTHER -> version[u]]
    BY DEF FinishPublish, Ready, Turned, Marked
  <1>4. /\ v \in Version /\ version[v].status = "draft" /\ p \in Template
        /\ version \in [Version -> VersionRow]
    BY <1>3 DEF LibraryInv, Typed, CommandSound, RowSound, VisibleStatuses
  <1>5. ASSUME NEW u \in Version
        PROVE  /\ u = v => version'[u] = Turned(version[u], "published", TRUE)
               /\ u # v /\ u \in Current(p) => version'[u] = Marked(version[u], FALSE)
               /\ u # v /\ u \notin Current(p) => version'[u] = version[u]
    BY <1>3
  <1>6. ASSUME NEW u \in Version
        PROVE  /\ version'[u] \in VersionRow
               /\ version'[u].template = version[u].template /\ version'[u].no = version[u].no
               /\ u = v => /\ version'[u].status = "published" /\ version'[u].current
                           /\ version'[u].token = version[u].token + 1
               /\ u # v => version'[u].status = version[u].status
               /\ u # v /\ u \in Current(p) => /\ ~version'[u].current
                                               /\ version'[u].token = version[u].token + 1
               /\ u # v /\ u \notin Current(p) => version'[u] = version[u]
    <2>1. version[u] \in VersionRow
      BY <1>4
    <2>2. CASE u = v
      <3>1. \A c \in BOOLEAN : LET q == Turned(version[u], "published", c) IN
              /\ q \in VersionRow /\ q.template = version[u].template /\ q.no = version[u].no
              /\ q.status = "published" /\ q.current = c /\ q.token = version[u].token + 1
        BY <2>1, RowTurned
      <3> QED
        BY <1>5, <2>2, <3>1
    <2>3. CASE u # v
      BY <1>5, <2>1, <2>3, RowMarked
    <2> QED
      BY <2>2, <2>3
  <1>7. version' \in [Version -> VersionRow]
    BY <1>3, <1>6
  <1> QED
    BY <1>3, <1>4, <1>6, <1>7

LEMMA PublishKeepsInv ==
  ASSUME LibraryInv, NEW a \in Admin, FinishPublish(a)
  PROVE  LibraryInv'
  <1>1. PICK v : v = cmd[a].on
    OBVIOUS
  <1>2. PICK p : p = version[v].template
    OBVIOUS
  <1>3. /\ cmd[a].op = "publish" /\ ~BlockingIssue(content[v])
        /\ Done(a) /\ UNCHANGED <<content, view>>
        /\ v \in Version /\ version[v].status = "draft" /\ p \in Template
        /\ version \in [Version -> VersionRow] /\ version' \in [Version -> VersionRow]
    BY <1>1, <1>2, PublishTurns
  <1>6. ASSUME NEW u \in Version
        PROVE  /\ version'[u].template = version[u].template /\ version'[u].no = version[u].no
               /\ u = v => /\ version'[u].status = "published" /\ version'[u].current
                           /\ version'[u].token = version[u].token + 1
               /\ u # v => version'[u].status = version[u].status
               /\ u # v /\ u \in Current(p) => /\ ~version'[u].current
                                               /\ version'[u].token = version[u].token + 1
               /\ u # v /\ u \notin Current(p) => version'[u] = version[u]
    BY <1>1, <1>2, PublishTurns
  <1>8. ASSUME NEW u \in Version
        PROVE  /\ \/ version'[u] = version[u]
                  \/ /\ version'[u].token > version[u].token
                     /\ u = v \/ version[u].status = "published"
               /\ version'[u].current => version'[u].status = "published"
    <2>1. RowSound(u) /\ version[u].token \in Nat
      BY <1>3 DEF LibraryInv, VersionRow
    <2>2. u \in Current(p) => version[u].current
      BY DEF Current
    <2> QED
      BY <1>6, <2>1, <2>2 DEF RowSound
  <1>9. ASSUME NEW q \in Template
        PROVE  /\ \A s, t \in Current(q)' : s = t
               /\ (\E u \in Versions(q)' : version'[u].status = "published") => Current(q)' # {}
    <2>1. TemplateSound(q) /\ Versions(q)' = Versions(q) /\ Versions(q) \subseteq Version
      BY <1>6 DEF Versions, LibraryInv
    <2>2. CASE q = p
      <3>1. Current(q)' = {v}
        BY <1>2, <1>3, <1>6, <2>1, <2>2 DEF Current, Versions
      <3> QED
        BY <3>1
    <2>3. CASE q # p
      <3>1. \A u \in Versions(q) : version'[u] = version[u]
        BY <1>2, <1>6, <2>3 DEF Versions, Current
      <3>2. Current(q)' = Current(q)
        BY <2>1, <3>1 DEF Current
      <3> QED
        BY <2>1, <3>1, <3>2 DEF TemplateSound
    <2> QED
      BY <2>2, <2>3
  <1>10. \A u \in Version :
           /\ version'[u].template = version[u].template /\ version'[u].no = version[u].no
           /\ \/ version'[u] = version[u]
              \/ /\ version'[u].token > version[u].token
                 /\ u = v \/ version[u].status = "published"
           /\ u # v => version'[u].status = version[u].status
           /\ version'[u].current => version'[u].status = "published"
    BY <1>6, <1>8
  <1>11. /\ version'[v].status \in {"published", "archived"}
         /\ version'[v].status = "published" => ~BlockingIssue(content[v])
    BY <1>3, <1>6
  <1> QED
    BY <1>1, <1>3, <1>9, <1>10, <1>11, TurnKeepsInv

\* What archiving does to each row.
LEMMA ArchiveTurns ==
  ASSUME LibraryInv, NEW a \in Admin, FinishArchive(a), NEW v, v = cmd[a].on,
         NEW r, r = cmd[a].other
  PROVE  /\ cmd[a].op = "archive" /\ Done(a) /\ UNCHANGED <<content, view>>
         /\ version[v].current =>
              /\ r # v
              /\ version[r].template = version[v].template /\ version[r].status = "published"
         /\ v \in Version /\ r \in Version /\ version[v].status = "published"
         /\ version[v].template \in Template
         /\ version \in [Version -> VersionRow] /\ version' \in [Version -> VersionRow]
         /\ \A u \in Version :
              /\ version'[u].template = version[u].template /\ version'[u].no = version[u].no
              /\ u = v => /\ version'[u].status = "archived" /\ ~version'[u].current
                          /\ version'[u].token = version[u].token + 1
              /\ u # v => version'[u].status = version[u].status
              /\ u # v /\ u = r /\ version[v].current =>
                   version'[u].current /\ version'[u].token = version[u].token + 1
              /\ u # v /\ ~(u = r /\ version[v].current) => version'[u] = version[u]
  <1>3. /\ cmd[a].op = "archive" /\ Done(a) /\ UNCHANGED <<content, view>>
        /\ version[v].current =>
             /\ r # v
             /\ version[r].template = version[v].template /\ version[r].status = "published"
        /\ version' = [u \in Version |->
             CASE u = v -> Turned(version[u], "archived", FALSE)
               [] u = r /\ version[v].current -> Marked(version[u], TRUE)
               [] OTHER -> version[u]]
    BY DEF FinishArchive, Ready, ReplacementAccepted, Turned, Marked
  <1>4. /\ v \in Version /\ r \in Version /\ version[v].status = "published"
        /\ version[v].template \in Template
        /\ version \in [Version -> VersionRow]
    BY <1>3 DEF LibraryInv, Typed, CommandSound, RowSound, VisibleStatuses
  <1>5. ASSUME NEW u \in Version
        PROVE  /\ u = v => version'[u] = Turned(version[u], "archived", FALSE)
               /\ u # v /\ u = r /\ version[v].current =>
                    version'[u] = Marked(version[u], TRUE)
               /\ u # v /\ ~(u = r /\ version[v].current) => version'[u] = version[u]
    BY <1>3
  <1>6. ASSUME NEW u \in Version
        PROVE  /\ version'[u] \in VersionRow
               /\ version'[u].template = version[u].template /\ version'[u].no = version[u].no
               /\ u = v => /\ version'[u].status = "archived" /\ ~version'[u].current
                           /\ version'[u].token = version[u].token + 1
               /\ u # v => version'[u].status = version[u].status
               /\ u # v /\ u = r /\ version[v].current =>
                    version'[u].current /\ version'[u].token = version[u].token + 1
               /\ u # v /\ ~(u = r /\ version[v].current) => version'[u] = version[u]
    <2>1. version[u] \in VersionRow
      BY <1>4
    <2>2. CASE u = v
      <3>1. \A c \in BOOLEAN : LET q == Turned(version[u], "archived", c) IN
              /\ q \in VersionRow /\ q.template = version[u].template /\ q.no = version[u].no
              /\ q.status = "archived" /\ q.current = c /\ q.token = version[u].token + 1
        BY <2>1, RowTurned
      <3> QED
        BY <1>5, <2>2, <3>1
    <2>3. CASE u # v
      BY <1>5, <2>1, <2>3, RowMarked
    <2> QED
      BY <2>2, <2>3
  <1>7. version' \in [Version -> VersionRow]
    BY <1>3, <1>6
  <1> QED
    BY <1>3, <1>4, <1>6, <1>7

LEMMA ArchiveKeepsInv ==
  ASSUME LibraryInv, NEW a \in Admin, FinishArchive(a)
  PROVE  LibraryInv'
  <1>1. PICK v : v = cmd[a].on
    OBVIOUS
  <1>2. PICK r : r = cmd[a].other
    OBVIOUS
  <1>3. /\ cmd[a].op = "archive" /\ Done(a) /\ UNCHANGED <<content, view>>
        /\ version[v].current =>
             /\ r # v
             /\ version[r].template = version[v].template /\ version[r].status = "published"
        /\ v \in Version /\ r \in Version /\ version[v].status = "published"
        /\ version[v].template \in Template
        /\ version \in [Version -> VersionRow] /\ version' \in [Version -> VersionRow]
    BY <1>1, <1>2, ArchiveTurns
  <1>6. ASSUME NEW u \in Version
        PROVE  /\ version'[u].template = version[u].template /\ version'[u].no = version[u].no
               /\ u = v => /\ version'[u].status = "archived" /\ ~version'[u].current
                           /\ version'[u].token = version[u].token + 1
               /\ u # v => version'[u].status = version[u].status
               /\ u # v /\ u = r /\ version[v].current =>
                    version'[u].current /\ version'[u].token = version[u].token + 1
               /\ u # v /\ ~(u = r /\ version[v].current) => version'[u] = version[u]
    BY <1>1, <1>2, ArchiveTurns
  <1>8. ASSUME NEW u \in Version
        PROVE  /\ \/ version'[u] = version[u]
                  \/ /\ version'[u].token > version[u].token
                     /\ u = v \/ version[u].status = "published"
               /\ version'[u].current => version'[u].status = "published"
    <2>1. RowSound(u) /\ version[u].token \in Nat
      BY <1>3 DEF LibraryInv, VersionRow
    <2>2. CASE u = v
      BY <1>6, <2>1, <2>2
    <2>3. CASE u # v /\ u = r /\ version[v].current
      <3>1. version[u].status = "published"
        BY <1>3, <2>3
      <3> QED
        BY <1>6, <2>1, <2>3, <3>1
    <2>4. CASE u # v /\ ~(u = r /\ version[v].current)
      BY <1>6, <2>1, <2>4 DEF RowSound
    <2> QED
      BY <2>2, <2>3, <2>4
  <1>9. ASSUME NEW q \in Template
        PROVE  /\ \A s, t \in Current(q)' : s = t
               /\ (\E u \in Versions(q)' : version'[u].status = "published") => Current(q)' # {}
    <2>1. /\ TemplateSound(q) /\ Versions(q)' = Versions(q) /\ Versions(q) \subseteq Version
          /\ Current(q) \subseteq Versions(q)
      BY <1>6 DEF Versions, LibraryInv, Current
    <2>2. CASE version[v].current /\ q = version[v].template
      <3>1. v \in Current(q) /\ \A u \in Versions(q) : version[u].current => u = v
        <4>1. v \in Current(q) /\ \A s, t \in Current(q) : s = t
          BY <1>3, <2>1, <2>2 DEF Current, Versions, TemplateSound
        <4>2. \A u \in Versions(q) : version[u].current => u \in Current(q)
          BY DEF Current
        <4> QED
          BY <4>1, <4>2
      <3>2. r \in Versions(q)
        BY <1>3, <2>2 DEF Versions
      <3>3. \A u \in Versions(q) : version'[u].current <=> u = r
        <4> TAKE u \in Versions(q)
        <4>1. CASE u = v
          BY <1>3, <1>6, <2>1, <2>2, <4>1
        <4>2. CASE u # v /\ u = r
          BY <1>6, <2>1, <2>2, <4>2
        <4>3. CASE u # v /\ u # r
          BY <1>6, <2>1, <3>1, <4>3
        <4> QED
          BY <4>1, <4>2, <4>3
      <3>4. Current(q)' = {r}
        BY <2>1, <3>2, <3>3 DEF Current
      <3> QED
        BY <3>4
    <2>3. CASE ~(version[v].current /\ q = version[v].template)
      <3>1. \A u \in Versions(q) : version'[u].current <=> version[u].current
        <4> TAKE u \in Versions(q)
        <4>1. u \in Version /\ version[u].template = q
          BY DEF Versions
        <4>2. CASE u = v
          BY <1>6, <2>3, <4>1, <4>2
        <4>3. CASE u # v
          BY <1>3, <1>6, <2>3, <4>1, <4>3
        <4> QED
          BY <4>2, <4>3
      <3>2. Current(q)' = Current(q)
        BY <2>1, <3>1 DEF Current
      <3>3. \A u \in Versions(q) : version'[u].status = "published" => version[u].status = "published"
        BY <1>3, <1>6, <2>1
      <3> QED
        BY <2>1, <3>2, <3>3 DEF TemplateSound
    <2> QED
      BY <2>2, <2>3
  <1>10. \A u \in Version :
           /\ version'[u].template = version[u].template /\ version'[u].no = version[u].no
           /\ \/ version'[u] = version[u]
              \/ /\ version'[u].token > version[u].token
                 /\ u = v \/ version[u].status = "published"
           /\ u # v => version'[u].status = version[u].status
           /\ version'[u].current => version'[u].status = "published"
    BY <1>6, <1>8
  <1>11. /\ version'[v].status \in {"published", "archived"}
         /\ version'[v].status = "published" => ~BlockingIssue(content[v])
    BY <1>3, <1>6
  <1> QED
    BY <1>1, <1>3, <1>9, <1>10, <1>11, TurnKeepsInv

\* A draft goes: its template may have lost its greatest number.
LEMMA GreatestNumber ==
  ASSUME NEW S, S # {}, NEW f, \A u \in S : f[u] \in Nat,
         NEW n \in Nat, \A u \in S : f[u] <= n
  PROVE  \E m \in S : \A u \in S : f[u] <= f[m]
  <1> DEFINE bounds == {k \in Nat : \A u \in S : f[u] <= k}
  <1>1. IsWellFoundedOn({ss \in Nat \X Nat : ss[1] < ss[2]}, Nat)
    BY NatLessThanWellFounded DEF OpToRel
  <1>2. n \in bounds /\ bounds \subseteq Nat
    OBVIOUS
  <1>3. PICK k \in bounds : \A j \in bounds : <<j, k>> \notin {ss \in Nat \X Nat : ss[1] < ss[2]}
    BY <1>1, <1>2, WFMin
  <1>4. \A j \in bounds : ~(j < k)
    BY <1>2, <1>3
  <1>5. \E m \in S : f[m] = k
    <2>1. SUFFICES ASSUME \A m \in S : f[m] # k PROVE FALSE
      OBVIOUS
    <2>2. k \in Nat /\ \A u \in S : f[u] < k
      BY <2>1, <1>3
    <2>3. k > 0
      BY <2>2
    <2>4. k - 1 \in bounds
      BY <2>2, <2>3
    <2> QED
      BY <1>4, <2>2, <2>4
  <1> QED
    BY <1>3, <1>5

LEMMA DeleteKeepsInv ==
  ASSUME LibraryInv, NEW a \in Admin, FinishDelete(a)
  PROVE  LibraryInv'
  <1>1. PICK v : v = cmd[a].on
    OBVIOUS
  <1>2. PICK gone : gone = [Absent EXCEPT !.status = "deleted"]
    OBVIOUS
  <1>3. /\ cmd[a].op = "delete" /\ Done(a) /\ UNCHANGED view
        /\ version' = [version EXCEPT ![v] = gone]
        /\ content' = [content EXCEPT ![v] = Blank]
    BY <1>1, <1>2 DEF FinishDelete, Ready
  <1>4. /\ v \in Version /\ version[v].status = "draft" /\ v \in cmd[a].held
        /\ version \in [Version -> VersionRow] /\ cmd \in [Admin -> Command]
        /\ DOMAIN content = Version
    BY <1>1, <1>3 DEF LibraryInv, Typed, CommandSound
  <1>5. /\ gone \in VersionRow /\ gone.template = Nothing /\ gone.status = "deleted"
        /\ ~gone.current /\ gone.token = 0
    BY <1>2 DEF Absent, VersionRow
  <1>6. /\ version' \in [Version -> VersionRow] /\ version'[v] = gone
        /\ DOMAIN content' = Version
        /\ \A u \in Version \ {v} : version'[u] = version[u] /\ content'[u] = content[u]
    BY <1>3, <1>4, <1>5
  <1>7. /\ cmd' \in [Admin -> Command] /\ cmd'[a] = NoCommand
        /\ \A b \in Admin \ {a} : cmd'[b] = cmd[b]
    <2>1. NoCommand \in Command
      BY DEF NoCommand, Command
    <2> QED
      BY <1>3, <1>4, <2>1 DEF Done
  <1>8. Typed'
    BY <1>3, <1>6, <1>7 DEF LibraryInv, Typed
  <1>9. ASSUME NEW u \in Version PROVE RowSound(u)'
    <2>1. RowSound(u)
      BY DEF LibraryInv
    <2>2. CASE u = v
      BY <1>5, <1>6, <2>2 DEF RowSound, VisibleStatuses
    <2>3. CASE u # v
      BY <1>6, <2>1, <2>3 DEF RowSound
    <2> QED
      BY <2>2, <2>3
  <1>10. ASSUME NEW b \in Admin PROVE CommandSound(b)'
    <2>1. CASE b = a
      BY <1>7, <2>1 DEF CommandSound, NoCommand
    <2>2. CASE b # a
      <3>1. CommandSound(b) /\ cmd'[b] = cmd[b]
        BY <1>7, <2>2 DEF LibraryInv
      <3>2. cmd[b].op # "idle" => cmd[b].on # v
        BY <1>4, <2>2, <3>1 DEF CommandSound, LibraryInv, Exclusive
      <3>3. cmd[b].op = "clone" => cmd[b].other # v
        BY <1>4, <3>1, <1>4 DEF CommandSound, LibraryInv, Typed, Command
      <3> QED
        BY <1>3, <1>4, <1>6, <3>1, <3>2, <3>3 DEF CommandSound, Command
    <2> QED
      BY <2>1, <2>2
  <1>11. ASSUME NEW b \in Admin PROVE ViewSound(b)'
    <2>0. PICK u : u = view[b].on
      OBVIOUS
    <2>1. ViewSound(b) /\ u \in Version \cup {Nothing} /\ view'[b] = view[b] /\ v # Nothing
      BY <1>3, <1>4, <2>0, ConstantsAssumption DEF LibraryInv, Typed
    <2>2. CASE u = v
      BY <1>5, <1>6, <2>0, <2>1, <2>2 DEF ViewSound, VisibleStatuses
    <2>3. CASE u # v
      BY <1>6, <2>0, <2>1, <2>3 DEF ViewSound
    <2> QED
      BY <2>2, <2>3
  <1>12. Exclusive'
    BY <1>7 DEF LibraryInv, Exclusive, NoCommand
  <1>13. ASSUME NEW p \in Template PROVE TemplateSound(p)'
    <2>1. /\ TemplateSound(p) /\ p # Nothing /\ ~version[v].current
          /\ Versions(p) \subseteq Version
      BY <1>4, ConstantsAssumption DEF LibraryInv, RowSound, Versions
    <2>2. PICK S : S = Versions(p)'
      OBVIOUS
    <2>3. S = Versions(p) \ {v}
      BY <1>5, <1>6, <2>1, <2>2 DEF Versions
    <2>4. Current(p)' = Current(p) /\ \A u \in S : version'[u] = version[u]
      BY <1>5, <1>6, <2>1, <2>2, <2>3 DEF Current
    <2>5. ASSUME S # {} PROVE \E m \in S : \A u \in S : version'[u].no <= version'[m].no
      <3> DEFINE f == [u \in S |-> version[u].no]
      <3>1. PICK top \in Versions(p) : \A u \in Versions(p) : version[u].no <= version[top].no
        BY <2>1, <2>3, <2>5 DEF TemplateSound, Exists
      <3>2. /\ \A u \in S : f[u] = version[u].no /\ f[u] \in Nat
            /\ version[top].no \in Nat
            /\ \A u \in S : f[u] <= version[top].no
        BY <1>4, <2>1, <2>3, <3>1 DEF VersionRow
      <3> HIDE DEF f
      <3>3. \E m \in S : \A u \in S : f[u] <= f[m]
        BY <2>5, <3>2, GreatestNumber
      <3> QED
        BY <2>4, <3>2, <3>3
    <2>6. /\ \A u, t \in S : u # t => version'[u].no # version'[t].no
          /\ (\E u \in S : version'[u].status = "published") => Current(p)' # {}
          /\ \A u, t \in Current(p)' : u = t
      BY <2>1, <2>3, <2>4 DEF TemplateSound
    <2> QED
      BY <2>2, <2>5, <2>6 DEF TemplateSound, Exists
  <1> QED
    BY <1>8, <1>9, <1>10, <1>11, <1>12, <1>13 DEF LibraryInv

LEMMA NextLibrary == LibraryInv /\ [Next]_vars => LibraryInv'
  <1> SUFFICES ASSUME LibraryInv, [Next]_vars PROVE LibraryInv'
    OBVIOUS
  <1>1. CASE UNCHANGED vars
    <2>1. UNCHANGED <<version, content, view, cmd>>
      BY <1>1 DEF vars
    <2>2. Typed' /\ Exclusive' /\ \A a \in Admin : CommandSound(a)' /\ ViewSound(a)'
      BY <2>1 DEF LibraryInv, Typed, Exclusive, CommandSound, ViewSound
    <2> QED
      BY <2>1, <2>2, SameRows DEF LibraryInv
  <1>2. ASSUME NEW a \in Admin, NEW v \in Version,
               EditTasks(a, v) \/ EditOrder(a, v) \/ EditDependencies(a, v) \/ EditGates(a, v)
        PROVE  LibraryInv'
    BY <1>2, EditsTouch, EditsKeepInv
  <1>3. ASSUME NEW a \in Admin, NEW v \in Version, OpenVersion(a, v) \/ ReadToken(a)
        PROVE  LibraryInv'
    BY <1>3, ReadsKeepInv
  <1>4. ASSUME NEW a \in Admin, NEW v \in Version, NEW other \in Version,
               \/ BeginPublish(a, v) \/ BeginDelete(a, v)
               \/ BeginArchive(a, v, other) \/ BeginClone(a, v, other)
        PROVE  LibraryInv'
    BY <1>4, BeginKeepsInv
  <1>5. ASSUME NEW a \in Admin, NEW v \in Version, NEW p \in Template, NEW other \in Version,
               CreateTemplate(a, p, v) \/ CloneToNewTemplate(a, v, p, other)
        PROVE  LibraryInv'
    BY <1>5, InsertsKeepInv
  <1>6. ASSUME NEW a \in Admin, Refuse(a) \/ DeadlockVictim(a) PROVE LibraryInv'
    BY <1>6, DoneKeepsInv DEF Refuse, DeadlockVictim
  <1>7. ASSUME NEW a \in Admin, ReadToken(a) PROVE LibraryInv'
    BY <1>7, ReadsKeepInv
  <1>8. ASSUME NEW a \in Admin,
               \/ Advance(a) \/ FinishPublish(a) \/ FinishArchive(a)
               \/ FinishDelete(a) \/ FinishClone(a)
        PROVE  LibraryInv'
    BY <1>8, AdvanceKeepsInv, PublishKeepsInv, ArchiveKeepsInv, DeleteKeepsInv, CloneKeepsInv
  <1> QED
    BY <1>1, <1>2, <1>3, <1>4, <1>5, <1>6, <1>7, <1>8 DEF Next

-----------------------------------------------------------------------------
(* Who changes a draft.                                                    *)

ActsOn(a, v) ==
  /\ <<view[a], cmd[a]>>' # <<view[a], cmd[a]>>
  /\ view[a].on = v /\ (view[a].seen = content[v] \/ view[a].torn)

SeenBefore(v) ==
  /\ content'[v] # content[v] => version[v].status \in {"absent", "draft"}
  /\ version[v].status = "draft" /\ <<content[v], version[v].status>>' # <<content[v], "draft">> =>
       \E a \in Admin : ActsOn(a, v)

\* Where the token is that of the draft, the content is what was seen.
LEMMA TokenMeansSeen ==
  ASSUME LibraryInv, NEW a \in Admin, NEW v \in Version, version[v].status = "draft",
         view[a].on = v, view[a].token = version[v].token
  PROVE  view[a].seen = content[v] \/ view[a].torn
  BY ConstantsAssumption DEF LibraryInv, ViewSound, VisibleStatuses

LEMMA EditsAreSeen ==
  ASSUME LibraryInv, NEW a \in Admin, NEW v \in Version, Edited(a, v), NEW u \in Version
  PROVE  SeenBefore(u)
  <1>1. PICK new : Editable(a, v) /\ Touch(a, v, new)
    BY DEF Edited
  <1> DEFINE seen == IF view[a].seen = content[v] THEN new ELSE view[a].seen
             next == version[v].token + 1
             w == [[view[a] EXCEPT !.token = next] EXCEPT !.seen = seen]
  <1>2. /\ version[v].status = "draft" /\ view[a].on = v /\ view[a].token = version[v].token
        /\ content' = [content EXCEPT ![v] = new]
        /\ version' = [version EXCEPT ![v].token = @ + 1]
        /\ view' = [view EXCEPT ![a].token = version[v].token + 1,
                                ![a].seen = IF @ = content[v] THEN new ELSE @]
    BY <1>1 DEF Touch, Editable, TokenCurrent
  <1>3. /\ version \in [Version -> VersionRow] /\ DOMAIN content = Version
        /\ DOMAIN view = Admin /\ DOMAIN view[a] = ViewFields /\ version[v].token \in Nat
    BY DEF LibraryInv, Typed, VersionRow
  <1>4. view' = [view EXCEPT ![a] = w]
    BY <1>2, <1>3, Zenon
  <1>5. w.token = next
    <2> HIDE DEF next, seen
    <2> QED
      BY <1>3 DEF ViewFields
  <1>6. view'[a] # view[a]
    <2>1. next # view[a].token
      BY <1>2, <1>3
    <2> HIDE DEF w, next
    <2> QED
      BY <1>3, <1>4, <1>5, <2>1
  <1>7. /\ u # v => content'[u] = content[u]
        /\ version'[u].status = version[u].status
    BY <1>2, <1>3 DEF VersionRow
  <1>8. ActsOn(a, v)
    BY <1>2, <1>6, TokenMeansSeen DEF ActsOn
  <1>9. CASE u = v
    BY <1>2, <1>8, <1>9 DEF SeenBefore
  <1>10. CASE u # v
    BY <1>7, <1>10 DEF SeenBefore
  <1> QED
    BY <1>9, <1>10

\* A command that publishes or deletes ends with its change.
LEMMA CommandsAreSeen ==
  ASSUME LibraryInv, NEW a \in Admin, FinishPublish(a) \/ FinishDelete(a), NEW u \in Version
  PROVE  SeenBefore(u)
  <1>1. PICK v : v = cmd[a].on
    OBVIOUS
  <1>2. /\ cmd[a].op \in {"publish", "delete"} /\ cmd[a].op # "idle" /\ Done(a)
    BY DEF FinishPublish, FinishDelete, Ready
  <1>3. /\ v \in Version /\ version[v].status = "draft" /\ view[a].on = v
        /\ view[a].token = version[v].token
    BY <1>1, <1>2 DEF LibraryInv, CommandSound
  <1>4. cmd'[a] # cmd[a]
    BY <1>2 DEF Done, NoCommand, LibraryInv, Typed
  <1>5. ActsOn(a, v)
    BY <1>3, <1>4, TokenMeansSeen DEF ActsOn
  <1>6. CASE u = v
    BY <1>3, <1>5, <1>6 DEF SeenBefore
  <1>7. CASE u # v
    <2>1. version[u].status = "draft" => version'[u].status = "draft"
      <3>1. CASE FinishPublish(a)
        <4>1. version[u].current => version[u].status = "published"
          BY DEF LibraryInv, RowSound
        <4>2. version[u].status = "draft" => version'[u] = version[u]
          BY <1>1, <1>7, <3>1, <4>1 DEF FinishPublish, Current
        <4> QED
          BY <4>2
      <3>2. CASE FinishDelete(a)
        BY <1>1, <1>3, <1>7, <3>2 DEF FinishDelete, LibraryInv, Typed
      <3> QED
        BY <3>1, <3>2
    <2>2. content'[u] = content[u]
      BY <1>1, <1>3, <1>7 DEF FinishPublish, FinishDelete, LibraryInv, Typed
    <2> QED
      BY <2>1, <2>2 DEF SeenBefore
  <1> QED
    BY <1>6, <1>7

\* A new version, an archived one: no draft changes.
LEMMA OthersLeaveDrafts ==
  ASSUME LibraryInv, NEW a \in Admin, NEW u \in Version,
         \/ \E v, new \in Version, p \in Template :
              CreateTemplate(a, p, v) \/ CloneToNewTemplate(a, v, p, new)
         \/ FinishClone(a) \/ FinishArchive(a)
  PROVE  SeenBefore(u)
  <1>1. version \in [Version -> VersionRow] /\ DOMAIN content = Version
    BY DEF LibraryInv, Typed
  <1>2. CASE \/ \E v, new \in Version, p \in Template :
                  CreateTemplate(a, p, v) \/ CloneToNewTemplate(a, v, p, new)
             \/ FinishClone(a)
    <2>1. PICK n \in Version :
            /\ version[n].status = "absent"
            /\ \E row : version' = [version EXCEPT ![n] = row]
            /\ content' = content \/ \E c : content' = [content EXCEPT ![n] = c]
      <3>1. CASE FinishClone(a)
        <4>1. cmd[a].other \in Version /\ version[cmd[a].other].status = "absent"
          BY <3>1 DEF FinishClone, Ready, LibraryInv, CommandSound
        <4> QED
          BY <3>1, <4>1 DEF FinishClone
      <3>2. CASE \E v, new \in Version, p \in Template :
                   CreateTemplate(a, p, v) \/ CloneToNewTemplate(a, v, p, new)
        BY <3>2 DEF CreateTemplate, CloneToNewTemplate, Fresh
      <3> QED
        BY <1>2, <3>1, <3>2
    <2>2. CASE u = n
      BY <2>1, <2>2 DEF SeenBefore
    <2>3. CASE u # n
      BY <1>1, <2>1, <2>3 DEF SeenBefore
    <2> QED
      BY <2>2, <2>3
  <1>3. CASE FinishArchive(a)
    <2>1. PICK v, r : v = cmd[a].on /\ r = cmd[a].other
      OBVIOUS
    <2>2. /\ version[v].status = "published" /\ UNCHANGED content
          /\ version[v].current => version[r].status = "published"
      BY <1>3, <2>1 DEF FinishArchive, Ready, ReplacementAccepted, LibraryInv, CommandSound
    <2>3. version[u].status = "draft" => version'[u] = version[u]
      BY <1>3, <2>1, <2>2 DEF FinishArchive
    <2> QED
      BY <2>2, <2>3 DEF SeenBefore
  <1> QED
    BY <1>2, <1>3

\* The steps that change versions or their content.
LEMMA StepsTouch ==
  ASSUME Next
  PROVE  \E a \in Admin :
           \/ UNCHANGED <<version, content>>
           \/ \E v \in Version : Edited(a, v)
           \/ FinishPublish(a) \/ FinishDelete(a)
           \/ \E v, new \in Version, p \in Template :
                CreateTemplate(a, p, v) \/ CloneToNewTemplate(a, v, p, new)
           \/ FinishClone(a) \/ FinishArchive(a)
  BY EditsTouch DEF Next, OpenVersion, ReadToken, Advance, Refuse, DeadlockVictim, Begin,
                    BeginPublish, BeginDelete, BeginArchive, BeginClone

LEMMA StepsAreSeen ==
  ASSUME LibraryInv, Next, NEW u \in Version
  PROVE  SeenBefore(u)
  <1>1. PICK a \in Admin :
          \/ UNCHANGED <<version, content>>
          \/ \E v \in Version : Edited(a, v)
          \/ FinishPublish(a) \/ FinishDelete(a)
          \/ \E v, new \in Version, p \in Template :
               CreateTemplate(a, p, v) \/ CloneToNewTemplate(a, v, p, new)
          \/ FinishClone(a) \/ FinishArchive(a)
    BY StepsTouch
  <1>2. CASE UNCHANGED <<version, content>>
    BY <1>2 DEF SeenBefore
  <1>3. CASE \E v \in Version : Edited(a, v)
    BY <1>3, EditsAreSeen
  <1> QED
    BY <1>1, <1>2, <1>3, CommandsAreSeen, OthersLeaveDrafts

-----------------------------------------------------------------------------
(* The issues of the lists and the filter written again in SQL.            *)

\* They agree on every gate and every dependency, whatever the content.
LEMMA FilterAgrees ==
  ASSUME NEW c
  PROVE  /\ \A row : GateIssues(c, row) # {} <=> FilteredAsInvalid(c, row)
         /\ \A d : DependencyIssues(c, d) # {} <=> DependencyFilteredAsInvalid(c, d)
  <1>1. ASSUME NEW row PROVE GateIssues(c, row) # {} <=> FilteredAsInvalid(c, row)
    <2>1. /\ "missing_external_party" \in GateIssues(c, row) <=> ~row.party
          /\ "invalid_required_by" \in GateIssues(c, row) <=> RequiredByInvalid(row)
          /\ "missing_exact_task" \in GateIssues(c, row) <=> ~(row.links \subseteq DOMAIN c.tasks)
          /\ "exact_gate_without_tasks" \in GateIssues(c, row) <=>
               row.mapping = "exact" /\ row.links = {}
          /\ "broad_gate_has_exact_mappings" \in GateIssues(c, row) <=>
               row.mapping = "broad_text" /\ row.links # {}
          /\ "unmapped_gate" \in GateIssues(c, row) <=> row.mapping = "unmapped"
      BY DEF GateIssues
    <2>2. GateIssues(c, row) \subseteq
            {"missing_external_party", "invalid_required_by", "missing_exact_task",
             "exact_gate_without_tasks", "broad_gate_has_exact_mappings", "unmapped_gate"}
      BY DEF GateIssues
    <2>3. GateIssues(c, row) # {} <=>
            \/ ~row.party \/ RequiredByInvalid(row) \/ ~(row.links \subseteq DOMAIN c.tasks)
            \/ row.mapping = "exact" /\ row.links = {}
            \/ row.mapping = "broad_text" /\ row.links # {}
            \/ row.mapping = "unmapped"
      BY <2>1, <2>2
    <2> QED
      BY <2>3 DEF FilteredAsInvalid, RequiredByInvalid
  <1>2. ASSUME NEW d PROVE DependencyIssues(c, d) # {} <=> DependencyFilteredAsInvalid(c, d)
    <2>1. /\ "missing_predecessor" \in DependencyIssues(c, d) <=> d[1] \notin DOMAIN c.tasks
          /\ "missing_successor" \in DependencyIssues(c, d) <=> d[2] \notin DOMAIN c.tasks
          /\ "self_dependency" \in DependencyIssues(c, d) <=> d[1] = d[2]
          /\ DependencyIssues(c, d) \subseteq
               {"missing_predecessor", "missing_successor", "self_dependency"}
      BY DEF DependencyIssues
    <2> QED
      BY <2>1 DEF DependencyFilteredAsInvalid
  <1> QED
    BY <1>1, <1>2

-----------------------------------------------------------------------------
(* The theorems.                                                           *)

\* Whatever editors do and whichever commands a deadlock ends, the invariant
\* holds: a lock keeps what was checked under it, a token what was seen with it.
THEOREM LibraryInvariant == Spec => []LibraryInv
  BY InitLibrary, NextLibrary, PTL DEF Spec

\* A template with a published version has exactly one current version, its
\* versions have numbers of their own, and nothing published has a blocking
\* issue: projects are created from these rows.
THEOREM LibraryIsSound == Spec => []LibrarySound
  <1>1. LibraryInv => LibrarySound
    <2> SUFFICES ASSUME LibraryInv PROVE LibrarySound
      OBVIOUS
    <2>1. ASSUME NEW p \in Template PROVE Cardinality(Current(p)) <= 1
      <3>1. \A u, v \in Current(p) : u = v
        BY DEF LibraryInv, TemplateSound
      <3>2. CASE Current(p) = {}
        BY <3>2, FS_EmptySet
      <3>3. CASE Current(p) # {}
        <4>1. PICK u : Current(p) = {u}
          BY <3>1, <3>3
        <4> QED
          BY <4>1, FS_Singleton
      <3> QED
        BY <3>2, <3>3
    <2> QED
      BY <2>1 DEF LibrarySound, LibraryInv, RowSound, TemplateSound
  <1> QED
    BY <1>1, LibraryInvariant, PTL

\* A draft is changed, published or deleted only by an editor who has its very
\* content on the screen, or read its token after lists it no longer shows.
THEOREM DraftsAreSeen == Spec => ActsOnWhatItSaw
  <1>1. LibraryInv /\ [Next]_vars => [\A v \in Version : SeenBefore(v)]_vars
    BY StepsAreSeen
  <1>2. [][\A v \in Version : SeenBefore(v)]_vars => ActsOnWhatItSaw
    <2>1. [\A v \in Version : SeenBefore(v)]_vars =>
            [\A v \in Version :
               /\ content'[v] # content[v] => version[v].status \in {"absent", "draft"}
               /\ version[v].status = "draft" /\ <<content[v], version[v].status>>' # <<content[v], "draft">> =>
                    \E a \in Admin :
                      /\ <<view[a], cmd[a]>>' # <<view[a], cmd[a]>>
                      /\ view[a].on = v /\ (view[a].seen = content[v] \/ view[a].torn)]_vars
      BY DEF SeenBefore, ActsOn
    <2> QED
      BY <2>1, PTL DEF ActsOnWhatItSaw
  <1> QED
    BY <1>1, <1>2, LibraryInvariant, PTL DEF Spec

\* A row is in the filtered list exactly when the list shows an issue beside it.
THEOREM FiltersMatchIssues == Spec => []FilterMatchesIssues
  <1>1. FilterMatchesIssues
    BY FilterAgrees DEF FilterMatchesIssues
  <1> QED
    BY <1>1, PTL

-----------------------------------------------------------------------------
(* The library is a catalogue.                                             *)

Homes == [v \in Version |-> version[v].template]
Numbers == [v \in Version |-> version[v].no]
Stages == [v \in Version |-> version[v].status]
SoundOnes == {v \in Version : ~BlockingIssue(content[v])}
Chosen == {v \in Version : version[v].current}

\* What the catalogue shows of a row.
SameFace(u) ==
  /\ version'[u].template = version[u].template /\ version'[u].no = version[u].no
  /\ version'[u].status = version[u].status /\ version'[u].current = version[u].current

\* A step that changes one text at most and no mark.
LEMMA RewritesOne ==
  ASSUME NEW v \in Version, \A u \in Version \ {v} : content'[u] = content[u],
         \A u \in Version : version'[u].current = version[u].current
  PROVE  Shelf!Rewrite(v)
  <1>1. Chosen' = Chosen
    BY DEF Chosen
  <1>2. ASSUME NEW u \in Version \ {v}
        PROVE  content'[u] = content[u] /\ (u \in SoundOnes' <=> u \in SoundOnes)
    <2>1. content'[u] = content[u] /\ (BlockingIssue(content[u])' <=> BlockingIssue(content[u]))
      BY DEF BlockingIssue, SequenceFree
    <2> QED
      BY <2>1 DEF SoundOnes
  <1> QED
    BY <1>1, <1>2 DEF Shelf!Rewrite, SoundOnes, Chosen

LEMMA InitShelf == Init => Shelf!Init
  <1> SUFFICES ASSUME Init PROVE Shelf!Init
    OBVIOUS
  <1>1. /\ Absent.template = Nothing /\ Absent.status = "absent" /\ ~Absent.current
        /\ \A p \in Template : /\ Published(p).template = p /\ Published(p).current
                                /\ Published(p).status = "published"
    BY DEF Absent, Published, NewDraft
  <1>2. CASE version = [v \in Version |-> Absent]
    <2>1. Chosen = {} /\ Stages = [v \in Version |-> "absent"] /\ Homes = [v \in Version |-> Nothing]
      BY <1>1, <1>2 DEF Chosen, Stages, Homes
    <2> QED
      BY <2>1 DEF Shelf!Init, Chosen, Stages, Homes
  <1>3. ASSUME NEW v \in Version, NEW p \in Template,
               version = [u \in Version |-> IF u = v THEN Published(p) ELSE Absent],
               content = [u \in Version |-> IF u = v THEN Seed ELSE Blank]
        PROVE  Shelf!Init
    <2>1. /\ Chosen = {v} /\ v \in SoundOnes
          /\ Stages = [u \in Version |-> IF u = v THEN "published" ELSE "absent"]
          /\ Homes = [u \in Version |-> IF u = v THEN p ELSE Nothing]
      BY <1>1, <1>3, SeedAssumption DEF Chosen, Stages, Homes, SoundOnes
    <2>2. /\ Homes \in [Version -> Template \cup {Nothing}] /\ Homes[v] # Nothing
          /\ \A u \in Version : Stages[u] = "absent" <=> Homes[u] = Nothing
      BY <2>1, ConstantsAssumption
    <2> QED
      BY <2>1, <2>2 DEF Shelf!Init, Chosen, Stages, Homes, SoundOnes
  <1> QED
    BY <1>2, <1>3 DEF Init

LEMMA EditIsEdit ==
  ASSUME LibraryInv, NEW a \in Admin, NEW v \in Version, Edited(a, v)
  PROVE  Shelf!Edit(v)
  <1>1. PICK new : Editable(a, v) /\ Touch(a, v, new)
    BY DEF Edited
  <1>2. /\ version \in [Version -> VersionRow] /\ DOMAIN content = Version
        /\ content' = [content EXCEPT ![v] = new]
        /\ version' = [version EXCEPT ![v].token = @ + 1]
        /\ version[v].status = "draft"
    BY <1>1 DEF Touch, Editable, LibraryInv, Typed
  <1>3. /\ \A u \in Version : SameFace(u)
        /\ \A u \in Version \ {v} : content'[u] = content[u]
    BY <1>2 DEF SameFace, VersionRow
  <1>4. UNCHANGED <<Homes, Numbers, Stages>>
    BY <1>3 DEF SameFace, Homes, Numbers, Stages
  <1>5. Shelf!Rewrite(v)
    BY <1>3, RewritesOne DEF SameFace
  <1> QED
    BY <1>2, <1>4, <1>5 DEF Shelf!Edit, Homes, Numbers, Stages

\* A new row: of a new template, or behind all rows of an old one.
LEMMA InsertIsDraft ==
  ASSUME LibraryInv, NEW n \in Version, NEW p \in Template, NEW k \in Nat,
         version[n].status = "absent",
         version' = [version EXCEPT ![n] = NewDraft(p, k)],
         \A u \in Version \ {n} : content'[u] = content[u],
         \A u \in Versions(p) : version[u].no < k
  PROVE  Shelf!Draft(n, p)
  <1>1. /\ version \in [Version -> VersionRow]
        /\ version'[n] = NewDraft(p, k) /\ \A u \in Version \ {n} : version'[u] = version[u]
        /\ ~version[n].current
    BY DEF LibraryInv, Typed, RowSound
  <1>2. /\ version'[n].template = p /\ version'[n].no = k /\ version'[n].status = "draft"
        /\ ~version'[n].current
    BY <1>1 DEF NewDraft
  <1>3. /\ Stages' = [Stages EXCEPT ![n] = "draft"]
        /\ Homes' = [Homes EXCEPT ![n] = p]
        /\ Numbers' = [Numbers EXCEPT ![n] = Numbers'[n]] /\ Numbers'[n] = k
        /\ Stages[n] = "absent"
    BY <1>1, <1>2 DEF Stages, Homes, Numbers
  <1>4. \A u \in Version : Homes[u] = p => Numbers[u] < Numbers'[n]
    BY <1>3 DEF Homes, Numbers, Versions
  <1>5. \A u \in Version : version'[u].current = version[u].current
    <2>1. version[n].current = FALSE /\ version'[n].current = FALSE
      BY <1>1, <1>2 DEF NewDraft, VersionRow
    <2> QED
      BY <1>1, <2>1
  <1>6. Shelf!Rewrite(n)
    BY <1>5, RewritesOne
  <1> QED
    BY <1>3, <1>4, <1>6 DEF Shelf!Draft, Shelf!Series, Stages, Homes, Numbers

LEMMA InsertsAreDrafts ==
  ASSUME LibraryInv, NEW a \in Admin,
         \/ \E v, new \in Version, p \in Template :
              CreateTemplate(a, p, v) \/ CloneToNewTemplate(a, v, p, new)
         \/ FinishClone(a)
  PROVE  Shelf!Next
  <1>0. DOMAIN content = Version
    BY DEF LibraryInv, Typed
  <1>1. ASSUME NEW v \in Version, NEW new \in Version, NEW p \in Template,
               CreateTemplate(a, p, v) \/ CloneToNewTemplate(a, v, p, new)
        PROVE  Shelf!Next
    <2>1. PICK n \in Version :
            /\ ~Exists(p) /\ version[n].status = "absent"
            /\ version' = [version EXCEPT ![n] = NewDraft(p, 1)]
            /\ content' = content \/ \E c : content' = [content EXCEPT ![n] = c]
      BY <1>1 DEF CreateTemplate, CloneToNewTemplate, Fresh
    <2>2. /\ \A u \in Version \ {n} : content'[u] = content[u]
          /\ \A u \in Versions(p) : version[u].no < 1
      BY <1>0, <2>1 DEF Exists
    <2>3. Shelf!Draft(n, p)
      BY <2>1, <2>2, InsertIsDraft
    <2> QED
      BY <2>3 DEF Shelf!Next
  <1>2. CASE FinishClone(a)
    <2>1. PICK v, n : v = cmd[a].on /\ n = cmd[a].other
      OBVIOUS
    <2>2. PICK p, k : p = version[v].template /\ k = NextNumber(p)
      OBVIOUS
    <2>3. /\ cmd[a].op = "clone"
          /\ version' = [version EXCEPT ![n] = NewDraft(p, k)]
          /\ content' = [content EXCEPT ![n] = Copied(content[v])]
      BY <1>2, <2>1, <2>2 DEF FinishClone, Ready
    <2>4. /\ v \in Version /\ n \in Version /\ version[n].status = "absent"
          /\ version[v].status \in {"draft", "published"}
      BY <2>1, <2>3 DEF LibraryInv, CommandSound
    <2>5. p \in Template /\ Exists(p)
      BY <2>2, <2>4 DEF LibraryInv, RowSound, VisibleStatuses, Exists, Versions
    <2>6. k \in Nat /\ \A u \in Versions(p) : version[u].no < k
      BY <2>2, <2>5, NextNumberIsNew
    <2>7. \A u \in Version \ {n} : content'[u] = content[u]
      BY <1>0, <2>3
    <2>8. Shelf!Draft(n, p)
      BY <2>3, <2>4, <2>5, <2>6, <2>7, InsertIsDraft
    <2> QED
      BY <2>4, <2>5, <2>8 DEF Shelf!Next
  <1> QED
    BY <1>1, <1>2

LEMMA DeleteIsDiscard ==
  ASSUME LibraryInv, NEW a \in Admin, FinishDelete(a)
  PROVE  Shelf!Next
  <1>1. PICK v, gone : v = cmd[a].on /\ gone = [Absent EXCEPT !.status = "deleted"]
    OBVIOUS
  <1>2. /\ version' = [version EXCEPT ![v] = gone]
        /\ content' = [content EXCEPT ![v] = Blank]
        /\ v \in Version /\ version[v].status = "draft" /\ version[v].current = FALSE
        /\ version \in [Version -> VersionRow] /\ DOMAIN content = Version
    <2>1. cmd[a].op = "delete"
      BY DEF FinishDelete, Ready
    <2>2. v \in Version /\ version[v].status = "draft"
      BY <1>1, <2>1 DEF LibraryInv, CommandSound
    <2>3. version[v].current = FALSE
      BY <2>2 DEF LibraryInv, Typed, RowSound, VersionRow
    <2> QED
      BY <1>1, <2>2, <2>3 DEF FinishDelete, LibraryInv, Typed
  <1>3. gone.template = Nothing /\ gone.no = 0 /\ gone.status = "deleted" /\ gone.current = FALSE
    BY <1>1 DEF Absent
  <1>4. /\ version'[v] = gone
        /\ \A u \in Version \ {v} : version'[u] = version[u] /\ content'[u] = content[u]
    BY <1>2
  <1>5. /\ Stages' = [Stages EXCEPT ![v] = "deleted"] /\ Stages[v] = "draft"
        /\ Homes' = [Homes EXCEPT ![v] = Nothing]
        /\ Numbers' = [Numbers EXCEPT ![v] = 0]
    BY <1>2, <1>3, <1>4 DEF Stages, Homes, Numbers
  <1>6. Shelf!Rewrite(v)
    BY <1>2, <1>3, <1>4, RewritesOne
  <1>7. Shelf!Discard(v)
    BY <1>5, <1>6 DEF Shelf!Discard, Stages, Homes, Numbers
  <1> QED
    BY <1>2, <1>7 DEF Shelf!Next

LEMMA PublishIsPublish ==
  ASSUME LibraryInv, NEW a \in Admin, FinishPublish(a)
  PROVE  Shelf!Next
  <1>1. PICK v, p : v = cmd[a].on /\ p = version[v].template
    OBVIOUS
  <1>2. /\ v \in Version /\ version[v].status = "draft" /\ ~BlockingIssue(content[v])
        /\ UNCHANGED content
    BY <1>1, PublishTurns
  <1>3. ASSUME NEW u \in Version
        PROVE  /\ version'[u].template = version[u].template /\ version'[u].no = version[u].no
               /\ version'[u].status = IF u = v THEN "published" ELSE version[u].status
               /\ version'[u].current <=> u = v \/ (version[u].current /\ version[u].template # p)
    <2>1. u \in Current(p) <=> version[u].template = p /\ version[u].current
      BY DEF Current, Versions
    <2> QED
      BY <1>1, <2>1, PublishTurns
  <1>4. /\ UNCHANGED <<Homes, Numbers, SoundOnes>>
        /\ Stages' = [Stages EXCEPT ![v] = "published"] /\ Stages[v] = "draft" /\ v \in SoundOnes
    BY <1>2, <1>3 DEF Homes, Numbers, Stages, SoundOnes, BlockingIssue, SequenceFree
  <1>5. Chosen' = (Chosen \ {u \in Version : Homes[u] = Homes[v]}) \cup {v}
    BY <1>1, <1>2, <1>3 DEF Chosen, Homes
  <1>6. Shelf!Publish(v)
    BY <1>2, <1>4, <1>5
    DEF Shelf!Publish, Shelf!Series, Homes, Numbers, Stages, SoundOnes, Chosen
  <1> QED
    BY <1>2, <1>6 DEF Shelf!Next

LEMMA ArchiveIsArchive ==
  ASSUME LibraryInv, NEW a \in Admin, FinishArchive(a)
  PROVE  Shelf!Next
  <1>1. PICK v, r : v = cmd[a].on /\ r = cmd[a].other
    OBVIOUS
  <1>2. /\ v \in Version /\ r \in Version /\ version[v].status = "published" /\ UNCHANGED content
        /\ version[v].current =>
             /\ r # v
             /\ version[r].template = version[v].template /\ version[r].status = "published"
    BY <1>1, ArchiveTurns
  <1>3. ASSUME NEW u \in Version
        PROVE  /\ version'[u].template = version[u].template /\ version'[u].no = version[u].no
               /\ version'[u].status = IF u = v THEN "archived" ELSE version[u].status
               /\ version'[u].current <=>
                    u # v /\ (version[u].current \/ (u = r /\ version[v].current))
    BY <1>1, ArchiveTurns
  <1>4. /\ UNCHANGED <<Homes, Numbers, SoundOnes>>
        /\ Stages' = [Stages EXCEPT ![v] = "archived"] /\ Stages[v] = "published"
    BY <1>2, <1>3 DEF Homes, Numbers, Stages, SoundOnes, BlockingIssue, SequenceFree
  <1>5. \/ v \notin Chosen /\ Chosen' = Chosen
        \/ /\ v \in Chosen /\ Stages[r] = "published" /\ Homes[r] = Homes[v] /\ r # v
           /\ Chosen' = (Chosen \ {v}) \cup {r}
    BY <1>2, <1>3 DEF Chosen, Homes, Stages
  <1>6. Shelf!Archive(v)
    BY <1>2, <1>4, <1>5
    DEF Shelf!Archive, Shelf!Series, Homes, Numbers, Stages, SoundOnes, Chosen
  <1> QED
    BY <1>2, <1>6 DEF Shelf!Next

\* Every step changes the catalogue as one of its own steps does, or not at all.
LEMMA StepIsShelfStep == LibraryInv /\ [Next]_vars => [Shelf!Next]_(Shelf!vars)
  <1> SUFFICES ASSUME LibraryInv, [Next]_vars PROVE Shelf!Next \/ UNCHANGED Shelf!vars
    OBVIOUS
  <1>1. CASE UNCHANGED <<version, content>>
    BY <1>1 DEF Shelf!vars, BlockingIssue, SequenceFree
  <1>2. CASE UNCHANGED vars
    BY <1>1, <1>2 DEF vars
  <1>3. CASE Next
    <2>1. PICK a \in Admin :
            \/ UNCHANGED <<version, content>>
            \/ \E v \in Version : Edited(a, v)
            \/ FinishPublish(a) \/ FinishDelete(a)
            \/ \E v, new \in Version, p \in Template :
                 CreateTemplate(a, p, v) \/ CloneToNewTemplate(a, v, p, new)
            \/ FinishClone(a) \/ FinishArchive(a)
      BY <1>3, StepsTouch
    <2>2. CASE \E v \in Version : Edited(a, v)
      BY <2>2, EditIsEdit DEF Shelf!Next
    <2> QED
      BY <1>1, <2>1, <2>2, InsertsAreDrafts, DeleteIsDiscard, PublishIsPublish, ArchiveIsArchive
  <1> QED
    BY <1>2, <1>3

\* The library implements the catalogue projects are planned from: its versions
\* are frozen and sound once published, and publishing and archiving hand the
\* choice over in one step, whatever locks, tokens and deadlocks come between.
THEOREM LibraryImplementsCatalogue == Spec => ImplementsCatalogue
  <1>1. LibraryInv /\ [Next]_vars => [Shelf!Next]_(Shelf!vars)
    BY StepIsShelfStep
  <1> QED
    BY <1>1, InitShelf, LibraryInvariant, PTL DEF Spec, ImplementsCatalogue, Shelf!Spec

-----------------------------------------------------------------------------
(* Types of what a version contains.                                       *)

\* The drafts an editor sees are contents, and so is every version's.
ContentsTyped ==
  /\ DOMAIN content = Version /\ \A v \in Version : IsContent(content[v])
  /\ \A a \in Admin : view[a].seen = Nothing \/ IsContent(view[a].seen)
  /\ \A a \in Admin : view[a].torn \in BOOLEAN

\* A content of which one part is replaced by another of its kind.
LEMMA ContentChanged ==
  ASSUME NEW c, IsContent(c)
  PROVE  /\ \A f : /\ DOMAIN f \subseteq Task /\ \A t \in DOMAIN f : f[t] \in TaskRow
                  => IsContent([c EXCEPT !.tasks = f])
         /\ \A d \in SUBSET (Task \X Task) : IsContent([c EXCEPT !.deps = d])
         /\ \A f : /\ DOMAIN f \subseteq Gate /\ \A g \in DOMAIN f : f[g] \in GateRow
                  => IsContent([c EXCEPT !.gates = f])
         /\ \A x \in SUBSET (Task \cup Gate) : IsContent([c EXCEPT !.files = x])
  BY DEF IsContent

\* An edit that leaves a content.
Rewritten(a, v) == \E new : IsContent(new) /\ Touch(a, v, new)

LEMMA TaskRowTyped ==
  ASSUME NEW n \in Nat, NEW start \in 0..Duration, NEW end \in 0..Duration,
         NEW duration \in Nat,
         DaysAccepted(start, end)
  PROVE  [seq |-> n, start |-> start, end |-> end, duration |-> duration] \in TaskRow
  <1>1. start \in Nat /\ end \in Nat
    BY ConstantsAssumption
  <1> QED
    BY <1>1 DEF TaskRow

LEMMA TasksTyped ==
  ASSUME ContentsTyped, NEW a \in Admin, NEW v \in Version, EditTasks(a, v)
  PROVE  Rewritten(a, v)
  <1>1. PICK c : c = content[v] /\ IsContent(c)
    BY DEF ContentsTyped
  <1>2. /\ DOMAIN c.tasks \subseteq Task /\ \A t \in DOMAIN c.tasks : c.tasks[t] \in TaskRow
        /\ DOMAIN c.gates \subseteq Gate /\ c.files \subseteq Task \cup Gate
    BY <1>1 DEF IsContent
  <1>3. ASSUME NEW t \in Task, NEW n \in 1..Cardinality(Task), NEW d \in Days,
               NEW duration \in 0..Duration, CreateTask(a, v, t, n, d[1], d[2], duration)
        PROVE  Rewritten(a, v)
    <2> DEFINE days == IF d[1] = 0 THEN duration ELSE Derived(d[1], d[2])
               row == [seq |-> n, start |-> d[1], end |-> d[2], duration |-> days]
               tasks == Added(c.tasks, t, row)
    <2>1. row \in TaskRow
      <3>1. DaysAccepted(d[1], d[2]) /\ d[1] \in 0..Duration /\ d[2] \in 0..Duration
        BY DEF Days
      <3>2. days \in Nat
        BY <3>1, ConstantsAssumption DEF Derived, DaysAccepted
      <3> HIDE DEF days
      <3> QED
        BY <3>1, <3>2, TaskRowTyped
    <2> HIDE DEF row
    <2>2. DOMAIN tasks \subseteq Task /\ \A u \in DOMAIN tasks : tasks[u] \in TaskRow
      BY <1>2, <2>1 DEF Added
    <2>3. Touch(a, v, [c EXCEPT !.tasks = tasks])
      BY <1>1, <1>3 DEF CreateTask, row, days
    <2> HIDE DEF tasks
    <2> QED
      BY <1>1, <2>2, <2>3, ContentChanged DEF Rewritten
  <1>4. ASSUME NEW t \in Task, NEW n \in 1..Cardinality(Task), NEW d \in Days,
               NEW duration \in 0..Duration, UpdateTask(a, v, t, n, d[1], d[2], duration)
        PROVE  Rewritten(a, v)
    <2> DEFINE row == [seq |-> n, start |-> d[1], end |-> d[2], duration |-> duration]
               tasks == [c.tasks EXCEPT ![t] = row]
    <2>1. t \in DOMAIN c.tasks /\ TaskAccepted(c, t, row) /\ Touch(a, v, [c EXCEPT !.tasks[t] = row])
      BY <1>1, <1>4 DEF UpdateTask
    <2>2. row \in TaskRow
      <3>1. duration \in Nat /\ DaysAccepted(d[1], d[2])
        BY <2>1, ConstantsAssumption DEF TaskAccepted
      <3> QED
        BY <3>1, TaskRowTyped DEF Days
    <2> HIDE DEF row
    <2>3. DOMAIN tasks \subseteq Task /\ \A u \in DOMAIN tasks : tasks[u] \in TaskRow
      BY <1>2, <2>2
    <2>4. [c EXCEPT !.tasks[t] = row] = [c EXCEPT !.tasks = tasks]
      BY Zenon
    <2> HIDE DEF tasks
    <2> QED
      BY <1>1, <2>1, <2>3, <2>4, ContentChanged DEF Rewritten
  <1>5. ASSUME NEW t \in Task, DeleteTask(a, v, t) PROVE Rewritten(a, v)
    <2> DEFINE tasks == Restrict(c.tasks, DOMAIN c.tasks \ {t})
               c1 == [c EXCEPT !.tasks = tasks]
               files == c.files \ {t}
    <2>1. Touch(a, v, [c EXCEPT !.tasks = tasks, !.files = files])
      BY <1>1, <1>5 DEF DeleteTask
    <2>2. DOMAIN tasks \subseteq Task /\ \A u \in DOMAIN tasks : tasks[u] \in TaskRow
      BY <1>2 DEF Restrict
    <2> HIDE DEF tasks
    <2>3. IsContent(c1)
      BY <1>1, <2>2, ContentChanged
    <2>4. [c EXCEPT !.tasks = tasks, !.files = files] = [c1 EXCEPT !.files = files]
      BY Zenon
    <2> HIDE DEF c1
    <2>5. files \in SUBSET (Task \cup Gate)
      BY <1>2
    <2> QED
      BY <2>1, <2>3, <2>4, <2>5, ContentChanged DEF Rewritten
  <1>6. ASSUME NEW t \in Task, AddReference(a, v, t) \/ RemoveReference(a, v, t)
        PROVE  Rewritten(a, v)
    <2>1. PICK files \in SUBSET (Task \cup Gate) : Touch(a, v, [c EXCEPT !.files = files])
      BY <1>1, <1>2, <1>6 DEF AddReference, RemoveReference
    <2> QED
      BY <1>1, <2>1, ContentChanged DEF Rewritten
  <1> QED
    BY <1>3, <1>4, <1>5, <1>6 DEF EditTasks

LEMMA OrderTyped ==
  ASSUME ContentsTyped, NEW a \in Admin, NEW v \in Version, EditOrder(a, v)
  PROVE  Rewritten(a, v)
  <1>1. PICK c : c = content[v] /\ IsContent(c)
    BY DEF ContentsTyped
  <1>2. DOMAIN c.tasks \subseteq Task /\ \A t \in DOMAIN c.tasks : c.tasks[t] \in TaskRow
    BY <1>1 DEF IsContent
  <1>3. PICK order \in [DOMAIN c.tasks -> 1..Cardinality(DOMAIN c.tasks)] : ReorderTasks(a, v, order)
    BY <1>1 DEF EditOrder
  <1> DEFINE tasks == [t \in DOMAIN c.tasks |-> [c.tasks[t] EXCEPT !.seq = order[t]]]
  <1>4. Touch(a, v, [c EXCEPT !.tasks = tasks])
    BY <1>1, <1>3 DEF ReorderTasks
  <1>5. ASSUME NEW t \in DOMAIN c.tasks PROVE tasks[t] \in TaskRow
    <2>1. order[t] \in Nat
      BY <1>3
    <2> QED
      BY <1>2, <2>1 DEF TaskRow
  <1>6. DOMAIN tasks \subseteq Task /\ \A t \in DOMAIN tasks : tasks[t] \in TaskRow
    BY <1>2, <1>5
  <1> HIDE DEF tasks
  <1> QED
    BY <1>1, <1>4, <1>6, ContentChanged DEF Rewritten

LEMMA DependenciesTyped ==
  ASSUME ContentsTyped, NEW a \in Admin, NEW v \in Version, EditDependencies(a, v)
  PROVE  Rewritten(a, v)
  <1>1. PICK c : c = content[v] /\ IsContent(c)
    BY DEF ContentsTyped
  <1>2. c.deps \subseteq Task \X Task
    BY <1>1 DEF IsContent
  <1>3. PICK deps \in SUBSET (Task \X Task) : Touch(a, v, [c EXCEPT !.deps = deps])
    <2>1. PICK d \in Task \X Task :
            \/ CreateDependency(a, v, d) \/ DeleteDependency(a, v, d)
            \/ \E old \in c.deps : UpdateDependency(a, v, old, d)
      BY <1>1 DEF EditDependencies
    <2>2. \/ Touch(a, v, [c EXCEPT !.deps = c.deps \cup {d}])
          \/ Touch(a, v, [c EXCEPT !.deps = c.deps \ {d}])
          \/ \E old \in c.deps : Touch(a, v, [c EXCEPT !.deps = (c.deps \ {old}) \cup {d}])
      BY <1>1, <2>1 DEF CreateDependency, DeleteDependency, UpdateDependency
    <2> QED
      BY <1>2, <2>1, <2>2
  <1> QED
    BY <1>1, <1>3, ContentChanged DEF Rewritten

LEMMA GatesTyped ==
  ASSUME ContentsTyped, NEW a \in Admin, NEW v \in Version, EditGates(a, v)
  PROVE  Rewritten(a, v)
  <1>1. PICK c : c = content[v] /\ IsContent(c)
    BY DEF ContentsTyped
  <1>2. /\ DOMAIN c.gates \subseteq Gate /\ \A g \in DOMAIN c.gates : c.gates[g] \in GateRow
        /\ DOMAIN c.tasks \subseteq Task /\ c.files \subseteq Task \cup Gate
    BY <1>1 DEF IsContent
  <1>3. ASSUME NEW g \in DOMAIN c.gates, NEW row \in GateRow, Touch(a, v, [c EXCEPT !.gates[g] = row])
        PROVE  Rewritten(a, v)
    <2> DEFINE gates == [c.gates EXCEPT ![g] = row]
    <2>1. DOMAIN gates \subseteq Gate /\ \A h \in DOMAIN gates : gates[h] \in GateRow
      BY <1>2
    <2>2. [c EXCEPT !.gates[g] = row] = [c EXCEPT !.gates = gates]
      BY Zenon
    <2> HIDE DEF gates
    <2> QED
      BY <1>1, <1>3, <2>1, <2>2, ContentChanged DEF Rewritten
  <1>4. ASSUME NEW g \in Gate,
               NEW row \in [party : BOOLEAN, due : {"blank"}, value : {0},
                            mapping : Mapping, links : SUBSET Task],
               CreateGate(a, v, g, row)
        PROVE  Rewritten(a, v)
    <2> DEFINE gates == Added(c.gates, g, row)
    <2>1. row \in GateRow
      BY DEF GateRow, DueType
    <2>2. DOMAIN gates \subseteq Gate /\ \A h \in DOMAIN gates : gates[h] \in GateRow
      BY <1>2, <2>1 DEF Added
    <2>3. Touch(a, v, [c EXCEPT !.gates = gates])
      BY <1>1, <1>4 DEF CreateGate
    <2> HIDE DEF gates
    <2> QED
      BY <1>1, <2>2, <2>3, ContentChanged DEF Rewritten
  <1>5. ASSUME NEW g \in Gate, NEW due \in DueType, NEW value \in 0..(Duration + 1),
               UpdateGate(a, v, g, TRUE, due, value)
        PROVE  Rewritten(a, v)
    <2> DEFINE row == [c.gates[g] EXCEPT !.party = TRUE, !.due = due, !.value = value]
               r1 == [c.gates[g] EXCEPT !.party = TRUE]
               r2 == [r1 EXCEPT !.due = due]
               r3 == [r2 EXCEPT !.value = value]
    <2>1. g \in DOMAIN c.gates /\ Touch(a, v, [c EXCEPT !.gates[g] = row])
      BY <1>1, <1>5 DEF UpdateGate
    <2>2. row \in GateRow
      <3>1. r1 \in GateRow
        BY <1>2, <2>1 DEF GateRow
      <3> HIDE DEF r1
      <3>2. r2 \in GateRow
        BY <3>1 DEF GateRow
      <3> HIDE DEF r2
      <3>3. value \in Nat
        BY ConstantsAssumption
      <3>4. r3 \in GateRow
        BY <3>2, <3>3 DEF GateRow
      <3>5. row = r3
        BY Zenon DEF r1, r2
      <3> QED
        BY <3>4, <3>5
    <2> HIDE DEF row
    <2> QED
      BY <1>3, <2>1, <2>2
  <1>6. ASSUME NEW g \in Gate, NEW mapping \in Mapping, NEW links \in SUBSET Task,
               ConfigureMappings(a, v, g, mapping, links)
        PROVE  Rewritten(a, v)
    <2> DEFINE row == [c.gates[g] EXCEPT !.mapping = mapping, !.links = links]
    <2>1. g \in DOMAIN c.gates /\ Touch(a, v, [c EXCEPT !.gates[g] = row])
      BY <1>1, <1>6 DEF ConfigureMappings
    <2>2. row \in GateRow
      BY <1>2, <2>1 DEF GateRow
    <2> HIDE DEF row
    <2> QED
      BY <1>3, <2>1, <2>2
  <1>7. ASSUME NEW g \in Gate, DeleteGate(a, v, g) PROVE Rewritten(a, v)
    <2> DEFINE gates == Restrict(c.gates, DOMAIN c.gates \ {g})
               c1 == [c EXCEPT !.gates = gates]
               files == c.files \ {g}
    <2>1. Touch(a, v, [c EXCEPT !.gates = gates, !.files = files])
      BY <1>1, <1>7 DEF DeleteGate
    <2>2. DOMAIN gates \subseteq Gate /\ \A h \in DOMAIN gates : gates[h] \in GateRow
      BY <1>2 DEF Restrict
    <2> HIDE DEF gates
    <2>3. IsContent(c1)
      BY <1>1, <2>2, ContentChanged
    <2>4. [c EXCEPT !.gates = gates, !.files = files] = [c1 EXCEPT !.files = files]
      BY Zenon
    <2> HIDE DEF c1
    <2>5. files \in SUBSET (Task \cup Gate)
      BY <1>2
    <2> QED
      BY <2>1, <2>3, <2>4, <2>5, ContentChanged DEF Rewritten
  <1>8. ASSUME NEW g \in Gate, AddReference(a, v, g) \/ RemoveReference(a, v, g)
        PROVE  Rewritten(a, v)
    <2>1. PICK files \in SUBSET (Task \cup Gate) : Touch(a, v, [c EXCEPT !.files = files])
      BY <1>1, <1>2, <1>8 DEF AddReference, RemoveReference
    <2> QED
      BY <1>1, <2>1, ContentChanged DEF Rewritten
  <1> QED
    BY <1>4, <1>5, <1>6, <1>7, <1>8 DEF EditGates

\* A clone keeps the links of exact gates only, and is a content.
LEMMA CopiedTyped ==
  ASSUME NEW c, IsContent(c)
  PROVE  IsContent(Copied(c))
  <1> DEFINE gates == [g \in DOMAIN c.gates |->
                         IF c.gates[g].mapping = "exact" THEN c.gates[g]
                         ELSE [c.gates[g] EXCEPT !.links = {}]]
  <1>1. Copied(c) = [c EXCEPT !.gates = gates]
    BY DEF Copied
  <1>2. \A g \in DOMAIN c.gates : c.gates[g] \in GateRow /\ g \in Gate
    BY DEF IsContent
  <1>3. DOMAIN gates \subseteq Gate /\ \A g \in DOMAIN gates : gates[g] \in GateRow
    BY <1>2 DEF GateRow
  <1> HIDE DEF gates
  <1> QED
    BY <1>1, <1>3, ContentChanged

LEMMA InitContents == Init => ContentsTyped /\ work \in 0..MaxWork
  <1> SUFFICES ASSUME Init PROVE ContentsTyped /\ work \in 0..MaxWork
    OBVIOUS
  <1>1. IsContent(Blank)
    BY DEF IsContent, Blank
  <1>2. DOMAIN content = Version /\ \A v \in Version : IsContent(content[v])
    BY <1>1, SeedAssumption DEF Init
  <1>3. \A a \in Admin : view[a].seen = Nothing /\ view[a].torn = FALSE
    BY DEF Init, NoView
  <1>4. work \in 0..MaxWork
    BY ConstantsAssumption DEF Init
  <1> QED
    BY <1>2, <1>3, <1>4 DEF ContentsTyped, Init

LEMMA EditKeepsContents ==
  ASSUME LibraryInv, ContentsTyped, NEW a \in Admin, NEW v \in Version, Rewritten(a, v)
  PROVE  ContentsTyped'
  <1>1. PICK new : IsContent(new) /\ Touch(a, v, new)
    BY DEF Rewritten
  <1> DEFINE seen == IF view[a].seen = content[v] THEN new ELSE view[a].seen
             next == version[v].token + 1
             w == [[view[a] EXCEPT !.token = next] EXCEPT !.seen = seen]
  <1>2. DOMAIN view = Admin /\ DOMAIN view[a] = ViewFields
    BY DEF LibraryInv, Typed
  <1>3. view' = [view EXCEPT ![a] = w]
    BY <1>1, <1>2, Zenon DEF Touch
  <1>4. w.seen = seen /\ w.torn = view[a].torn
    <2> HIDE DEF next, seen
    <2> QED
      BY <1>2 DEF ViewFields
  <1>5. seen = Nothing \/ IsContent(seen)
    BY <1>1 DEF ContentsTyped
  <1> HIDE DEF w, seen
  <1>6. \A b \in Admin : /\ view'[b].seen = Nothing \/ IsContent(view'[b].seen)
                         /\ view'[b].torn \in BOOLEAN
    BY <1>2, <1>3, <1>4, <1>5 DEF ContentsTyped
  <1>7. DOMAIN content' = Version /\ \A u \in Version : IsContent(content'[u])
    BY <1>1 DEF Touch, ContentsTyped
  <1> QED
    BY <1>6, <1>7 DEF ContentsTyped

LEMMA ReadsKeepContents ==
  ASSUME LibraryInv, ContentsTyped, NEW a \in Admin, (\E v \in Version : OpenVersion(a, v)) \/ ReadToken(a)
  PROVE  ContentsTyped'
  <1>1. DOMAIN view = Admin /\ DOMAIN view[a] = ViewFields /\ UNCHANGED content
    BY DEF LibraryInv, Typed, OpenVersion, ReadToken
  <1>2. ASSUME NEW w, view' = [view EXCEPT ![a] = w], w.seen = Nothing \/ IsContent(w.seen),
               w.torn \in BOOLEAN
        PROVE  ContentsTyped'
    BY <1>1, <1>2 DEF ContentsTyped
  <1>3. ASSUME NEW v \in Version, OpenVersion(a, v) PROVE ContentsTyped'
    <2> DEFINE lists == [tasks |-> TasksListed(v), deps |-> DependenciesListed(v),
                         gates |-> GatesListed(v), files |-> FilesListed(v)]
               w == [NoView EXCEPT !.on = v, !.seen = lists]
    <2>1. view' = [view EXCEPT ![a] = w]
      BY <1>3 DEF OpenVersion
    <2>2. IsContent(lists)
      BY DEF ContentsTyped, IsContent, TasksListed, DependenciesListed, GatesListed, FilesListed
    <2> HIDE DEF lists
    <2>3. w.seen = lists /\ w.torn = FALSE
      BY DEF NoView
    <2> HIDE DEF w
    <2> QED
      BY <1>2, <2>1, <2>2, <2>3
  <1>4. CASE ReadToken(a)
    <2> DEFINE v == view[a].on
               torn == view[a].seen # content[v]
               w == [[view[a] EXCEPT !.token = version[v].token] EXCEPT !.torn = torn]
    <2>1. view' = [view EXCEPT ![a] = w]
      BY <1>1, <1>4, Zenon DEF ReadToken
    <2>2. torn \in BOOLEAN
      OBVIOUS
    <2> HIDE DEF v, torn
    <2>3. w.seen = view[a].seen /\ w.torn = torn
      BY <1>1 DEF ViewFields
    <2> HIDE DEF w
    <2> QED
      BY <1>2, <2>1, <2>2, <2>3 DEF ContentsTyped
  <1> QED
    BY <1>3, <1>4

LEMMA NextContents == LibraryInv /\ ContentsTyped /\ [Next]_vars => ContentsTyped'
  <1> SUFFICES ASSUME LibraryInv, ContentsTyped, [Next]_vars PROVE ContentsTyped'
    OBVIOUS
  <1>1. CASE UNCHANGED <<content, view>>
    BY <1>1 DEF ContentsTyped
  <1>2. ASSUME NEW a \in Admin, (\E v \in Version : OpenVersion(a, v)) \/ ReadToken(a)
        PROVE  ContentsTyped'
    BY <1>2, ReadsKeepContents
  <1>3. ASSUME NEW a \in Admin, NEW v \in Version,
               EditTasks(a, v) \/ EditOrder(a, v) \/ EditDependencies(a, v) \/ EditGates(a, v)
        PROVE  ContentsTyped'
    BY <1>3, TasksTyped, OrderTyped, DependenciesTyped, GatesTyped, EditKeepsContents
  <1>4. ASSUME NEW c, IsContent(c), NEW v, content' = [content EXCEPT ![v] = c], UNCHANGED view
        PROVE  ContentsTyped'
    BY <1>4 DEF ContentsTyped
  <1>5. ASSUME NEW a \in Admin,
               \/ \E v, other \in Version, p \in Template : CloneToNewTemplate(a, v, p, other)
               \/ FinishClone(a) \/ FinishDelete(a)
        PROVE  ContentsTyped'
    <2>1. IsContent(Blank)
      BY DEF IsContent, Blank
    <2>2. cmd[a].op = "clone" => cmd[a].on \in Version
      BY DEF LibraryInv, CommandSound
    <2>3. \A v \in Version : IsContent(Copied(content[v]))
      BY CopiedTyped DEF ContentsTyped
    <2>4. PICK v, c : IsContent(c) /\ content' = [content EXCEPT ![v] = c] /\ UNCHANGED view
      BY <1>5, <2>1, <2>2, <2>3 DEF CloneToNewTemplate, FinishClone, FinishDelete, Ready
    <2> QED
      BY <1>4, <2>4
  <1>6. CASE UNCHANGED vars
    BY <1>1, <1>6 DEF vars
  <1>7. ASSUME NEW a \in Admin, NEW v \in Version, NEW other \in Version,
               BeginPublish(a, v) \/ BeginDelete(a, v) \/ BeginArchive(a, v, other) \/ BeginClone(a, v, other)
        PROVE  UNCHANGED <<content, view>>
    BY <1>7 DEF BeginPublish, BeginDelete, BeginArchive, BeginClone, Begin
  <1>8. ASSUME NEW a \in Admin, NEW v \in Version, NEW p \in Template, CreateTemplate(a, p, v)
        PROVE  UNCHANGED <<content, view>>
    BY <1>8 DEF CreateTemplate
  <1>9. ASSUME NEW a \in Admin,
               Advance(a) \/ FinishPublish(a) \/ FinishArchive(a) \/ Refuse(a) \/ DeadlockVictim(a)
        PROVE  UNCHANGED <<content, view>>
    BY <1>9 DEF Advance, FinishPublish, FinishArchive, Refuse, DeadlockVictim
  <1> QED
    BY <1>1, <1>2, <1>3, <1>5, <1>6, <1>7, <1>8, <1>9 DEF Next

LEMMA NextWork == work \in 0..MaxWork /\ [Next]_vars => work' \in 0..MaxWork
  <1> SUFFICES ASSUME work \in 0..MaxWork, [Next]_vars PROVE work' \in 0..MaxWork
    OBVIOUS
  <1>1. ASSUME NEW a, NEW v, Edited(a, v) PROVE work' \in 0..MaxWork
    BY <1>1, ConstantsAssumption DEF Edited, Editable, Touch
  <1>2. Budget => work' \in 0..MaxWork
    BY ConstantsAssumption DEF Budget
  <1>3. CASE UNCHANGED work
    BY <1>3
  <1>4. CASE Next
    <2>1. ASSUME NEW a \in Admin,
                 \/ \E v \in Version : OpenVersion(a, v)
                 \/ ReadToken(a) \/ Advance(a) \/ Refuse(a) \/ DeadlockVictim(a)
          PROVE  UNCHANGED work \/ Budget
      BY <2>1 DEF OpenVersion, ReadToken, Advance, Refuse, DeadlockVictim
    <2>2. ASSUME NEW a \in Admin, NEW v \in Version,
                 EditTasks(a, v) \/ EditOrder(a, v) \/ EditDependencies(a, v) \/ EditGates(a, v)
          PROVE  work' \in 0..MaxWork
      BY <2>2, <1>1, EditsTouch
    <2>3. ASSUME NEW a \in Admin, NEW v \in Version, NEW other \in Version,
                 \/ BeginPublish(a, v) \/ BeginDelete(a, v) \/ BeginArchive(a, v, other)
                 \/ BeginClone(a, v, other)
          PROVE  UNCHANGED work \/ Budget
      BY <2>3 DEF BeginPublish, BeginDelete, BeginArchive, BeginClone, Begin
    <2>4. ASSUME NEW a \in Admin, NEW v \in Version, NEW p \in Template,
                 CreateTemplate(a, p, v) \/ \E other \in Version : CloneToNewTemplate(a, v, p, other)
          PROVE  UNCHANGED work \/ Budget
      BY <2>4 DEF CreateTemplate, CloneToNewTemplate
    <2>5. ASSUME NEW a \in Admin,
                 FinishPublish(a) \/ FinishArchive(a) \/ FinishDelete(a) \/ FinishClone(a)
          PROVE  UNCHANGED work \/ Budget
      BY <2>5 DEF FinishPublish, FinishArchive, FinishDelete, FinishClone
    <2> QED
      BY <1>2, <1>3, <1>4, <2>1, <2>2, <2>3, <2>4, <2>5 DEF Next
  <1> QED
    BY <1>3, <1>4 DEF vars

\* The library keeps its types: whatever editors send and clones copy, a version
\* contains rows of known tasks and gates, and a view what some version contained.
THEOREM LibraryTypes == Spec => []TypeOK
  <1>1. Init => LibraryInv /\ ContentsTyped /\ work \in 0..MaxWork
    BY InitLibrary, InitContents
  <1>2. LibraryInv /\ ContentsTyped /\ work \in 0..MaxWork /\ [Next]_vars =>
          (LibraryInv /\ ContentsTyped /\ work \in 0..MaxWork)'
    BY NextLibrary, NextContents, NextWork
  <1>3. LibraryInv /\ ContentsTyped /\ work \in 0..MaxWork => TypeOK
    BY DEF LibraryInv, Typed, ContentsTyped, TypeOK, IsView
  <1> QED
    BY <1>1, <1>2, <1>3, PTL DEF Spec
=============================================================================
