---------------------------- MODULE TemplateLibrary ----------------------------
(***************************************************************************)
(* Project templates: drafts an Admin edits, publishes, clones, archives   *)
(* and deletes, and the editor's view of the draft it is changing.         *)
(*                                                                         *)
(* Every edit locks the version row, compares the caller's concurrency     *)
(* token (updated_at) with the row, changes the content and touches the    *)
(* row, in one transaction.  Publishing, archiving, cloning and deleting   *)
(* take a second and a third lock; their orders differ, so that they may   *)
(* wait for each other until PostgreSQL ends one of them.  The editor      *)
(* reads the token and the lists with separate requests.                   *)
(***************************************************************************)
EXTENDS Naturals, FiniteSets, FiniteSetsExt, Functions, TLC

CONSTANTS
  Template,     \* v2_templates rows: an identity with a code of its own
  Version,      \* v2_template_versions rows
  Task,         \* task codes
  Gate,         \* gate codes
  Admin,        \* editors with an organisation-admin role
  Nothing,      \* no version, no lock, nothing read yet
  Seed,         \* the content of a version published before the behaviour starts
  Duration,     \* duration_days of every version
  MaxWork       \* bound on the work of a behaviour: an edit of a draft counts
                \* two, a publish, archive, clone, create or delete command one

ASSUME ConstantsAssumption ==
  /\ Nothing \notin Version \cup Template
  /\ Duration \in Nat \ {0}
  /\ MaxWork \in Nat

VARIABLES
  version,   \* the version rows
  content,   \* tasks, dependencies, gates and reference files of each version
  view,      \* what each editor has on the screen
  cmd,       \* the locking command each editor has under way
  work       \* edits and commands so far

vars == <<version, content, view, cmd, work>>

-----------------------------------------------------------------------------
(* Rows.                                                                   *)

\* Day 0 is null; a pre-activation task has no days.
TaskRow == [seq : Nat, start : Nat, end : Nat, duration : Nat]

\* party: the external party is named; value 0: required_by_value is blank.
DueType == {"blank", "date", "project_day", "before_linked_tasks"}
Mapping == {"exact", "broad_text", "unmapped"}
GateRow == [party : BOOLEAN, due : DueType, value : Nat, mapping : Mapping, links : SUBSET Task]

\* files: the tasks and gates with a reference file.
IsContent(c) ==
  /\ DOMAIN c = {"tasks", "deps", "gates", "files"}
  /\ DOMAIN c.tasks \subseteq Task /\ \A t \in DOMAIN c.tasks : c.tasks[t] \in TaskRow
  /\ c.deps \subseteq Task \X Task
  /\ DOMAIN c.gates \subseteq Gate /\ \A g \in DOMAIN c.gates : c.gates[g] \in GateRow
  /\ c.files \subseteq Task \cup Gate

Blank == [tasks |-> [t \in {} |-> Nothing], deps |-> {}, gates |-> [g \in {} |-> Nothing],
          files |-> {}]

\* token: the concurrency token, updated_at.  A deleted row never comes back.
VersionRow == [template : Template \cup {Nothing}, no : Nat, current : BOOLEAN, token : Nat,
               status : {"absent", "draft", "published", "archived", "deleted"}]

Absent == [template |-> Nothing, no |-> 0, status |-> "absent", current |-> FALSE, token |-> 0]

NewDraft(p, n) == [template |-> p, no |-> n, status |-> "draft", current |-> FALSE, token |-> 1]

Versions(p) == {v \in Version : version[v].template = p}
Exists(p) == Versions(p) # {}
Current(p) == {v \in Versions(p) : version[v].current}

NextNumber(p) == Max({version[v].no : v \in Versions(p)}) + 1

-----------------------------------------------------------------------------
(* What an edit accepts.                                                   *)

\* _validate_task, and the days of the validator.
DaysAccepted(start, end) ==
  \/ start = 0 /\ end = 0
  \/ start \in 1..Duration /\ end \in start..Duration

Derived(start, end) == IF start = 0 THEN 0 ELSE end - start + 1

SequenceFree(c, t, n) == \A u \in DOMAIN c.tasks \ {t} : c.tasks[u].seq # n

TaskAccepted(c, t, row) == DaysAccepted(row.start, row.end) /\ SequenceFree(c, t, row.seq)

\* No set of tasks in which each has a predecessor: there is no cycle.
Acyclic(deps) ==
  \A S \in SUBSET {d[1] : d \in deps} :
    S # {} => \E t \in S : \A d \in deps : d[2] = t => d[1] \notin S

\* A dependency that replaces those of `old` (none when it is created).
DependencyAccepted(c, old, d) ==
  /\ d[1] # d[2] /\ {d[1], d[2]} \subseteq DOMAIN c.tasks
  /\ d \notin c.deps \ old
  /\ Acyclic((c.deps \ old) \cup {d})

Referenced(c, t) ==
  \/ \E d \in c.deps : t \in {d[1], d[2]}
  \/ \E g \in DOMAIN c.gates : t \in c.gates[g].links

\* Exact mappings name tasks of the version; the others carry no link.
MappingAccepted(c, mapping, links) ==
  IF mapping = "exact" THEN links # {} /\ links \subseteq DOMAIN c.tasks ELSE links = {}

-----------------------------------------------------------------------------
(* What publishing checks, and what the lists show.                        *)

\* _check_gate_due_date: a date, or no rule at all, only warns.
DueDateBlocks(g) ==
  \/ g.due = "project_day" /\ g.value \notin 1..Duration
  \/ g.due = "before_linked_tasks" /\ (g.mapping # "exact" \/ g.links = {})

\* validate_aggregate finds an issue of severity "error".
BlockingIssue(c) ==
  \/ DOMAIN c.tasks = {}
  \/ \E t \in DOMAIN c.tasks :
       \/ ~DaysAccepted(c.tasks[t].start, c.tasks[t].end)
       \/ ~SequenceFree(c, t, c.tasks[t].seq)
  \/ \E d \in c.deps : d[1] = d[2] \/ ~({d[1], d[2]} \subseteq DOMAIN c.tasks)
  \/ ~Acyclic(c.deps)
  \/ \E g \in DOMAIN c.gates :
       \/ DueDateBlocks(c.gates[g])
       \/ ~MappingAccepted(c, c.gates[g].mapping, c.gates[g].links)

\* _required_by_is_invalid: one half of the rule without the other.
RequiredByInvalid(g) ==
  g.due # "before_linked_tasks" /\ ~(g.due = "blank" <=> g.value = 0)

\* The issues the list of gates shows beside a gate.
GateIssues(c, g) ==
  {i \in {"missing_external_party", "invalid_required_by", "missing_exact_task",
          "exact_gate_without_tasks", "broad_gate_has_exact_mappings", "unmapped_gate"} :
     CASE i = "missing_external_party" -> ~g.party
       [] i = "invalid_required_by" -> RequiredByInvalid(g)
       [] i = "missing_exact_task" -> ~(g.links \subseteq DOMAIN c.tasks)
       [] i = "exact_gate_without_tasks" -> g.mapping = "exact" /\ g.links = {}
       [] i = "broad_gate_has_exact_mappings" -> g.mapping = "broad_text" /\ g.links # {}
       [] OTHER -> g.mapping = "unmapped"}

DependencyIssues(c, d) ==
  {i \in {"missing_predecessor", "missing_successor", "self_dependency"} :
     CASE i = "missing_predecessor" -> d[1] \notin DOMAIN c.tasks
       [] i = "missing_successor" -> d[2] \notin DOMAIN c.tasks
       [] OTHER -> d[1] = d[2]}

DependencyFilteredAsInvalid(c, d) == ~({d[1], d[2]} \subseteq DOMAIN c.tasks) \/ d[1] = d[2]

\* Mutant: the filter without the exemption of a rule that has no value.
FilteredAsInvalidByHalves(c, g) ==
  \/ ~g.party
  \/ (g.due = "blank" /\ g.value # 0) \/ (g.due # "blank" /\ g.value = 0)
  \/ g.mapping = "unmapped"
  \/ (g.mapping = "exact" /\ g.links = {}) \/ (g.mapping = "broad_text" /\ g.links # {})
  \/ ~(g.links \subseteq DOMAIN c.tasks)

\* invalid_condition: the SQL that "show only invalid gates" filters by.
FilteredAsInvalid(c, g) ==
  \/ ~g.party
  \/ /\ g.due # "before_linked_tasks"
     /\ (g.due = "blank" /\ g.value # 0) \/ (g.due # "blank" /\ g.value = 0)
  \/ g.mapping = "unmapped"
  \/ (g.mapping = "exact" /\ g.links = {}) \/ (g.mapping = "broad_text" /\ g.links # {})
  \/ ~(g.links \subseteq DOMAIN c.tasks)

ASSUME SeedAssumption == IsContent(Seed) /\ ~BlockingIssue(Seed)

-----------------------------------------------------------------------------
(* Editors and locks.                                                      *)

\* token 0 and seen Nothing: not read yet.  torn: the token is newer than the
\* lists it was read with.
IsView(w) ==
  /\ w.on \in Version \cup {Nothing} /\ w.token \in Nat /\ w.torn \in BOOLEAN
  /\ w.seen = Nothing \/ IsContent(w.seen)

NoView == [on |-> Nothing, token |-> 0, seen |-> Nothing, torn |-> FALSE]

\* other: the replacement of an archived version, the new row of a clone.
Command == [op : {"publish", "archive", "clone", "delete", "idle"},
            on : Version \cup {Nothing}, other : Version \cup {Nothing},
            held : SUBSET (Version \cup Template)]

NoCommand == [op |-> "idle", on |-> Nothing, other |-> Nothing, held |-> {}]

\* A row that no clone under way is about to insert.
Fresh(v) == version[v].status = "absent" /\ \A a \in Admin : cmd[a].op = "clone" => cmd[a].other # v

Free(l) == \A a \in Admin : l \notin cmd[a].held

Waiting(a) == cmd[a].op # "idle"

\* The lock the command takes next: the template, then the current version when
\* it publishes, or the replacement when it archives the current version.
Wanted(a) ==
  LET c == cmd[a]  p == version[c.on].template
      others == CASE c.op = "publish" -> Current(p) \ {c.on}
                  [] c.op = "archive" /\ version[c.on].current -> {c.other}
                  [] OTHER -> {}
  IN IF p \notin c.held THEN {p} ELSE others \ c.held

\* The token the editor sends is that of the row it has locked.
TokenCurrent(a, v) == view[a].on = v /\ view[a].token = version[v].token

-----------------------------------------------------------------------------
(* Reading: separate requests.  A token read before the lists is only ever *)
(* too old, which the next edit refuses: the lists come first here.        *)

VisibleStatuses == {"draft", "published", "archived"}

TasksListed(v) == content[v].tasks
DependenciesListed(v) == content[v].deps
GatesListed(v) == content[v].gates
FilesListed(v) == content[v].files

OpenVersion(a, v) ==
  /\ ~Waiting(a) /\ version[v].status \in VisibleStatuses
  /\ view' = [view EXCEPT ![a] = [NoView EXCEPT !.on = v,
        !.seen = [tasks |-> TasksListed(v), deps |-> DependenciesListed(v),
                  gates |-> GatesListed(v), files |-> FilesListed(v)]]]
  /\ UNCHANGED <<version, content, cmd, work>>

ReadToken(a) ==
  LET v == view[a].on IN
  /\ v # Nothing /\ view[a].token = 0
  /\ version[v].status \in VisibleStatuses
  /\ view' = [view EXCEPT ![a].token = version[v].token,
                          ![a].torn = view[a].seen # content[v]]
  /\ UNCHANGED <<version, content, cmd, work>>

-----------------------------------------------------------------------------
(* Edits: lock the draft, compare the token, change, touch.                *)

\* Mutant: an edit that is made whatever the token.
EditableWithoutToken(a, v) ==
  /\ ~Waiting(a) /\ view[a].on = v /\ view[a].token # 0
  /\ Free(v) /\ version[v].status = "draft"
  /\ work + 2 <= MaxWork

Editable(a, v) ==
  /\ ~Waiting(a)
  /\ Free(v) /\ version[v].status = "draft" /\ TokenCurrent(a, v)
  /\ work + 2 <= MaxWork

\* The editor goes on with the token of the answer, and knows its own change.
Touch(a, v, new) ==
  /\ content' = [content EXCEPT ![v] = new]
  /\ version' = [version EXCEPT ![v].token = @ + 1]
  /\ view' = [view EXCEPT ![a].token = version[v].token + 1,
                          ![a].seen = IF @ = content[v] THEN new ELSE @]
  /\ work' = work + 2
  /\ UNCHANGED cmd

\* The rows f with one more, of a new id.
Added(f, id, row) == [i \in DOMAIN f \cup {id} |-> IF i = id THEN row ELSE f[i]]

\* An execution task gets the days between, any other task the client's duration.
CreateTask(a, v, t, n, start, end, duration) ==
  LET row == [seq |-> n, start |-> start, end |-> end,
              duration |-> IF start = 0 THEN duration ELSE Derived(start, end)] IN
  /\ Editable(a, v) /\ t \notin DOMAIN content[v].tasks
  /\ TaskAccepted(content[v], t, row)
  /\ Touch(a, v, [content[v] EXCEPT !.tasks = Added(@, t, row)])

\* The duration is the client's own, or stays as it was when the request leaves
\* it out: what _validate_task derives goes into the candidate, which is dropped.
UpdateTask(a, v, t, n, start, end, duration) ==
  LET row == [seq |-> n, start |-> start, end |-> end, duration |-> duration] IN
  /\ Editable(a, v) /\ t \in DOMAIN content[v].tasks
  /\ row # content[v].tasks[t] /\ TaskAccepted(content[v], t, row)
  /\ Touch(a, v, [content[v] EXCEPT !.tasks[t] = row])

DeleteTask(a, v, t) ==
  /\ Editable(a, v) /\ t \in DOMAIN content[v].tasks
  /\ ~Referenced(content[v], t)
  /\ Touch(a, v, [content[v] EXCEPT !.tasks = Restrict(@, DOMAIN @ \ {t}),
                                    !.files = @ \ {t}])

\* order: the position of every task; the one they have already changes nothing.
ReorderTasks(a, v, order) ==
  LET tasks == content[v].tasks
      new == [t \in DOMAIN tasks |-> [tasks[t] EXCEPT !.seq = order[t]]]
  IN
  /\ Editable(a, v) /\ DOMAIN order = DOMAIN tasks
  /\ new # tasks
  /\ Touch(a, v, [content[v] EXCEPT !.tasks = new])

CreateDependency(a, v, d) ==
  /\ Editable(a, v) /\ DependencyAccepted(content[v], {}, d)
  /\ Touch(a, v, [content[v] EXCEPT !.deps = @ \cup {d}])

UpdateDependency(a, v, old, d) ==
  /\ Editable(a, v) /\ old \in content[v].deps /\ d # old
  /\ DependencyAccepted(content[v], {old}, d)
  /\ Touch(a, v, [content[v] EXCEPT !.deps = (@ \ {old}) \cup {d}])

DeleteDependency(a, v, d) ==
  /\ Editable(a, v) /\ d \in content[v].deps
  /\ Touch(a, v, [content[v] EXCEPT !.deps = @ \ {d}])

CreateGate(a, v, g, row) ==
  /\ Editable(a, v) /\ g \notin DOMAIN content[v].gates
  /\ MappingAccepted(content[v], row.mapping, row.links)
  /\ Touch(a, v, [content[v] EXCEPT !.gates = Added(@, g, row)])

\* Party and rule; neither the rule's value nor the links are looked at.
UpdateGate(a, v, g, party, due, value) ==
  /\ Editable(a, v) /\ g \in DOMAIN content[v].gates
  /\ LET old == content[v].gates[g]
         row == [old EXCEPT !.party = party, !.due = due, !.value = value]
     IN row # old /\ Touch(a, v, [content[v] EXCEPT !.gates[g] = row])

ConfigureMappings(a, v, g, mapping, links) ==
  /\ Editable(a, v) /\ g \in DOMAIN content[v].gates
  /\ MappingAccepted(content[v], mapping, links)
  /\ LET old == content[v].gates[g]
         row == [old EXCEPT !.mapping = mapping, !.links = links]
     IN row # old /\ Touch(a, v, [content[v] EXCEPT !.gates[g] = row])

DeleteGate(a, v, g) ==
  /\ Editable(a, v) /\ g \in DOMAIN content[v].gates
  /\ Touch(a, v, [content[v] EXCEPT !.gates = Restrict(@, DOMAIN @ \ {g}),
                                    !.files = @ \ {g}])

AddReference(a, v, x) ==
  /\ Editable(a, v) /\ x \in DOMAIN content[v].tasks \cup DOMAIN content[v].gates
  /\ x \notin content[v].files
  /\ Touch(a, v, [content[v] EXCEPT !.files = @ \cup {x}])

RemoveReference(a, v, x) ==
  /\ Editable(a, v) /\ x \in content[v].files
  /\ Touch(a, v, [content[v] EXCEPT !.files = @ \ {x}])

-----------------------------------------------------------------------------
(* Commands that take one lock, or none.                                   *)

Budget == work < MaxWork /\ work' = work + 1

\* The unique template code ends the second of two simultaneous requests.
CreateTemplate(a, p, v) ==
  /\ Budget /\ ~Waiting(a)
  /\ ~Exists(p) /\ Fresh(v)
  /\ version' = [version EXCEPT ![v] = NewDraft(p, 1)]
  /\ UNCHANGED <<content, view, cmd>>

\* Only exact gates keep their links.
Copied(c) ==
  [c EXCEPT !.gates = [g \in DOMAIN @ |->
     IF @[g].mapping = "exact" THEN @[g] ELSE [@[g] EXCEPT !.links = {}]]]

CloneToNewTemplate(a, v, p, new) ==
  /\ Budget /\ ~Waiting(a)
  /\ Free(v) /\ version[v].status \in {"draft", "published"}
  /\ ~Exists(p) /\ Fresh(new)
  /\ version' = [version EXCEPT ![new] = NewDraft(p, 1)]
  /\ content' = [content EXCEPT ![new] = Copied(content[v])]
  /\ UNCHANGED <<view, cmd>>

-----------------------------------------------------------------------------
(* Commands that take several: begun, advanced lock by lock, finished.     *)

Begin(a, op, v, other) ==
  /\ Budget /\ ~Waiting(a) /\ Free(v)
  /\ cmd' = [cmd EXCEPT ![a] = [op |-> op, on |-> v, other |-> other, held |-> {v}]]
  /\ UNCHANGED <<version, content, view>>

BeginPublish(a, v) ==
  /\ version[v].status = "draft" /\ TokenCurrent(a, v)
  /\ Begin(a, "publish", v, Nothing)

BeginArchive(a, v, replacement) ==
  /\ version[v].status = "published" /\ TokenCurrent(a, v)
  /\ Begin(a, "archive", v, replacement)

BeginDelete(a, v) ==
  /\ version[v].status = "draft" /\ TokenCurrent(a, v)
  /\ Begin(a, "delete", v, Nothing)

BeginClone(a, v, new) ==
  /\ version[v].status \in {"draft", "published"}
  /\ Fresh(new)
  /\ Begin(a, "clone", v, new)

\* 409: the current version needs another published version of its template.
ReplacementAccepted(a) ==
  LET v == cmd[a].on  r == cmd[a].other IN
  version[v].current =>
    /\ r \notin {Nothing, v}
    /\ version[r].template = version[v].template /\ version[r].status = "published"

Advance(a) ==
  /\ Waiting(a)
  /\ \E l \in Wanted(a) :
       Free(l) /\ cmd' = [cmd EXCEPT ![a].held = @ \cup {l}]
  /\ UNCHANGED <<version, content, view, work>>

Done(a) == cmd' = [cmd EXCEPT ![a] = NoCommand]

\* All locks held: the row of every version the command changes.
Ready(a, op) == cmd[a].op = op /\ Wanted(a) = {}

\* Mutant: the version that was current before stays current.
FinishPublishBeside(a) ==
  LET v == cmd[a].on IN
  /\ Ready(a, "publish") /\ ~BlockingIssue(content[v])
  /\ version' = [version EXCEPT ![v].status = "published", ![v].current = TRUE, ![v].token = @ + 1]
  /\ Done(a) /\ UNCHANGED <<content, view, work>>

FinishPublish(a) ==
  LET v == cmd[a].on  previous == Current(version[v].template) \ {v} IN
  /\ Ready(a, "publish") /\ ~BlockingIssue(content[v])
  /\ version' = [u \in Version |->
       CASE u = v -> [version[u] EXCEPT !.status = "published", !.current = TRUE, !.token = @ + 1]
         [] u \in previous -> [version[u] EXCEPT !.current = FALSE, !.token = @ + 1]
         [] OTHER -> version[u]]
  /\ Done(a) /\ UNCHANGED <<content, view, work>>

FinishArchive(a) ==
  LET v == cmd[a].on IN
  /\ Ready(a, "archive") /\ ReplacementAccepted(a)
  /\ version' = [u \in Version |->
       CASE u = v -> [version[u] EXCEPT !.status = "archived", !.current = FALSE, !.token = @ + 1]
         [] u = cmd[a].other /\ version[v].current ->
              [version[u] EXCEPT !.current = TRUE, !.token = @ + 1]
         [] OTHER -> version[u]]
  /\ Done(a) /\ UNCHANGED <<content, view, work>>

\* The template goes with its last version.
FinishDelete(a) ==
  LET v == cmd[a].on IN
  /\ Ready(a, "delete")
  /\ version' = [version EXCEPT ![v] = [Absent EXCEPT !.status = "deleted"]]
  /\ content' = [content EXCEPT ![v] = Blank]
  /\ Done(a) /\ UNCHANGED <<view, work>>

FinishClone(a) ==
  LET v == cmd[a].on  p == version[v].template IN
  /\ Ready(a, "clone")
  /\ version' = [version EXCEPT ![cmd[a].other] = NewDraft(p, NextNumber(p))]
  /\ content' = [content EXCEPT ![cmd[a].other] = Copied(content[v])]
  /\ Done(a) /\ UNCHANGED <<view, work>>

\* 409 or 422 after the locks: the replacement, or the validation of the draft.
Refuse(a) ==
  /\ \/ Ready(a, "archive") /\ ~ReplacementAccepted(a)
     \/ Ready(a, "publish") /\ BlockingIssue(content[cmd[a].on])
  /\ Done(a) /\ UNCHANGED <<version, content, view, work>>

\* PostgreSQL ends one of the commands that wait for each other in a circle.
DeadlockVictim(a) ==
  /\ \E S \in SUBSET {b \in Admin : Waiting(b)} :
       /\ a \in S
       /\ \A b \in S : \E c \in S \ {b} : Wanted(b) \cap cmd[c].held # {}
  /\ Done(a) /\ UNCHANGED <<version, content, view, work>>

-----------------------------------------------------------------------------
\* A library is empty, or has a version that was created, edited and published.
Published(p) == [NewDraft(p, 1) EXCEPT !.status = "published", !.current = TRUE, !.token = 3]

Init ==
  /\ \/ version = [v \in Version |-> Absent] /\ content = [v \in Version |-> Blank]
     \/ \E v \in Version, p \in Template :
          /\ version = [u \in Version |-> IF u = v THEN Published(p) ELSE Absent]
          /\ content = [u \in Version |-> IF u = v THEN Seed ELSE Blank]
  /\ view = [a \in Admin |-> NoView]
  /\ cmd = [a \in Admin |-> NoCommand]
  /\ work = 0

Days == {d \in (0..Duration) \X (0..Duration) : DaysAccepted(d[1], d[2])}

\* Bound: no client sends a duration above Duration.
EditTasks(a, v) ==
  \E t \in Task :
    \/ \E n \in 1..Cardinality(Task), d \in Days, duration \in 0..Duration :
         CreateTask(a, v, t, n, d[1], d[2], duration) \/ UpdateTask(a, v, t, n, d[1], d[2], duration)
    \/ DeleteTask(a, v, t)
    \/ \E x \in {t} : AddReference(a, v, x) \/ RemoveReference(a, v, x)

EditOrder(a, v) ==
  LET tasks == DOMAIN content[v].tasks IN
  \E order \in [tasks -> 1..Cardinality(tasks)] :
    IsInjective(order) /\ ReorderTasks(a, v, order)

EditDependencies(a, v) ==
  \E d \in Task \X Task :
    \/ CreateDependency(a, v, d)
    \/ DeleteDependency(a, v, d)
    \/ \E old \in content[v].deps : UpdateDependency(a, v, old, d)

EditGates(a, v) ==
  \E g \in Gate :
    \/ \E row \in [party : BOOLEAN, due : {"blank"}, value : {0},
                    mapping : Mapping, links : SUBSET Task] : CreateGate(a, v, g, row)
    \/ \E due \in DueType, value \in 0..(Duration + 1) : UpdateGate(a, v, g, TRUE, due, value)
    \/ \E mapping \in Mapping, links \in SUBSET Task : ConfigureMappings(a, v, g, mapping, links)
    \/ DeleteGate(a, v, g)
    \/ AddReference(a, v, g) \/ RemoveReference(a, v, g)

Next ==
  \E a \in Admin :
    \/ \E v \in Version :
         \/ OpenVersion(a, v)
         \/ EditTasks(a, v) \/ EditOrder(a, v) \/ EditDependencies(a, v) \/ EditGates(a, v)
         \/ BeginPublish(a, v) \/ BeginDelete(a, v)
         \/ \E other \in Version :
              \/ BeginArchive(a, v, other) \/ BeginClone(a, v, other)
              \/ \E p \in Template : CloneToNewTemplate(a, v, p, other)
         \/ \E p \in Template : CreateTemplate(a, p, v)
    \/ ReadToken(a)
    \/ Advance(a)
    \/ FinishPublish(a) \/ FinishArchive(a) \/ FinishDelete(a) \/ FinishClone(a)
    \/ Refuse(a) \/ DeadlockVictim(a)

Spec == Init /\ [][Next]_vars

-----------------------------------------------------------------------------
(* Properties.                                                             *)

TypeOK ==
  /\ version \in [Version -> VersionRow]
  /\ DOMAIN content = Version /\ \A v \in Version : IsContent(content[v])
  /\ DOMAIN view = Admin /\ \A a \in Admin : IsView(view[a])
  /\ cmd \in [Admin -> Command]
  /\ work \in 0..MaxWork

\* Every template with a published version has exactly one current version, its
\* versions have numbers of their own, and nothing published has an issue that
\* blocks publishing, whichever commands overlapped and whichever were ended by
\* a deadlock: projects are created from these rows.
LibrarySound ==
  /\ \A v \in Version : version[v].status = "published" => ~BlockingIssue(content[v])
  /\ \A v \in Version : version[v].current => version[v].status = "published"
  /\ \A p \in Template :
       /\ Cardinality(Current(p)) <= 1
       /\ (\E v \in Versions(p) : version[v].status = "published") => Current(p) # {}
       /\ \A u, v \in Versions(p) : u # v => version[u].no # version[v].no

Shelf == INSTANCE Catalogue WITH
  home <- [v \in Version |-> version[v].template],
  number <- [v \in Version |-> version[v].no],
  stage <- [v \in Version |-> version[v].status],
  text <- content,
  sound <- {v \in Version : ~BlockingIssue(content[v])},
  chosen <- {v \in Version : version[v].current}

\* Editors' tokens, locks taken one by one, commands that wait, are refused or
\* ended by a deadlock are invisible to the projects planned from the library:
\* it behaves like Catalogue, whose versions are frozen and sound from the
\* moment they are published and which always has one to choose.
ImplementsCatalogue == Shelf!Spec

\* A draft is changed, published or deleted only by an editor who has that very
\* content on the screen, unless the editor read the token after a change that
\* the lists it had already read do not show.  A version that is no draft keeps
\* its content.
ActsOnWhatItSaw ==
  [][\A v \in Version :
       /\ content'[v] # content[v] => version[v].status \in {"absent", "draft"}
       /\ version[v].status = "draft" /\ <<content[v], version[v].status>>' # <<content[v], "draft">> =>
            \E a \in Admin :
              /\ <<view[a], cmd[a]>>' # <<view[a], cmd[a]>>
              /\ view[a].on = v /\ (view[a].seen = content[v] \/ view[a].torn)]_vars

\* The lists show an issue exactly beside the gates and the dependencies that
\* their filter for invalid rows, written again in SQL, keeps.
FilterMatchesIssues ==
  \A v \in Version :
    /\ \A g \in DOMAIN content[v].gates :
         LET row == content[v].gates[g] IN
         GateIssues(content[v], row) # {} <=> FilteredAsInvalid(content[v], row)
    /\ \A d \in content[v].deps :
         DependencyIssues(content[v], d) # {} <=> DependencyFilteredAsInvalid(content[v], d)

\* template_task_commands.py:150 says that the duration of an execution task is
\* derived from its days. It does not hold (line 285 stores the client's own).
DurationIsDerived ==
  \A v \in Version : \A t \in DOMAIN content[v].tasks :
    LET row == content[v].tasks[t] IN
    row.start # 0 => row.duration = Derived(row.start, row.end)
=============================================================================
