------------------------------- MODULE Catalogue -------------------------------
(***************************************************************************)
(* What the template library promises to the projects that are planned     *)
(* from it.  A template is a series of numbered versions, of which one at  *)
(* a time is chosen for new projects.  A version is written as a draft,    *)
(* then published for good: from there on its text never changes, and it   *)
(* was published only when the text was sound.  Publishing and archiving   *)
(* hand the choice over in the same instant, so that a template with a     *)
(* published version always has exactly one to plan from.  There are no    *)
(* locks here, no tokens, and nobody waits.                                *)
(***************************************************************************)
EXTENDS Naturals

CONSTANTS Template, Version, Nothing

VARIABLES
  home,     \* the template of each version
  number,   \* its number in the series
  stage,    \* absent, draft, published, archived or deleted
  text,     \* what it says
  sound,    \* the versions whose text may be planned from
  chosen    \* the versions new projects are planned from

vars == <<home, number, stage, text, sound, chosen>>

Series(p) == {v \in Version : home[v] = p}

Init ==
  /\ home \in [Version -> Template \cup {Nothing}]
  /\ \/ chosen = {} /\ stage = [v \in Version |-> "absent"]
     \/ \E v \in sound :
          /\ chosen = {v} /\ home[v] # Nothing
          /\ stage = [u \in Version |-> IF u = v THEN "published" ELSE "absent"]
  /\ \A v \in Version : stage[v] = "absent" <=> home[v] = Nothing

\* No other text is touched.
Rewrite(v) ==
  /\ \A u \in Version \ {v} : text'[u] = text[u] /\ (u \in sound' <=> u \in sound)
  /\ UNCHANGED chosen

\* The first version of a template, or one behind all it has.
Draft(v, p) ==
  /\ stage[v] = "absent"
  /\ stage' = [stage EXCEPT ![v] = "draft"]
  /\ home' = [home EXCEPT ![v] = p]
  /\ number' = [number EXCEPT ![v] = number'[v]]
  /\ \A u \in Series(p) : number[u] < number'[v]
  /\ Rewrite(v)

Edit(v) ==
  /\ stage[v] = "draft" /\ Rewrite(v)
  /\ UNCHANGED <<home, number, stage>>

Discard(v) ==
  /\ stage[v] = "draft"
  /\ stage' = [stage EXCEPT ![v] = "deleted"]
  /\ home' = [home EXCEPT ![v] = Nothing]
  /\ number' = [number EXCEPT ![v] = 0]
  /\ Rewrite(v)

\* The new version takes the choice over from the one before.
Publish(v) ==
  /\ stage[v] = "draft" /\ v \in sound
  /\ stage' = [stage EXCEPT ![v] = "published"]
  /\ chosen' = (chosen \ Series(home[v])) \cup {v}
  /\ UNCHANGED <<home, number, text, sound>>

\* The chosen version goes only when another published one takes its place.
Archive(v) ==
  /\ stage[v] = "published"
  /\ stage' = [stage EXCEPT ![v] = "archived"]
  /\ \/ v \notin chosen /\ UNCHANGED chosen
     \/ \E r \in Series(home[v]) \ {v} :
          /\ v \in chosen /\ stage[r] = "published"
          /\ chosen' = (chosen \ {v}) \cup {r}
  /\ UNCHANGED <<home, number, text, sound>>

Next ==
  \E v \in Version :
    \/ \E p \in Template : Draft(v, p)
    \/ Edit(v) \/ Discard(v) \/ Publish(v) \/ Archive(v)

Spec == Init /\ [][Next]_vars
=============================================================================
