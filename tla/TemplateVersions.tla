-------------------------- MODULE TemplateVersions --------------------------
(***************************************************************************)
(* The versions of a template (template_service): editors open it and save *)
(* it, each over what it has become meanwhile.  Messages point at the      *)
(* version they were rendered from.                                        *)
(*                                                                         *)
(* save_template is one transaction that begins with its write of the      *)
(* template's row, so what it reads afterwards is what is committed.       *)
(***************************************************************************)
EXTENDS Integers, Sequences

CONSTANTS
  Editors,     \* the requests that edit the template
  Contents,    \* subject, body, schema and model
  MaxVersions, \* bound: versions
  NoEditor     \* not an editor at work

ASSUME VersionsAssumption == MaxVersions \in Nat

VARIABLES
  versions,  \* the content of each version
  template,  \* the content and the current version of the row
  opened     \* the row as each editor has read it

vars == <<versions, template, opened>>

Stored(content, current) == [content |-> content, current |-> current]

\* get_template, with its current version
Opens(e) ==
  /\ opened[e] = NoEditor
  /\ opened' = [opened EXCEPT ![e] = template]
  /\ UNCHANGED <<versions, template>>

\* Mutation: the first write leaves out the current version.
KeepsCurrent(e) == template.current

\* The first write stores the row as it was read, with the new content.
Current(e) == opened[e].current

\* A change of the content as it was read creates the next version.
Saves(e, content) ==
  /\ opened[e] # NoEditor
  /\ \/ /\ content = versions[opened[e].current]
        /\ template' = Stored(content, Current(e))
        /\ UNCHANGED versions
     \/ /\ content # versions[opened[e].current] /\ Len(versions) < MaxVersions
        /\ versions' = Append(versions, content)
        /\ template' = Stored(content, Len(versions) + 1)
  /\ opened' = [opened EXCEPT ![e] = NoEditor]

\* The first save has created version 1.
Init ==
  /\ \E content \in Contents : versions = <<content>> /\ template = Stored(content, 1)
  /\ opened = [e \in Editors |-> NoEditor]

Next == \E e \in Editors : Opens(e) \/ \E content \in Contents : Saves(e, content)

Spec == Init /\ [][Next]_vars

-----------------------------------------------------------------------------

\* Drafts are written from the current version and editors see the row: the two
\* agree, however the saves of editors overlap and whoever goes back to an
\* earlier content (save_template).
CurrentVersionMatches ==
  /\ template.current \in DOMAIN versions
  /\ versions[template.current] = template.content
=============================================================================
