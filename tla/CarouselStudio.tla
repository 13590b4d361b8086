--------------------------- MODULE CarouselStudio ---------------------------
(***************************************************************************)
(* The carousel studio: the editable projects of one content asset, the    *)
(* render service that draws a revision of a project, puts its pictures    *)
(* and a manifest into the object store and saves a rendered version, and  *)
(* the approval that binds one rendered version and freezes its project.   *)
(* Edits are one transaction each; a render is a sequence of separate      *)
(* reads and writes that edits and other renders interleave with.          *)
(***************************************************************************)
EXTENDS Naturals, FiniteSets, FiniteSetsExt

CONSTANTS
  Slides,      \* slide ids 0..n-1, each at the position of its number
  Texts,       \* what a slide can say
  Styles,      \* what the renderer's theme can be
  Images,      \* image assets a slide can name
  Unfit,       \* texts that give the drawing a blocking quality finding
  Ids,         \* ids a new project row can take
  Authors,     \* requests that create or replace a project
  Renders,     \* calls of the render service
  MaxRevision  \* bound on edits

CarouselAssumption ==
  /\ Slides # {} /\ Slides \subseteq 0..9
  /\ Unfit \subseteq Texts
  /\ MaxRevision \in Nat

VARIABLES
  projects,    \* id -> row of carousel_projects with its slides; rev 0: none
  approved,    \* id -> version number bound by carousel_rendered_approvals, 0
  renditions,  \* rows of carousel_rendered_asset_versions
  manifests,   \* object key -> <<project, revision>> the stored bytes name
  author,      \* author -> "idle", or "missing" once it found no project
  render       \* state of each call of the render service

studioVars == <<projects, approved, renditions, manifests, author, render>>

Absent == [rev |-> 0]
Nothing == <<0, 0>>
IdleRender == [pc |-> "idle"]

(***************************************************************************)
(* What the compiled plan and the theme keep of a project. Images and      *)
(* slide ids are not part of it, and the object keys are derived from it:  *)
(* sourceFingerprint hashes the plan, the theme and the renderer version.  *)
(***************************************************************************)
Plan(text, style) == <<text, style>>
Plans == (([Slides -> Texts]) \X Styles)

Live == {p \in Ids : projects[p].rev > 0}
Unapproved(p) == approved[p] = 0

StudioInit ==
  /\ projects = [p \in Ids |-> Absent]
  /\ approved = [p \in Ids |-> 0]
  /\ renditions = {}
  /\ manifests = [k \in Plans |-> Nothing]
  /\ author = [a \in Authors |-> "idle"]
  /\ render = [r \in Renders |-> IdleRender]

-----------------------------------------------------------------------------
(* Upsert: the asset's project is looked up and, when one exists, locked   *)
(* until the transaction ends. Its update names the asset, not the row, so *)
(* every project of the asset takes the new fields and a new revision; the *)
(* slides are replaced in the project found only. An approved project      *)
(* among them makes the trigger refuse the whole transaction.              *)
UpsertFound(p, text, style) ==
  /\ p \in Live
  /\ \A q \in Live : Unapproved(q) /\ projects[q].rev < MaxRevision
  /\ projects' = [q \in Ids |->
       IF q \notin Live THEN projects[q]
       ELSE [projects[q] EXCEPT
               !.rev = @ + 1, !.style = style,
               !.text = IF q = p THEN text ELSE @]]
  /\ UNCHANGED <<approved, renditions, manifests, author, render>>

UpsertMissing(a) ==
  /\ author[a] = "idle" /\ Live = {}
  /\ author' = [author EXCEPT ![a] = "missing"]
  /\ UNCHANGED <<projects, approved, renditions, manifests, render>>

(* The insert that follows a lookup that found nothing: no constraint ties *)
(* a project to its asset, so a second one is accepted.                    *)
UpsertInsert(a, p, text, style) ==
  /\ author[a] = "missing" /\ p \in Ids \ Live
  /\ projects' = [projects EXCEPT ![p] =
       [rev |-> 1, text |-> text, style |-> style,
        image |-> [s \in Slides |-> "none"]]]
  /\ author' = [author EXCEPT ![a] = "idle"]
  /\ UNCHANGED <<approved, renditions, manifests, render>>

-----------------------------------------------------------------------------
(* Mutations: the row is locked, its revision compared with the caller's   *)
(* (a stale caller is refused and changes nothing), an approved project is *)
(* refused, and every change counts one revision.                          *)
Mutable(p) ==
  p \in Live /\ Unapproved(p) /\ projects[p].rev < MaxRevision

Mutate(p, row) ==
  /\ Mutable(p)
  /\ projects' = [projects EXCEPT ![p] = [row EXCEPT !.rev = @ + 1]]
  /\ UNCHANGED <<approved, renditions, manifests, author, render>>

EditText(p, s, t) ==
  p \in Live /\ Mutate(p, [projects[p] EXCEPT !.text[s] = t])

ReplaceImage(p, s, i) ==
  p \in Live /\ Mutate(p, [projects[p] EXCEPT !.image[s] = i])

ChangeStyle(p, st) ==
  p \in Live /\ Mutate(p, [projects[p] EXCEPT !.style = st])

(* Only a queued request is written: nothing in the repository runs it.    *)
RequestRegeneration(p) == p \in Live /\ Mutate(p, projects[p])

(* Reorder first moves every slide out of the way, by a hundred. The table *)
(* only admits positions 0 to 9, so the first statement fails and the      *)
(* transaction is rolled back.                                             *)
PositionAllowed(n) == n \in 0..9

Reorder(p) ==
  /\ Mutable(p)
  /\ \E s \in Slides : ~PositionAllowed(s + 100)
  /\ UNCHANGED <<projects, approved, renditions, manifests, author, render>>

-----------------------------------------------------------------------------
(* The render service reads the project row, then its slides, then the     *)
(* next version number, each in a statement of its own.                    *)
ReadProject(r, p) ==
  /\ render[r].pc = "idle" /\ p \in Live
  /\ render' = [render EXCEPT ![r] =
       [pc |-> "project", project |-> p, rev |-> projects[p].rev,
        style |-> projects[p].style]]
  /\ UNCHANGED <<projects, approved, renditions, manifests, author>>

ReadSlides(r) ==
  /\ render[r].pc = "project"
  /\ render' = [render EXCEPT ![r] =
       [pc |-> "slides", project |-> @.project, rev |-> @.rev,
        plan |-> Plan(projects[@.project].text, @.style)]]
  /\ UNCHANGED <<projects, approved, renditions, manifests, author>>

NumbersOf(p) == {v.version : v \in {w \in renditions : w.project = p}}

(* Drawing and its quality gate are local: a blocking finding ends the     *)
(* call before anything is uploaded.                                       *)
ReadVersion(r) ==
  /\ render[r].pc = "slides"
  /\ render' = [render EXCEPT ![r] =
       IF \E s \in Slides : @.plan[1][s] \in Unfit THEN IdleRender
       ELSE [pc |-> "drawn", project |-> @.project, rev |-> @.rev,
             plan |-> @.plan,
             version |-> 1 + Max(NumbersOf(@.project) \cup {0})]]
  /\ UNCHANGED <<projects, approved, renditions, manifests, author>>

(* The pictures are determined by their key; the manifest also names the   *)
(* project and its revision, under a key that does not.                    *)
Upload(r) ==
  /\ render[r].pc = "drawn"
  /\ manifests' = [manifests EXCEPT ![render[r].plan] =
       <<render[r].project, render[r].rev>>]
  /\ render' = [render EXCEPT ![r].pc = "uploaded"]
  /\ UNCHANGED <<projects, approved, renditions, author>>

(* saveRenderedVersion compares the revision before its transaction opens. *)
Fresh(r) == render[r].rev = projects[render[r].project].rev

SaveCheck(r) ==
  /\ render[r].pc = "uploaded"
  /\ render' = [render EXCEPT ![r] =
       IF Fresh(r) THEN [@ EXCEPT !.pc = "checked"] ELSE IdleRender]
  /\ UNCHANGED <<projects, approved, renditions, manifests, author>>

(* One version number per project, and one version per manifest key and    *)
(* per slide object key, whatever the project.                             *)
Insertable(w) ==
  ~\E v \in renditions :
     \/ v.plan = w.plan
     \/ v.project = w.project /\ v.version = w.version

SaveInsert(r) ==
  /\ render[r].pc = "checked"
  /\ LET w == [project |-> render[r].project, version |-> render[r].version,
               rev |-> render[r].rev, plan |-> render[r].plan]
     IN  renditions' = IF Insertable(w) THEN renditions \cup {w} ELSE renditions
  /\ render' = [render EXCEPT ![r] = IdleRender]
  /\ UNCHANGED <<projects, approved, manifests, author>>

(* The object store or the database fails, or the server stops: whatever   *)
(* was put so far stays.                                                   *)
RenderFails(r) ==
  /\ render[r].pc # "idle"
  /\ render' = [render EXCEPT ![r] = IdleRender]
  /\ UNCHANGED <<projects, approved, renditions, manifests, author>>

\* (mutant) Any render of the project.
ApprovableOnce(p, v) == v.project = p

(* Approval locks the project: it takes a ready render of the revision the *)
(* caller expects, which is the current one, and only one per project.     *)
Approvable(p, v) == v.project = p /\ v.rev = projects[p].rev

Approve(p, v) ==
  /\ p \in Live /\ Unapproved(p) /\ Approvable(p, v)
  /\ approved' = [approved EXCEPT ![p] = v.version]
  /\ UNCHANGED <<projects, renditions, manifests, author, render>>

-----------------------------------------------------------------------------
Editing ==
  \E p \in Ids :
    \/ \E s \in Slides, t \in Texts : EditText(p, s, t)
    \/ \E s \in Slides, i \in Images : ReplaceImage(p, s, i)
    \/ \E st \in Styles : ChangeStyle(p, st)
    \/ RequestRegeneration(p)
    \/ Reorder(p)

Upserting ==
  \E text \in [Slides -> Texts], style \in Styles, p \in Ids :
    \/ UpsertFound(p, text, style)
    \/ \E a \in Authors : UpsertInsert(a, p, text, style)

Rendering ==
  \E r \in Renders :
    \/ \E p \in Ids : ReadProject(r, p)
    \/ ReadSlides(r) \/ ReadVersion(r) \/ Upload(r)
    \/ SaveCheck(r) \/ SaveInsert(r) \/ RenderFails(r)

StudioNext ==
  \/ Upserting \/ (\E a \in Authors : UpsertMissing(a))
  \/ Editing \/ Rendering
  \/ \E p \in Ids, v \in renditions : Approve(p, v)

StudioSpec == StudioInit /\ [][StudioNext]_studioVars

-----------------------------------------------------------------------------
StudioTypeOK ==
  /\ \A p \in Ids : projects[p].rev \in 0..MaxRevision
  /\ DOMAIN approved = Ids
  /\ \A v \in renditions : v.project \in Live /\ v.plan \in Plans
  /\ \A v, w \in renditions :
       (v.project = w.project /\ v.version = w.version) => v = w
  /\ \A r \in Renders : render[r].pc \in
       {"idle", "project", "slides", "drawn", "uploaded", "checked"}

(***************************************************************************)
(* An approved render shows the project as it stands: its slides were read *)
(* in one piece although the row and the slides are read apart, and nothing*)
(* was edited between the reading, the saving and the approval.            *)
(***************************************************************************)
ApprovedShowsProject ==
  \A v \in renditions : approved[v.project] = v.version =>
    v.plan = Plan(projects[v.project].text, projects[v.project].style)

(***************************************************************************)
(* What a person approved does not move: no edit, no replacement of a      *)
(* sibling project and no later render touches it.                         *)
(***************************************************************************)
ApprovalKept ==
  \A p \in Ids : approved[p] # 0 =>
    projects'[p] = projects[p] /\ approved'[p] = approved[p]
ApprovalFreezes == [][ApprovalKept]_studioVars

=============================================================================
