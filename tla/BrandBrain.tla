----------------------------- MODULE BrandBrain -----------------------------
(***************************************************************************)
(* The Brand brain: the fields that describe a brand, the knowledge        *)
(* sources they are inferred from, and the guided build that fills them.   *)
(*                                                                         *)
(* A field is inferred from sources, confirmed by the owner, or stale      *)
(* once its last source is removed; every write takes its row lock, so a   *)
(* repository call is one step, except recordInferredBrandBrainField,      *)
(* which checks its sources before it locks anything.  A build is a long   *)
(* request: it lists the fields, records the owner's objective and her     *)
(* boundary against that listing, reads the public references, asks the    *)
(* model for proposals and writes them one at a time, while the owner and  *)
(* other builds do what they like.  A value is only what the readiness     *)
(* rules tell apart: the owner's words, text they take for evidence, and   *)
(* text they take for a placeholder.  Fallbacks write both, and so does a  *)
(* model: neither its builder nor the gate looks at text for that, so it   *)
(* is settled where it is written, and nobody looks at it before.  A       *)
(* removal that meets a link insert in the other order is a Postgres       *)
(* deadlock: one of the two transactions is rolled back, as if not run.    *)
(***************************************************************************)
EXTENDS Naturals, FiniteSets, Sequences
LOCAL INSTANCE Functions
CONSTANTS Builds,          \* the build requests
          Owners,          \* the browser tabs of the owner
          Groups,          \* a required group |-> its field keys
          Objective,       \* goals.objectives
          Directive,       \* boundaries.owner-directive
          SourceRequired,  \* SOURCE_REQUIRED_PROPOSAL_FIELDS
          References,      \* the URLs a build reads, in order
          HasGenerator,    \* a model is configured
          MaxSources,      \* bound: sources ever created
          MaxWrites,       \* bound: the writes after which no build or tab begins
          None
ASSUME BrainAssumption ==
  /\ Objective \notin UNION {Groups[g] : g \in DOMAIN Groups}
  /\ Directive \notin SourceRequired \cup UNION {Groups[g] : g \in DOMAIN Groups}
  /\ MaxSources \in Nat /\ MaxWrites \in Nat
  /\ HasGenerator \in BOOLEAN
  /\ None \notin Owners \cup Builds
VARIABLES
  fields,     \* field key |-> its row
  knowledge,  \* source id |-> its row
  tab,        \* the field an owner's tab shows, as it was loaded
  stage, job  \* where a build is, and what it has read
brainVars == <<fields, knowledge, tab, stage, job>>

Asked   == {Objective, Directive}   \* what a build may be told by the owner
Keys    == Asked \cup SourceRequired \cup UNION {Groups[g] : g \in DOMAIN Groups}
Ids     == 1..MaxSources
States  == {"absent", "inferred", "confirmed", "stale"}
Values  == {"none", "owner", "evidence", "placeholder"}
Absent  == [state |-> "absent", value |-> "none", version |-> 0, links |-> {}]
NoSource == [status |-> "none", url |-> "none", extract |-> FALSE]
Seen(k) == fields[k].version          \* 0: expectedVersion is left out
Writes == FoldFunction(LAMBDA r, n : r.version + n, 0, fields)
Writable == {"evidence", "placeholder"}
NoBuild == [asked |-> {}, before |-> [k \in Asked |-> 0], listed |-> {}, url |-> 1,
            refs |-> {}, synthetic |-> FALSE, live |-> [k \in Keys |-> 0],
            held |-> {}, fresh |-> FALSE, todo |-> {}, now |-> None]
Proposal == [key : Keys, from : SUBSET Ids]

BrainTypeOK ==
  /\ fields \in [Keys -> [state : States, value : Values, version : Nat, links : SUBSET Ids]]
  /\ knowledge \in [Ids -> [status : {"none", "active", "disabled", "removed"},
                         url : {References[n] : n \in 1..Len(References)} \cup {"none"},
                         extract : BOOLEAN]]
  /\ tab \in [Owners -> {None} \cup (Keys \X States \X Values \X Nat)]
  /\ \A b \in Builds : /\ job[b].todo \subseteq Proposal
                       /\ job[b].now \in {None} \cup Proposal
                       /\ job[b].refs \cup {e[1] : e \in job[b].listed} \subseteq Ids
                       /\ job[b].asked \subseteq Asked

BrainInit ==
  /\ fields = [k \in Keys |-> Absent]
  /\ knowledge = [s \in Ids |-> NoSource]
  /\ tab = [o \in Owners |-> None]
  /\ stage = [b \in Builds |-> "idle"] /\ job = [b \in Builds |-> NoBuild]
-----------------------------------------------------------------------------
(* The repository. *)
Active(s) == knowledge[s].status = "active"
\* assertExpectedVersion: 0 stands for an expectedVersion left out.
Agrees(k, expected) == expected # 0 => fields[k].version = expected
\* putConfirmedBrandBrainField.
Confirmed(k) == [fields EXCEPT ![k] = [state |-> "confirmed", value |-> "owner",
                                      version |-> @.version + 1, links |-> {}]]
\* (mutant) the row's state is not looked at again under the lock
InferredUnchecked(p, text) ==
  [fields EXCEPT ![p.key] = [state |-> "inferred", value |-> text,
                            version |-> @.version + 1, links |-> p.from]]
\* recordInferredBrandBrainField past its checks; a confirmed row is returned
\* as it is.
Inferred(p, text) ==
  IF fields[p.key].state = "confirmed" THEN fields
  ELSE [fields EXCEPT ![p.key] = [state |-> "inferred", value |-> text,
                                 version |-> @.version + 1, links |-> p.from]]
NewSource(url, extract) ==
  \E s \in Ids : /\ knowledge[s] = NoSource /\ \A t \in 1..(s - 1) : knowledge[t] # NoSource
                 /\ knowledge' = [knowledge EXCEPT ![s] = [status |-> "active", url |-> url,
                                                     extract |-> extract]]
-----------------------------------------------------------------------------
(* The owner: loads a field, confirms it, adds, disables, enables and       *)
(* removes sources. *)
OwnerLoad(o, k) ==
  /\ Writes < MaxWrites
  /\ tab' = [tab EXCEPT ![o] = <<k, fields[k].state, fields[k].value, fields[k].version>>]
  /\ UNCHANGED <<fields, knowledge, stage, job>>
OwnerConfirm(o) ==
  /\ tab[o] # None
  /\ fields' = IF Agrees(tab[o][1], tab[o][4]) THEN Confirmed(tab[o][1]) ELSE fields
  /\ tab' = [tab EXCEPT ![o] = None]
  /\ UNCHANGED <<knowledge, stage, job>>
AddNote == NewSource("none", TRUE) /\ UNCHANGED <<fields, tab, stage, job>>
SetStatus(s, status) ==
  /\ knowledge[s].status \in {"active", "disabled"} \ {status}
  /\ knowledge' = [knowledge EXCEPT ![s].status = status]
  /\ UNCHANGED <<fields, tab, stage, job>>
Orphaned(s, k) == fields[k].links = {s} /\ fields[k].state = "inferred"
RemoveSource(s) ==
  /\ knowledge[s].status \in {"active", "disabled"}
  /\ fields' = [k \in Keys |->
       [fields[k] EXCEPT !.links = @ \ {s},
                        !.state = IF Orphaned(s, k) THEN "stale" ELSE @,
                        !.version = IF Orphaned(s, k) THEN @ + 1 ELSE @]]
  /\ knowledge' = [knowledge EXCEPT ![s] = [status |-> "removed", url |-> "none",
                                      extract |-> FALSE]]
  /\ UNCHANGED <<tab, stage, job>>
-----------------------------------------------------------------------------
(* The build: a client asks for one, and may ask again once it has ended.   *)
(* Goes moves a build on; what it had read is forgotten when it ends. *)
Proceed(b, to, read) ==
  /\ stage' = [stage EXCEPT ![b] = to]
  /\ job' = [job EXCEPT ![b] = IF to = "idle" THEN NoBuild ELSE read]
BeginBuild(b) ==
  /\ stage[b] = "idle" /\ Writes < MaxWrites
  /\ \E asked \in SUBSET Asked :
       Proceed(b, IF asked = {} THEN "list" ELSE "asked",
               [job[b] EXCEPT !.asked = asked,
                  !.before = [k \in Asked |-> IF k \in asked THEN Seen(k) ELSE 0]])
  /\ UNCHANGED <<fields, knowledge, tab>>
\* The owner's objective, then her boundary, each confirmed against the version
\* in the build's first listing; a refused one ends the build.
PutAsked(b) ==
  \E k \in Asked :
    LET ok   == Agrees(k, job[b].before[k])
        rest == job[b].asked \ {k}
    IN /\ stage[b] = "asked" /\ k \in job[b].asked
       /\ k = Directive => Objective \notin job[b].asked
       /\ Proceed(b, IF ~ok THEN "idle" ELSE IF rest = {} THEN "list" ELSE "asked",
               [job[b] EXCEPT !.asked = rest, !.before[k] = 0])
       /\ fields' = IF ok THEN Confirmed(k) ELSE fields
       /\ UNCHANGED <<knowledge, tab>>
\* What ensureSource will go by: the active sources and their addresses now.
Listed(b) == [job[b] EXCEPT !.listed = {<<s, knowledge[s].url>> : s \in {s \in Ids : Active(s)}}]
ListSources(b) ==
  /\ \/ /\ stage[b] = "list"
        /\ Proceed(b, IF References = <<>> THEN "extracts" ELSE "read", Listed(b))
     \/ stage[b] = "relist" /\ Proceed(b, "synthetic", Listed(b))
  /\ UNCHANGED <<fields, knowledge, tab>>
\* ensureSource: a source the listing has under that URL, though it may have
\* been disabled or removed since, or a new one.
Known(b, url) == {s \in Ids : <<s, url>> \in job[b].listed}
Took(b, s, url, how) ==
  [job[b] EXCEPT !.refs = @ \cup {s}, !.listed = @ \cup {<<s, url>>}, !.synthetic = how,
                 !.url = @ + 1]
Ensure(b, url, to, how) ==
  \/ \E s \in Known(b, url) : Proceed(b, to, Took(b, s, url, how)) /\ UNCHANGED knowledge
  \/ /\ Known(b, url) = {}
     /\ NewSource(url, FALSE)
     /\ \E s \in Ids : /\ knowledge[s] = NoSource /\ knowledge'[s] # NoSource
                        /\ Proceed(b, to, Took(b, s, url, how))
ReadReference(b) ==
  LET to == IF job[b].url < Len(References) THEN "read" ELSE "extracts"
  IN /\ stage[b] = "read"
     /\ \/ Ensure(b, References[job[b].url], to, FALSE)
        \/ Proceed(b, to, [job[b] EXCEPT !.url = @ + 1]) /\ UNCHANGED knowledge
     /\ UNCHANGED <<fields, tab>>
ReadExtracts(b) ==
  LET notes == {s \in Ids : Active(s) /\ knowledge[s].extract} \ job[b].refs
      refs  == job[b].refs \cup notes
  IN /\ stage[b] = "extracts"
     /\ Proceed(b, IF refs = {} /\ References # <<>> THEN "relist" ELSE "propose",
             [job[b] EXCEPT !.refs = refs, !.listed = {}, !.url = 1])
     /\ UNCHANGED <<fields, knowledge, tab>>
Synthesize(b) ==
  /\ stage[b] = "synthetic"
  /\ \/ Ensure(b, References[1], "propose", TRUE)
     \/ Proceed(b, "propose", job[b]) /\ UNCHANGED knowledge
  /\ UNCHANGED <<fields, tab>>
-----------------------------------------------------------------------------
\* fallbackProposals: from one reference alone, by what site it is of (a
\* repository before a social profile before a newsletter, else the first);
\* which fields it has a text for depends on it too.
Fallback(s, chosen) == {[key |-> k, from |-> {s}] : k \in chosen}
\* What the build keeps while it writes.
Writing(b, all, fresh, live, held) ==
  [NoBuild EXCEPT !.todo = all, !.fresh = fresh, !.live = live, !.held = held,
               !.synthetic = job[b].synthetic]
\* No generator, a generator that fails and one that proposes nothing all end
\* in persistFallback, which looks each field up again before it writes it.
FallBack(b) ==
  /\ stage[b] = "propose"
  /\ \/ job[b].refs = {} /\ Proceed(b, "idle", NoBuild)
     \/ \E s \in job[b].refs, chosen \in SUBSET (Keys \ Asked) :
          Proceed(b, IF chosen = {} THEN "idle" ELSE "pick",
                  Writing(b, Fallback(s, chosen), TRUE, NoBuild.live, {}))
  /\ UNCHANGED <<fields, knowledge, tab>>
\* (mutant) any field may have no source
GatedAny(b, p) == p.from \subseteq job[b].refs

\* The gate: provenance from the inspected references, and none only for a
\* synthetic build and a field that does not need it.
Gated(b, p) == /\ p.from \subseteq job[b].refs
               /\ p.from = {} => job[b].synthetic /\ p.key \notin SourceRequired
\* Something for any field but the owner's boundary, which is not on the guided
\* list; the editorial override is a choice like any other.
Propose(b) ==
  /\ HasGenerator /\ stage[b] = "propose"
  /\ \E chosen \in SUBSET (Keys \ {Directive}) \ {{}} :
     \E from \in [chosen -> SUBSET Ids] :
       LET all == {[key |-> k, from |-> from[k]] : k \in chosen}
           ok  == \A p \in all : Gated(b, p)
       IN Proceed(b, IF ok THEN "pick" ELSE "idle",
               Writing(b, all, FALSE, [k \in Keys |-> Seen(k)],
                       {k \in Keys : fields[k].state = "confirmed"}))
  /\ UNCHANGED <<fields, knowledge, tab>>
\* The next proposal, with the row the build believes to be there; a field
\* known to be confirmed is skipped.
Pick(b) ==
  \E p \in job[b].todo :
    LET held == IF job[b].fresh THEN fields[p.key].state = "confirmed"
                ELSE p.key \in job[b].held
        rest == job[b].todo \ {p}
    IN /\ stage[b] = "pick"
       /\ Proceed(b, IF ~held THEN "check" ELSE IF rest = {} THEN "idle" ELSE "pick",
               [job[b] EXCEPT !.todo = rest, !.now = IF held THEN None ELSE p,
                  !.live = IF job[b].fresh THEN [@ EXCEPT ![p.key] = Seen(p.key)] ELSE @])
       /\ UNCHANGED <<fields, knowledge, tab>>
CheckProvenance(b) ==
  /\ stage[b] = "check"
  /\ Proceed(b, IF \A s \in job[b].now.from : Active(s) THEN "write" ELSE "idle", job[b])
  /\ UNCHANGED <<fields, knowledge, tab>>
WriteProposal(b) ==
  LET p  == job[b].now
      ok == Agrees(p.key, job[b].live[p.key])
  IN /\ stage[b] = "write"
     /\ Proceed(b, IF ok /\ job[b].todo # {} THEN "pick" ELSE "idle",
             [job[b] EXCEPT !.now = None, !.live[p.key] = 0])
     /\ \E text \in Writable : fields' = IF ok THEN Inferred(p, text) ELSE fields
     /\ UNCHANGED <<knowledge, tab>>

BuildStep(b) ==
  \/ BeginBuild(b) \/ PutAsked(b) \/ ListSources(b) \/ ReadReference(b)
  \/ ReadExtracts(b) \/ Synthesize(b) \/ FallBack(b) \/ Propose(b)
  \/ Pick(b) \/ CheckProvenance(b) \/ WriteProposal(b)

BrainNext ==
  \/ \E b \in Builds : BuildStep(b)
  \/ \E o \in Owners : (\E k \in Keys : OwnerLoad(o, k)) \/ OwnerConfirm(o)
  \/ AddNote
  \/ \E s \in Ids : \/ \E status \in {"active", "disabled"} : SetStatus(s, status)
                    \/ RemoveSource(s)
BrainSpec == BrainInit /\ [][BrainNext]_brainVars
-----------------------------------------------------------------------------
(* Readiness and activation: what lets Hunter use the brand. *)
Usable(k) == fields[k].state \in {"inferred", "confirmed"} /\ fields[k].value # "placeholder"
Weak(k)   == fields[k].state = "stale" \/ (fields[k].state = "inferred" /\ fields[k].links = {})
Gap(g)    == \A k \in Groups[g] : ~Usable(k)
Review(g) == /\ ~Gap(g)
             /\ \A k \in Groups[g] : fields[k].state = "absent" \/ Weak(k)
HunterReady == \A g \in DOMAIN Groups : ~Gap(g) /\ ~Review(g)
-----------------------------------------------------------------------------
\* What the owner confirmed is changed by her own confirmations and by the
\* objective and boundary she gives a build, and by nothing a build infers,
\* whatever it read of the field before (recordInferredBrandBrainField, build).
ConfirmedKept ==
  \A k \in Keys : fields[k].state = "confirmed" =>
    fields'[k].state = "confirmed" /\ fields'[k].value = fields[k].value
\* A confirmation that names a version replaces the value and state the owner
\* had on her screen, not ones written since (assertExpectedVersion).
OwnerReplacesWhatSheSaw ==
  \A o \in Owners : \A k \in Keys :
    (tab[o] # None /\ tab'[o] = None /\ fields'[k] # fields[k]) =>
      \/ tab[o][4] = 0
      \/ tab[o] = <<k, fields[k].state, fields[k].value, fields[k].version>>
\* Text that is no placeholder, written by a build that read its references,
\* never makes Hunter wait for a brand it could already use, though it replaces
\* what was there: the gate lets none through without a source, and a field with
\* no source is one to review (validateAndDeduplicateBrandBrainProposals,
\* activateField).
ReadinessKept ==
  \A b \in Builds :
    (stage[b] = "write" /\ stage'[b] # "write" /\ fields'[job[b].now.key].value # "placeholder"
     /\ ~job[b].synthetic /\ HunterReady) => HunterReady'
\* No step breaks any of them.
OwnerFirst == [][ConfirmedKept /\ OwnerReplacesWhatSheSaw /\ ReadinessKept]_brainVars
\* An inferred field that must have a source has one, through removals of its
\* sources and rebuilds (the gate and removeKnowledgeSource together).
RequiredFieldsAreSourced ==
  \A k \in SourceRequired : fields[k].state = "inferred" => fields[k].links # {}
=============================================================================
