----------------------------- MODULE Parameters -----------------------------
(***************************************************************************)
(* The parameters of the site and its logo, which citizens change by a     *)
(* motion: the form a motion is made and edited with                       *)
(* (ParametersProposalForm, parameters_propose of glosowania), the effects *)
(* of an approved one (vote.py), the row they change and the files made    *)
(* from the logo (site_settings), and the site's name in a table of its    *)
(* own, cached by each process (params.py, update_site).                   *)
(*                                                                         *)
(* The web server handles forms; the scheduler is a process of its own and *)
(* alone changes the row.  Two forms may be open at a time, in two windows *)
(* of the author.                                                          *)
(*                                                                         *)
(* Left out: how a motion comes to be approved and in which order effects  *)
(* are applied (Motion); the size and the format of pictures.  A motion    *)
(* with a parameter and a logo at once has two effects.                    *)
(***************************************************************************)
EXTENDS Integers, Sequences, FiniteSetsExt, SequencesExt

CONSTANTS Motions, MaxFiles, Budgets

VARIABLES
    row,       \* SiteParameters: values, the file of the logo, the version shown in addresses
    files,     \* on disk: the picture in each file ever written, 0 when it is deleted
    derived,   \* the pictures the icons are made from, 0 when there are none
    motions,
    kept,      \* logos of earlier versions of motions
    forms,
    effects,   \* approved, not yet applied
    applying,  \* the one the command is at
    site, cached,
    icons,     \* of a browser, by version
    touched,   \* history: what the authors changed
    moved,     \* history: motions with a form open when a parameter changed
    marks,     \* history: the files written when a logo came into force or was kept in force
    crossed,   \* history: motions with two edits at once
    hasty,     \* history: versions whose icon was fetched before it was made
    broken,    \* history: the last save stopped midway
    voted,     \* history: the picture and the values applied last
    left

vars == <<row, files, derived, motions, kept, forms, effects, applying, site, cached, icons, touched, moved, marks, crossed,
          hasty, broken, voted, left>>

Spend(what) == left[what] > 0 /\ left' = [left EXCEPT ![what] = @ - 1]

-----------------------------------------------------------------------------
(* PARAM_SPECS: a number between bounds, and a name, which may be empty    *)

Specs == [signatures |-> [kind |-> "int", min |-> 2, max |-> 4], site_name |-> [kind |-> "str", min |-> 0, max |-> 2]]
Names == DOMAIN Specs

clamp(n, v) ==
    IF Specs[n].kind # "int" THEN v
    ELSE IF v < Specs[n].min THEN Specs[n].min ELSE IF v > Specs[n].max THEN Specs[n].max ELSE v

Tried == [signatures |-> {1, 3, 5}, site_name |-> {0, 1}]
NoMotion == [status |-> "none", proposed |-> <<>>, logo |-> 0]
Idle == [of |-> 0, step |-> "none", name |-> FALSE]

Write(fs, picture) == Append(fs, picture)
Erase(fs, f) == [fs EXCEPT ![f] = 0]
There(f) == f # 0 /\ files[f] # 0

-----------------------------------------------------------------------------
(* The form                                                                *)

\* What it shows: what the motion proposes, for the others what is in force.
Initial(m) == [n \in Names |-> IF n \in DOMAIN motions[m].proposed THEN motions[m].proposed[n] ELSE row.values[n]]

OpenForm(m) ==
    /\ motions[m].status = "proposition" \/ (motions[m].status = "none" /\ \A f \in forms : f.of # m)
    /\ Spend("forms")
    /\ forms' = forms \cup {[of |-> m, step |-> "open", n |-> left.forms, values |-> Initial(m), logo |-> "keep",
                             picture |-> 0, loaded |-> motions[m]]}
    /\ UNCHANGED <<row, files, derived, motions, kept, effects, applying, site, cached, icons, touched, moved, marks, crossed,
                   hasty, broken, voted>>

\* All values are sent, and those that differ from what is in force now are proposed.
changed_parameters(values) ==
    LET changed == {n \in Names : values[n] # row.values[n]} IN [n \in changed |-> values[n]]

\* Too large, too small, not a PNG, unreadable: refused before it is stored.
Fit(logo) == logo # "unfit"

(* Sent by its author, who has changed a value, or not, and a logo, or     *)
(* not; the motion is loaded and the form checked.                         *)
parameters_propose(f) ==
    /\ f.step = "open"
    /\ \E n \in Names, logo \in {"keep", "new", "unfit", "remove"} : \E v \in Tried[n] \cup {f.values[n]} :
       LET m == f.of
           sent == [f EXCEPT !.values[n] = v, !.logo = logo, !.picture = IF logo = "new" THEN f.n ELSE 0,
                             !.loaded = motions[m], !.step = "save"]
           changes == changed_parameters(sent.values)
           valid == /\ Specs[n].min <= v /\ v <= Specs[n].max /\ Fit(logo)
                    /\ changes # <<>> \/ logo = "new" \/ (logo = "remove" /\ motions[m].logo # 0)
       IN IF motions[m].status \in {"none", "proposition"} /\ valid
          THEN /\ forms' = (forms \ {f}) \cup {[sent EXCEPT !.values = changes]}
               /\ touched' = IF v = f.values[n] THEN touched ELSE touched \cup {<<m, n>>}
          ELSE forms' = forms \ {f} /\ UNCHANGED touched
    /\ UNCHANGED <<row, files, derived, motions, kept, effects, applying, site, cached, icons, moved, marks, crossed, hasty,
                   broken, voted, left>>

(* One transaction, with the files written in it: a copy of the old logo   *)
(* for the version kept, which must be there to be copied, and the new     *)
(* logo.  After it the old file goes.                                      *)
SaveProposal(f) ==
    LET m == f.of
        old == f.loaded.logo
        copied == IF old = 0 THEN files ELSE Write(files, files[old])
        stored == IF f.logo = "new" THEN Write(copied, f.picture) ELSE copied
        logo == IF f.logo = "new" THEN Len(stored) ELSE IF f.logo = "remove" THEN 0 ELSE old
    IN /\ f.step = "save" /\ forms' = forms \ {f}
       /\ IF old # 0 /\ ~There(old) THEN UNCHANGED <<files, motions, kept, left>>
          ELSE /\ Len(stored) <= MaxFiles
               /\ \/ /\ motions' = [motions EXCEPT ![m] = [status |-> "proposition", proposed |-> f.values, logo |-> logo]]
                     /\ kept' = IF old = 0 THEN kept ELSE kept \cup {Len(copied)}
                     /\ files' = IF old # 0 /\ old # logo THEN Erase(stored, old) ELSE stored
                     /\ UNCHANGED left
                  \* the files of a failed transaction are deleted
                  \/ /\ Spend("faults") /\ UNCHANGED <<motions, kept>>
                     /\ files' = [g \in 1..Len(stored) |-> IF g \in DOMAIN files THEN files[g] ELSE 0]
       /\ crossed' = IF motions[m] # f.loaded THEN crossed \cup {m} ELSE crossed
       /\ UNCHANGED <<row, derived, effects, applying, site, cached, icons, touched, moved, marks, hasty, broken, voted>>

-----------------------------------------------------------------------------
(* The command                                                             *)

\* The effects of an approved motion: parameters, if any, then the logo.
Approve(m) ==
    LET of(k) == IF k = "parameters" THEN motions[m].proposed # <<>> ELSE motions[m].logo # 0
    IN /\ motions[m].status = "proposition" /\ applying = Idle /\ Spend("approvals")
       /\ motions' = [motions EXCEPT ![m].status = "approved"]
       /\ effects' = effects \o SelectSeq(<<<<m, "parameters">>, <<m, "logo">>>>, LAMBDA e : of(e[2]))
       /\ UNCHANGED <<row, files, derived, kept, forms, applying, site, cached, icons, touched, moved, marks, crossed, hasty,
                      broken, voted>>

\* An effect that fails stays; the command goes on with the next.
Fails == applying' = [applying EXCEPT !.step = "failed"]
Effect == effects[applying.of]

(* apply_parameters or apply_brand_mark up to the saving of the row, which *)
(* writes the logo in force, normalised, into a new file; a new logo is    *)
(* written as it was proposed before.  A motion that has lost its logo     *)
(* since is done at once.                                                  *)
Store ==
    LET m == Effect[1]
        new == IF Effect[2] = "logo" THEN row.values
               ELSE [n \in Names |-> IF n \in DOMAIN motions[m].proposed THEN clamp(n, motions[m].proposed[n])
                                     ELSE row.values[n]]
        source == IF Effect[2] = "logo" THEN motions[m].logo ELSE row.mark
        stored == IF source = 0 THEN files
                  ELSE Write(IF Effect[2] = "logo" THEN Write(files, files[source]) ELSE files, files[source])
    IN /\ applying.step = "store"
       /\ IF Effect[2] = "logo" /\ source = 0
          THEN applying' = [applying EXCEPT !.step = "site"] /\ UNCHANGED <<row, files, broken, voted, moved, marks>>
          ELSE IF source # 0 /\ ~There(source)
          THEN Fails /\ UNCHANGED <<row, files, broken, voted, moved, marks>>
          ELSE /\ Len(stored) <= MaxFiles /\ files' = stored
               /\ row' = [values |-> new, mark |-> IF source = 0 THEN 0 ELSE Len(stored), version |-> row.version + 1]
               /\ voted' = [values |-> IF Effect[2] = "logo" THEN voted.values ELSE new,
                            picture |-> IF Effect[2] = "logo" THEN files[source] ELSE voted.picture]
               /\ marks' = marks \cup ((Len(files) + 1)..Len(stored))
               /\ moved' = moved \cup {g.of : g \in {h \in forms : new # row.values}}
               /\ broken' = TRUE
               /\ applying' = [applying EXCEPT !.step = "png",
                       !.name = Effect[2] = "parameters" /\ "site_name" \in DOMAIN motions[m].proposed]
       /\ UNCHANGED <<derived, motions, kept, forms, effects, site, cached, icons, touched, crossed, hasty, left>>

(* regenerate_brand_derivatives: the icon goes last; with no logo          *)
(* cleanup_brand_derivatives removes them all.                             *)
Derive ==
    LET picture == IF row.mark = 0 THEN 0 ELSE files[row.mark]
    IN /\ applying.step \in {"png", "ico"}
       /\ \/ /\ derived' = [derived EXCEPT ![applying.step] = picture]
             /\ applying' = [applying EXCEPT !.step = IF @ = "png" THEN "ico" ELSE "site"]
             /\ broken' = (applying.step = "png") /\ UNCHANGED left
          \/ Spend("faults") /\ Fails /\ UNCHANGED <<derived, broken>>
       /\ UNCHANGED <<row, files, motions, kept, forms, effects, site, cached, icons, touched, moved, marks, crossed, hasty, voted>>

Fallback == 9   \* the name in the settings
Domain == 8

\* The name, else what stands for it.  This process forgets what it had cached.
Synced(other) ==
    /\ site' = IF row.values.site_name # 0 THEN row.values.site_name ELSE other
    /\ cached' = [cached EXCEPT !["scheduler"] = 0]

(* With the name the site's own table follows; then the effect is done.    *)
_sync_django_site ==
    /\ applying.step = "site"
    /\ IF applying.name THEN Synced(Domain) ELSE UNCHANGED <<site, cached>>
    /\ effects' = RemoveAt(effects, applying.of)
    /\ applying' = [Idle EXCEPT !.of = applying.of - 1, !.step = "next"]
    /\ UNCHANGED <<row, files, derived, motions, kept, forms, icons, touched, moved, marks, crossed, hasty, broken, voted, left>>

\* apply_pending_referendum_effects, once a day
apply_pending_referendum_effects ==
    /\ \/ applying = Idle /\ Spend("runs")
       \/ applying.step \in {"next", "failed"} /\ UNCHANGED left
    /\ applying' = IF applying.of < Len(effects)
                   THEN [of |-> applying.of + 1, step |-> "store", name |-> FALSE] ELSE Idle
    /\ UNCHANGED <<row, files, derived, motions, kept, forms, effects, site, cached, icons, touched, moved, marks, crossed, hasty,
                   broken, voted>>

\* The scheduler dies, and is started again: update_site comes first.
Crash ==
    /\ applying # Idle /\ Spend("faults") /\ applying' = Idle
    /\ Synced(Fallback)
    /\ UNCHANGED <<row, files, derived, motions, kept, forms, effects, icons, touched, moved, marks, crossed, hasty, broken, voted>>

update_site ==
    /\ applying = Idle /\ Synced(Fallback)
    /\ UNCHANGED <<row, files, derived, motions, kept, forms, effects, applying, icons, touched, moved, marks, crossed, hasty,
                   broken, voted, left>>

-----------------------------------------------------------------------------
(* Visitors                                                                *)

\* has_brand_derivatives: without an icon they are all made, if the logo can be read.
Derived == IF There(row.mark) /\ derived.ico = 0 THEN [png |-> files[row.mark], ico |-> files[row.mark]] ELSE derived

(* The address of the icon names the version of the row: once fetched it   *)
(* is not fetched again.                                                   *)
manifest ==
    /\ row.mark # 0 /\ derived' = Derived /\ row.version \notin DOMAIN icons /\ Spend("visits")
    /\ icons' = [v \in DOMAIN icons \cup {row.version} |-> IF v = row.version THEN derived'.ico ELSE icons[v]]
    /\ hasty' = IF broken /\ derived'.ico = derived.ico THEN hasty \cup {row.version} ELSE hasty
    /\ UNCHANGED <<row, files, motions, kept, forms, effects, applying, site, cached, touched, moved, marks, crossed, broken, voted>>

\* A process looks the site up, or has it cached.
GetSite(p) ==
    /\ cached[p] = 0 /\ Spend("visits") /\ cached' = [cached EXCEPT ![p] = site]
    /\ UNCHANGED <<row, files, derived, motions, kept, forms, effects, applying, site, icons, touched, moved, marks, crossed, hasty,
                   broken, voted>>

Init ==
    /\ row = [values |-> [signatures |-> 2, site_name |-> 0], mark |-> 0, version |-> 0]
    /\ files = <<>> /\ derived = [png |-> 0, ico |-> 0]
    /\ motions \in [Motions -> {NoMotion, [NoMotion EXCEPT !.status = "rejected"]}] /\ kept = {} /\ forms = {} /\ effects = <<>> /\ applying = Idle
    /\ site = Fallback /\ cached = [p \in {"web", "scheduler"} |-> 0]
    /\ icons = <<>> /\ touched = {} /\ moved = {} /\ marks = {} /\ crossed = {} /\ hasty = {} /\ broken = FALSE
    /\ voted = [values |-> row.values, picture |-> 0]
    /\ left \in Budgets

Next ==
    \/ \E m \in Motions : OpenForm(m) \/ Approve(m)
    \/ \E f \in forms : parameters_propose(f) \/ SaveProposal(f)
    \/ apply_pending_referendum_effects \/ Store \/ Derive \/ _sync_django_site \/ Crash
    \/ update_site \/ manifest \/ \E p \in {"web", "scheduler"} : GetSite(p)

-----------------------------------------------------------------------------
(* Properties                                                              *)

TypeOK ==
    /\ row.mark \in 0..Len(files) /\ applying.of \in 0..(Len(effects) + 1)
    /\ \A m \in Motions : motions[m].logo \in 0..Len(files)

(* A motion proposes only what its author has changed, though the form     *)
(* sends every parameter; unless one came into force while it was open.    *)
OnlyWhatWasChanged ==
    \A m \in Motions \ moved : \A n \in DOMAIN motions[m].proposed : <<m, n>> \in touched

(* What is voted on is what is applied: the form lets nothing through that *)
(* would be cut to its bounds.                                             *)
NothingIsCut == \A m \in Motions : \A n \in DOMAIN motions[m].proposed : clamp(n, motions[m].proposed[n]) = motions[m].proposed[n]

(* The logo of a motion, of a version kept and of the site can be read,    *)
(* and no file is left that nothing refers to but those of the site's      *)
(* former logos; unless two edits of the motion overlapped.                *)
FilesAreKept ==
    /\ \A m \in Motions \ crossed : motions[m].logo # 0 => There(motions[m].logo)
    /\ \A f \in kept : There(f)
    /\ row.mark # 0 => There(row.mark)
NothingLeaks ==
    crossed = {} => \A f \in DOMAIN files :
        There(f) => f \in kept \cup marks \cup {motions[m].logo : m \in Motions}

(* The row holds what was applied last, of parameters and of logos.        *)
AppliedAsVoted ==
    /\ row.values = voted.values
    /\ voted.picture = IF row.mark = 0 THEN 0 ELSE files[row.mark]

(* Icons are made from the logo in force whenever no save has stopped      *)
(* midway, and a browser keeps no other under its version, unless it       *)
(* fetched it before it was made.                                          *)
IconsAreFresh ==
    /\ ~broken => derived = [png |-> voted.picture, ico |-> voted.picture]
    /\ row.version \in DOMAIN icons \ hasty => icons[row.version] = voted.picture

(* A name in force is in the site's table, too, when no effect is pending, *)
(* unless a motion was saved over its own approval; the scheduler never    *)
(* works with an older one.                                                *)
SiteFollows ==
    /\ effects = <<>> /\ applying = Idle /\ row.values.site_name # 0 /\ crossed = {} => site = row.values.site_name
    /\ cached["scheduler"] \in {0, site}

ParametersInvariant ==
    TypeOK /\ OnlyWhatWasChanged /\ NothingIsCut /\ FilesAreKept /\ NothingLeaks /\ AppliedAsVoted /\ IconsAreFresh
    /\ SiteFollows
=============================================================================
