--------------------------- MODULE MachineSummary ---------------------------
(***************************************************************************)
(* scripts/machine-summary.py: for every machine of the command line, the  *)
(* version and the patches of each recipe, against the upstream release.   *)
(*                                                                         *)
(* BitBake is set up once per machine and asked about each recipe.  The    *)
(* upstream release of a recipe is looked up on the network until one      *)
(* machine has found it, and is then used for all of them.  What BitBake   *)
(* and the network answer is drawn when it is asked for and kept in facts. *)
(***************************************************************************)
EXTENDS Integers, Sequences, Functions

CONSTANTS
    Machines,    \* the command line: a sequence of machines
    Recipes,     \* the tuple of recipes the script knows
    Bases,       \* version numbers, not 0
    Answers      \* what may be answered about a recipe: its PV, its patches as
                 \* [layer, status], and the result of the upstream lookup

\* Layers with a path in BBPATH; a patch outside of them has layer "none".
Layers == {"core", "meta-arm"}
NoPatchStatus == "Unknown"
\* The values that ci/patchreview accepts for an Upstream-Status.
SettledStatuses == {"Accepted", "Backport", "Inappropriate", "Submitted"}
\* Any other word, or none: extract_patch_info() takes what follows the tag.
Malformed == "malformed"
Statuses == SettledStatuses \cup {"Denied", "Pending", NoPatchStatus, Malformed}

\* A PV is a number, with nothing, "+git" or "+git" and a revision after it.
PVs == [base : Bases, git : {"", "+git", "+gitrevision"}]
NoRelease == 0                       \* the lookup raises NoProvider or KeyError

\* What the constants satisfy.
Assumptions ==
    /\ Machines \in Seq(Range(Machines)) /\ IsInjective(Machines) /\ Machines # <<>>
    /\ Range(Machines) \cap {"index", "none"} = {}
    /\ Recipes \in Seq(Range(Recipes)) /\ IsInjective(Recipes)
    /\ NoRelease \notin Bases
    /\ \A a \in Answers :
         /\ a.pv \in PVs
         /\ \A n \in DOMAIN a.patches : /\ a.patches[n].layer \in Layers \cup {"none"}
                                        /\ a.patches[n].status \in Statuses
         /\ a.release \in Bases \cup {NoRelease}

VARIABLES
    pc,        \* "gather", "backfill", "index", "pages", "done"
    machine,   \* position in Machines
    recipe,    \* position in Recipes
    to_check,  \* recipes without an upstream release so far
    upstreams, \* recipe -> upstream release
    versions,  \* machine -> recipe -> details
    output,    \* what the -o argument names: "absent", "file" or "directory"
    format,    \* the -t argument: "overview.txt" or "report"
    written,   \* complete file -> the data it was rendered from
    cut,       \* the file that was opened and not completed, or "none"
    outcome,   \* "running", "ok", "raised", "exit 1"
    facts      \* machine -> recipe it has -> what was answered

vars == <<pc, machine, recipe, to_check, upstreams, versions, output, format,
          written, cut, outcome, facts>>

RecipeSet == Range(Recipes)
Empty == [x \in {} |-> 0]
\* The dictionary f with the value y under the key x.
With(f, x, y) == [z \in DOMAIN f \cup {x} |-> IF z = x THEN y ELSE f[z]]

TypeOK ==
    /\ pc \in {"gather", "backfill", "index", "pages", "done"}
    /\ machine \in 1..(Len(Machines) + 1)
    /\ recipe \in 1..(Len(Recipes) + 1)
    /\ to_check \subseteq RecipeSet
    /\ DOMAIN upstreams = RecipeSet \ to_check
    /\ \A r \in DOMAIN upstreams : upstreams[r] \in Bases
    /\ DOMAIN versions \subseteq Range(Machines)
    /\ \A m \in DOMAIN versions : DOMAIN versions[m] \subseteq RecipeSet
    /\ output \in {"absent", "file", "directory"}
    /\ format \in {"overview.txt", "report"}
    /\ DOMAIN written \subseteq {"index"} \cup Range(Machines)
    /\ cut \in {"none", "index"} \cup Range(Machines)
    /\ outcome \in {"running", "ok", "raised", "exit 1"}

Init ==
    /\ pc = "gather"
    /\ machine = 1 /\ recipe = 1
    /\ to_check = RecipeSet
    /\ upstreams = Empty
    /\ versions = With(Empty, Machines[1], Empty)
    /\ output \in {"absent", "file", "directory"}
    /\ format \in {"overview.txt", "report"}
    /\ written = Empty
    /\ cut = "none"
    /\ outcome = "running"
    /\ facts = [m \in Range(Machines) |-> Empty]

-----------------------------------------------------------------------------
(* The pure functions. *)

\* Anything after "+git" is stripped.
trim_pv(pv) == [base |-> pv.base, git |-> IF pv.git = "" THEN "" ELSE "+git"]

\* Mutant: a snapshot is compared as it is.
needs_update_snapshot(version, upstream) == version # [base |-> upstream, git |-> ""]

\* Without "+git" the version is compared as a string: any difference counts.
needs_update(version, upstream) == version.base # upstream

safe_patches(patches) ==
    \A n \in DOMAIN patches :
        patches[n].status \notin {"Denied", "Pending", NoPatchStatus}

\* layer_path() of a layer that is not there is None, and relative_to() raises.
\* Its cache only saves the search: the layers are the same for all machines.
LayerPath(layer) == layer \in Layers
extract_patch_info(patches) == \A n \in DOMAIN patches : LayerPath(patches[n].layer)

-----------------------------------------------------------------------------
(* harvest_data() *)

Machine == Machines[machine]
Recipe == Recipes[recipe]
Asking == pc = "gather" /\ recipe <= Len(Recipes)
Finish(how) == pc' = "done" /\ outcome' = how

\* Every other exception than the two below ends the script: of Tinfoil, of
\* parse_recipe(), of the lookup, or of open() for a patch.
GatherRaises ==
    /\ pc = "gather"
    /\ Finish("raised")
    /\ UNCHANGED <<machine, recipe, to_check, upstreams, versions, output, format,
                   written, cut, facts>>

\* parse_recipe() raises NoProvider: the recipe is not for this machine.
NoProvider ==
    /\ Asking
    /\ recipe' = recipe + 1
    /\ UNCHANGED <<pc, machine, to_check, upstreams, versions, output, format,
                   written, cut, outcome, facts>>

\* Mutant: a recipe is looked up once, whether or not a release was found.
LookupOnce(release) ==
    /\ to_check' = to_check \ {Recipe}
    /\ upstreams' = IF release = NoRelease \/ Recipe \notin to_check THEN upstreams
                    ELSE With(upstreams, Recipe, release)

\* The upstream lookup of a recipe that is still in the queue; one that fails
\* leaves it there for the next machine.
Lookup(release) ==
    IF Recipe \in to_check /\ release # NoRelease
    THEN /\ upstreams' = With(upstreams, Recipe, release)
         /\ to_check' = to_check \ {Recipe}
    ELSE UNCHANGED <<upstreams, to_check>>

Details(answer) ==
    [version |-> trim_pv(answer.pv), fullversion |-> answer.pv,
     patched |-> answer.patches # <<>>, patches_safe |-> safe_patches(answer.patches)]

\* One recipe of one machine, up to safe_patches(); the script ends with the
\* traceback of a patch whose layer has no path.
Gather ==
    /\ Asking
    /\ \E answer \in Answers :
         /\ facts' = [facts EXCEPT ![Machine] = With(@, Recipe, answer)]
         /\ Lookup(answer.release)
         /\ IF extract_patch_info(answer.patches)
            THEN /\ versions' =
                       [versions EXCEPT ![Machine] = With(@, Recipe, Details(answer))]
                 /\ recipe' = recipe + 1
                 /\ UNCHANGED <<pc, outcome>>
            ELSE Finish("raised") /\ UNCHANGED <<versions, recipe>>
    /\ UNCHANGED <<machine, output, format, written, cut>>

\* The Tinfoil of the next machine.
NextMachine ==
    /\ pc = "gather" /\ recipe > Len(Recipes)
    /\ IF machine < Len(Machines)
       THEN /\ versions' = With(versions, Machines[machine + 1], Empty)
            /\ machine' = machine + 1 /\ recipe' = 1
            /\ UNCHANGED pc
       ELSE pc' = "backfill" /\ UNCHANGED <<machine, recipe, versions>>
    /\ UNCHANGED <<to_check, upstreams, output, format, written, cut, outcome, facts>>

Filled(row, upstream) ==
    [version |-> row.version, fullversion |-> row.fullversion,
     patched |-> row.patched, patches_safe |-> row.patches_safe,
     upstream |-> upstream, needs_update |-> needs_update(row.version, upstream)]

\* upstreams[recipe] raises KeyError for a recipe that no machine found.
Backfill ==
    /\ pc = "backfill"
    /\ IF \A m \in DOMAIN versions : DOMAIN versions[m] \subseteq DOMAIN upstreams
       THEN /\ versions' = [m \in DOMAIN versions |->
                              [r \in DOMAIN versions[m] |-> Filled(versions[m][r], upstreams[r])]]
            /\ pc' = "index" /\ UNCHANGED outcome
       ELSE Finish("raised") /\ UNCHANGED versions
    /\ UNCHANGED <<machine, recipe, to_check, upstreams, output, format, written,
                   cut, facts>>

-----------------------------------------------------------------------------
(* render() *)

\* The text is rendered after open() has emptied the file: it is there in full, or
\* an exception of open(), of Jinja or of write() leaves none or an incomplete one.
WriteFile(file, data) == written' = With(written, file, data) /\ UNCHANGED cut
FileRaises(file) ==
    /\ cut' = cut \/ cut' = file
    /\ UNCHANGED written
    /\ Finish("raised")

\* TextOverview: one file, which open() refuses when it is a directory.
RenderOverview ==
    /\ pc = "index" /\ format = "overview.txt"
    /\ \/ /\ output # "directory"
          /\ WriteFile("index", versions)
          /\ output' = "file"
          /\ Finish("ok")
       \/ /\ FileRaises("index")
          /\ cut' = "index" => output # "directory"
          /\ output' = IF cut' = "index" THEN "file" ELSE output
    /\ UNCHANGED <<machine, recipe, to_check, upstreams, versions, format, facts>>

\* HtmlUpdates looks at the output only now, with all the data gathered.
WrongOutput ==
    /\ pc = "index" /\ format = "report" /\ output = "file"
    /\ Finish("exit 1")
    /\ UNCHANGED <<machine, recipe, to_check, upstreams, versions, output, format,
                   written, cut, facts>>

\* mkdir() may raise, too.
RenderIndex ==
    /\ pc = "index" /\ format = "report" /\ output # "file"
    /\ \/ /\ output' = "directory"
          /\ \/ WriteFile("index", versions) /\ pc' = "pages" /\ UNCHANGED outcome
             \/ FileRaises("index")
       \/ Finish("raised") /\ UNCHANGED <<output, written, cut>>
    /\ UNCHANGED <<machine, recipe, to_check, upstreams, versions, format, facts>>

\* The pages are written in the order of the machines.
RenderPage ==
    /\ pc = "pages"
    /\ \E n \in DOMAIN Machines :
         /\ Machines[n] \notin DOMAIN written
         /\ \A k \in 1..(n - 1) : Machines[k] \in DOMAIN written
         /\ \/ /\ WriteFile(Machines[n], versions[Machines[n]])
               /\ IF n = Len(Machines) THEN Finish("ok") ELSE UNCHANGED <<pc, outcome>>
            \/ FileRaises(Machines[n])
    /\ UNCHANGED <<machine, recipe, to_check, upstreams, versions, output, format,
                   facts>>

Next == NoProvider \/ Gather \/ GatherRaises \/ NextMachine \/ Backfill
          \/ RenderOverview \/ WrongOutput \/ RenderIndex \/ RenderPage

Spec == Init /\ [][Next]_vars

-----------------------------------------------------------------------------
(* Properties. *)

Provided(m) == DOMAIN facts[m]
Finders(r) == {n \in DOMAIN Machines :
                 r \in Provided(Machines[n]) /\ facts[Machines[n]][r].release # NoRelease}

\* The release of a recipe: that of the first machine for which it was found.
Release(r) ==
    facts[Machines[CHOOSE n \in Finders(r) : \A k \in Finders(r) : n <= k]][r].release

\* What the summary should say of a recipe on a machine: a patch is safe when its
\* status is settled, or is one that the script does not know.
RowIsRight(row, m, r) ==
    LET answer == facts[m][r]
    IN  /\ row.fullversion = answer.pv
        /\ row.upstream = Release(r)
        /\ row.needs_update <=> answer.pv.base # Release(r)
        /\ row.patches_safe <=>
             \A n \in DOMAIN answer.patches :
                answer.patches[n].status \in SettledStatuses \cup {Malformed}

TableIsRight(table, m) ==
    /\ DOMAIN table = Provided(m)
    /\ \A r \in Provided(m) : RowIsRight(table[r], m, r)

Files == {"index"} \cup (IF format = "report" THEN Range(Machines) ELSE {})

\* Each file that is complete, also one of a run that fails later, has the recipes
\* that are provided for each of its machines, and its rows agree with all that was
\* answered: one release per recipe, found through whichever machine came first,
\* also for the machines before it.  A run that ends well has written all files, and
\* left none incomplete.
SummaryIsRight ==
    /\ outcome = "ok" => DOMAIN written = Files /\ cut = "none"
    /\ "index" \in DOMAIN written =>
         /\ DOMAIN written["index"] = Range(Machines)
         /\ \A m \in Range(Machines) : TableIsRight(written["index"][m], m)
    /\ \A m \in DOMAIN written \ {"index"} : TableIsRight(written[m], m)
=============================================================================
