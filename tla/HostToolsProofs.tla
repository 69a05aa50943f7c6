-------------------------- MODULE HostToolsProofs --------------------------
(***************************************************************************)
(* machine-summary.py for any machines, recipes and answers of BitBake and *)
(* the network: each file that is complete agrees with all that was        *)
(* answered, whatever becomes of the script after it.  At the end, the     *)
(* script and the build of a capsule keep their types on one host.         *)
(*                                                                         *)
(* The heart of it is the queue of recipes without an upstream release: a  *)
(* recipe has left it exactly if a machine so far has found its release,   *)
(* and what is kept is the release of the first such machine (ReleasesSo-  *)
(* Far).  The rows of the summary are kept in step with the answers while  *)
(* they come in (Gathered), and are complete once they have been filled in *)
(* (Complete).                                                             *)
(***************************************************************************)
EXTENDS HostTools, CapsuleBuildProofs, TLAPS

MachineSet == MS!Range(Machines)

\* The machine n is the first for which the release of r was found.
FirstFinder(n, r) == n \in MS!Finders(r) /\ \A k \in MS!Finders(r) : n <= k

-----------------------------------------------------------------------------
(***************************************************************************)
(* The inductive invariant.                                                *)
(***************************************************************************)
\* The answers are kept for each machine.
FactsAreAnswers ==
    /\ DOMAIN facts = MachineSet
    /\ \A m \in MachineSet :
         /\ MS!Provided(m) \subseteq MS!RecipeSet
         /\ \A r \in MS!Provided(m) : facts[m][r] \in Answers

\* Machines are asked about one after the other, and each about the recipes in order.
AskedInOrder ==
    summaryPc = "gather" =>
        /\ machine \in 1..Len(Machines)
        /\ DOMAIN versions = {Machines[k] : k \in 1..machine}
        /\ MS!Provided(MS!Machine) \subseteq {Recipes[j] : j \in 1..(recipe - 1)}
        /\ \A k \in (machine + 1)..Len(Machines) : MS!Provided(Machines[k]) = {}

\* The queue and the releases found so far.
ReleasesSoFar ==
    \A r \in MS!RecipeSet :
        /\ r \in to_check => MS!Finders(r) = {}
        /\ r \notin to_check =>
             \E n \in DOMAIN Machines :
                FirstFinder(n, r) /\ upstreams[r] = facts[Machines[n]][r].release

\* The details of each recipe before the upstream versions are filled in.
RowIsGathered(row, answer) ==
    /\ row.version = MS!trim_pv(answer.pv) /\ row.fullversion = answer.pv
    /\ row.patches_safe = MS!safe_patches(answer.patches)

Gathered ==
    summaryPc \in {"gather", "backfill"} =>
        \A m \in DOMAIN versions :
            /\ DOMAIN versions[m] = MS!Provided(m)
            /\ \A r \in MS!Provided(m) : RowIsGathered(versions[m][r], facts[m][r])

\* The summary when it is rendered, and once a file was.
Rendered == summaryPc \in {"index", "pages"} \/ DOMAIN written # {}

Complete ==
    Rendered =>
        \A m \in MachineSet :
            /\ DOMAIN versions[m] = MS!Provided(m)
            /\ \A r \in MS!Provided(m) : MS!RowIsRight(versions[m][r], m, r)

AllMachines == Rendered \/ summaryPc = "backfill" => DOMAIN versions = MachineSet

\* Files are written from the summary, the index first and, for a report, a page for
\* each machine in order; only the last one that is opened may be incomplete.
FilesAreOfTheSummary ==
    /\ summaryPc \in {"gather", "backfill", "index"} => written = MS!Empty
    /\ summaryPc # "done" => cut = "none"
    /\ "index" \in DOMAIN written => written["index"] = versions
    /\ \A m \in DOMAIN written \ {"index"} : written[m] = versions[m]
    /\ summaryPc = "pages" => format = "report" /\ "index" \in DOMAIN written
    /\ summaryOutcome = "ok" => cut = "none" /\ DOMAIN written = MS!Files

Ending == summaryPc = "done" <=> summaryOutcome # "running"

SummaryInv ==
    /\ MS!TypeOK /\ FactsAreAnswers /\ AskedInOrder /\ ReleasesSoFar /\ Gathered
    /\ Complete /\ AllMachines /\ FilesAreOfTheSummary /\ Ending

-----------------------------------------------------------------------------
(***************************************************************************)
(* The operators, and the command line.                                    *)
(***************************************************************************)
\* Setting a key of a dictionary changes the value under this key only.
LEMMA WithIs ==
    ASSUME NEW f, NEW x, NEW y
    PROVE  /\ DOMAIN MS!With(f, x, y) = DOMAIN f \cup {x}
           /\ MS!With(f, x, y)[x] = y
           /\ \A z \in DOMAIN f \ {x} : MS!With(f, x, y)[z] = f[z]
BY DEF MS!With

LEMMA EmptyIs == DOMAIN MS!Empty = {}
BY DEF MS!Empty

LEMMA MachinesInOrder ==
    ASSUME MS!Assumptions
    PROVE  /\ Len(Machines) \in Nat /\ Len(Machines) >= 1
           /\ DOMAIN Machines = 1..Len(Machines)
           /\ \A k \in 1..Len(Machines) : Machines[k] \in MachineSet
           /\ \A m \in MachineSet : \E k \in 1..Len(Machines) : Machines[k] = m
           /\ \A k, n \in 1..Len(Machines) : Machines[k] = Machines[n] => k = n
           /\ "index" \notin MachineSet /\ "none" \notin MachineSet
<1>1. Machines \in Seq(MS!Range(Machines)) /\ Machines # <<>>
    BY DEF MS!Assumptions
<1>2. Len(Machines) \in Nat /\ DOMAIN Machines = 1..Len(Machines)
    BY <1>1
<1>3. Len(Machines) >= 1
    BY <1>1
<1>4. /\ \A k \in 1..Len(Machines) : Machines[k] \in MachineSet
      /\ \A m \in MachineSet : \E k \in 1..Len(Machines) : Machines[k] = m
    BY <1>2 DEF MachineSet, MS!Range
<1>5. \A k, n \in 1..Len(Machines) : Machines[k] = Machines[n] => k = n
    BY <1>2 DEF MS!Assumptions, MS!IsInjective
<1>6. QED
    BY <1>2, <1>3, <1>4, <1>5 DEF MS!Assumptions, MachineSet

LEMMA RecipesInOrder ==
    ASSUME MS!Assumptions
    PROVE  /\ Len(Recipes) \in Nat
           /\ DOMAIN Recipes = 1..Len(Recipes)
           /\ \A k \in 1..Len(Recipes) : Recipes[k] \in MS!RecipeSet
           /\ \A k, n \in 1..Len(Recipes) : Recipes[k] = Recipes[n] => k = n
<1>1. Recipes \in Seq(MS!Range(Recipes))
    BY DEF MS!Assumptions
<1>2. Len(Recipes) \in Nat /\ DOMAIN Recipes = 1..Len(Recipes)
    BY <1>1
<1>3. \A k \in 1..Len(Recipes) : Recipes[k] \in MS!RecipeSet
    BY <1>2 DEF MS!RecipeSet, MS!Range
<1>4. \A k, n \in 1..Len(Recipes) : Recipes[k] = Recipes[n] => k = n
    BY <1>2 DEF MS!Assumptions, MS!IsInjective
<1>5. QED
    BY <1>2, <1>3, <1>4

\* There is one first finder at most, and Release is what it found.
LEMMA ReleaseOfFirst ==
    ASSUME MS!Assumptions, NEW r, NEW n \in DOMAIN Machines, FirstFinder(n, r)
    PROVE  MS!Release(r) = facts[Machines[n]][r].release
<1> DEFINE first == CHOOSE i \in MS!Finders(r) : \A k \in MS!Finders(r) : i <= k
<1>1. first \in MS!Finders(r) /\ \A k \in MS!Finders(r) : first <= k
    BY DEF FirstFinder
<1>2. MS!Finders(r) \subseteq Int
    BY MachinesInOrder DEF MS!Finders
<1>3. first <= n /\ n <= first
    BY <1>1 DEF FirstFinder
<1>4. first \in Int /\ n \in Int
    BY <1>1, <1>2 DEF FirstFinder
<1>5. first = n
    BY <1>3, <1>4
<1>6. QED
    BY <1>5 DEF MS!Release

\* The release follows from the answers alone.
LEMMA SameRelease == ASSUME NEW r, facts' = facts PROVE MS!Release(r)' = MS!Release(r)
<1>1. MS!Finders(r)' = MS!Finders(r)
  BY DEF MS!Finders, MS!Provided
<1>2. QED
  BY <1>1 DEF MS!Release

\* A patch is safe if it is settled or malformed, by the statuses there are.
LEMMA SafeIsSettled ==
    ASSUME MS!Assumptions, NEW a \in Answers
    PROVE  MS!safe_patches(a.patches) <=>
             \A n \in DOMAIN a.patches :
                a.patches[n].status \in MS!SettledStatuses \cup {MS!Malformed}
<1>1. \A n \in DOMAIN a.patches : a.patches[n].status \in MS!Statuses
    BY DEF MS!Assumptions
<1>2. \A s \in MS!Statuses : s \in MS!SettledStatuses \cup {MS!Malformed}
                              <=> s \notin {"Denied", "Pending", MS!NoPatchStatus}
    BY DEF MS!Statuses, MS!SettledStatuses, MS!NoPatchStatus, MS!Malformed
<1>3. QED
    BY <1>1, <1>2 DEF MS!safe_patches

-----------------------------------------------------------------------------
(***************************************************************************)
(* Each step of the script.                                                *)
(***************************************************************************)
LEMMA SummaryInit == ASSUME MS!Assumptions, MS!Init PROVE SummaryInv
<1>1. MS!TypeOK
  <2>1. machine \in 1..(Len(Machines) + 1) /\ recipe \in 1..(Len(Recipes) + 1)
    BY MachinesInOrder, RecipesInOrder DEF MS!Init
  <2>2. DOMAIN versions = {Machines[1]} /\ versions[Machines[1]] = MS!Empty
    BY DEF MS!Init, MS!With, MS!Empty
  <2>3. Machines[1] \in MS!Range(Machines)
    BY MachinesInOrder DEF MachineSet
  <2>4. QED
    BY <2>1, <2>2, <2>3, EmptyIs DEF MS!Init, MS!TypeOK
<1>2. \A m \in MachineSet : MS!Provided(m) = {}
    BY EmptyIs DEF MS!Init, MS!Provided, MachineSet
<1>3. FactsAreAnswers
    BY <1>2 DEF MS!Init, FactsAreAnswers, MachineSet
<1>4. AskedInOrder
  <2>1. DOMAIN versions = {Machines[1]}
    BY DEF MS!Init, MS!With, MS!Empty
  <2>2. /\ machine = 1 /\ recipe = 1 /\ 1 \in 1..Len(Machines)
        /\ {Machines[k] : k \in 1..1} = {Machines[1]}
    BY MachinesInOrder DEF MS!Init
  <2>3. \A k \in 1..Len(Machines) : MS!Provided(Machines[k]) = {}
    BY <1>2, MachinesInOrder
  <2>4. QED
    BY <2>1, <2>2, <2>3, MachinesInOrder DEF AskedInOrder, MS!Machine
<1>5. \A r \in MS!RecipeSet : MS!Finders(r) = {}
    BY <1>2, MachinesInOrder DEF MS!Finders
<1>6. ReleasesSoFar
    BY <1>5 DEF MS!Init, ReleasesSoFar
<1>7. Gathered
  <2>1. DOMAIN versions = {Machines[1]} /\ versions[Machines[1]] = MS!Empty
    BY DEF MS!Init, MS!With, MS!Empty
  <2>2. MS!Provided(Machines[1]) = {}
    BY <1>2, MachinesInOrder
  <2>3. QED
    BY <2>1, <2>2, EmptyIs DEF Gathered
<1>8. Complete /\ AllMachines /\ FilesAreOfTheSummary /\ Ending
    BY EmptyIs DEF MS!Init, Rendered, Complete, AllMachines, FilesAreOfTheSummary, Ending
<1>9. QED
    BY <1>1, <1>3, <1>4, <1>6, <1>7, <1>8 DEF SummaryInv

\* The answers and the releases stay what they are when nothing is asked.
LEMMA NothingAsked ==
    ASSUME UNCHANGED <<facts, to_check, upstreams>>, FactsAreAnswers, ReleasesSoFar
    PROVE  FactsAreAnswers' /\ ReleasesSoFar'
BY DEF FactsAreAnswers, ReleasesSoFar, MS!Provided, MS!Finders, FirstFinder

LEMMA NoProviderStep == ASSUME MS!Assumptions, SummaryInv, MS!NoProvider PROVE SummaryInv'
<1> USE DEF SummaryInv, MS!NoProvider, MS!Asking
<1>1. MS!TypeOK'
  <2>1. recipe \in 1..(Len(Recipes) + 1)
    BY DEF MS!TypeOK
  <2>2. recipe' \in 1..(Len(Recipes) + 1)
    BY <2>1, RecipesInOrder
  <2>3. QED
    BY <2>2 DEF MS!TypeOK
<1>2. FactsAreAnswers' /\ ReleasesSoFar'
    BY NothingAsked
<1>3. AskedInOrder'
  <2>1. recipe \in 1..(Len(Recipes) + 1)
    BY DEF MS!TypeOK
  <2>2. 1..(recipe - 1) \subseteq 1..(recipe' - 1)
    BY <2>1, RecipesInOrder
  <2>3. QED
    BY <2>2 DEF AskedInOrder, MS!Machine, MS!Provided
<1>4. Gathered' /\ Complete' /\ AllMachines' /\ FilesAreOfTheSummary' /\ Ending'
    BY EmptyIs DEF Gathered, Rendered, Complete, AllMachines, FilesAreOfTheSummary, Ending,
       MS!Provided
<1>5. QED
    BY <1>1, <1>2, <1>3, <1>4

\* An exception that nothing catches: the script ends with nothing written.
LEMMA GatherRaisesStep ==
    ASSUME MS!Assumptions, SummaryInv, MS!GatherRaises
    PROVE  SummaryInv'
<1>1. /\ summaryPc = "gather" /\ summaryPc' = "done" /\ summaryOutcome' = "raised"
      /\ UNCHANGED <<machine, recipe, to_check, upstreams, versions, output, format,
                     written, cut, facts>>
    BY DEF MS!GatherRaises, MS!Finish
<1>2. written = MS!Empty
    BY <1>1 DEF SummaryInv, FilesAreOfTheSummary
<1>3. FactsAreAnswers' /\ ReleasesSoFar'
    BY <1>1, NothingAsked DEF SummaryInv
<1>4. MS!TypeOK'
    BY <1>1 DEF SummaryInv, MS!TypeOK
<1>5. /\ AskedInOrder' /\ Gathered' /\ Complete' /\ AllMachines'
      /\ FilesAreOfTheSummary' /\ Ending'
    BY <1>1, <1>2, EmptyIs DEF AskedInOrder, Gathered, Rendered, Complete, AllMachines,
       FilesAreOfTheSummary, Ending
<1>6. QED
    BY <1>3, <1>4, <1>5 DEF SummaryInv

\* The answer about a recipe: a release that is found takes the recipe off the queue.
LEMMA GatherStep == ASSUME MS!Assumptions, SummaryInv, MS!Gather PROVE SummaryInv'
<1> USE DEF MS!Asking
<1>1. PICK answer \in Answers :
         /\ facts' = [facts EXCEPT ![MS!Machine] = MS!With(@, MS!Recipe, answer)]
         /\ MS!Lookup(answer.release)
         /\ IF MS!extract_patch_info(answer.patches)
            THEN /\ versions' =
                       [versions EXCEPT ![MS!Machine] = MS!With(@, MS!Recipe, MS!Details(answer))]
                 /\ recipe' = recipe + 1
                 /\ UNCHANGED <<summaryPc, summaryOutcome>>
            ELSE /\ summaryPc' = "done" /\ summaryOutcome' = "raised"
                 /\ UNCHANGED <<versions, recipe>>
    BY DEF MS!Gather, MS!Finish
<1>2. /\ summaryPc = "gather" /\ recipe <= Len(Recipes)
      /\ UNCHANGED <<machine, output, format, written, cut>>
    BY DEF MS!Gather
<1>3. /\ machine \in 1..Len(Machines) /\ recipe \in 1..Len(Recipes)
      /\ machine \in DOMAIN Machines
  <2>1. machine \in 1..Len(Machines)
    BY <1>2 DEF SummaryInv, AskedInOrder
  <2>2. recipe \in 1..(Len(Recipes) + 1)
    BY DEF SummaryInv, MS!TypeOK
  <2>3. QED
    BY <1>2, <2>1, <2>2, MachinesInOrder, RecipesInOrder
<1>0. MS!Machine \in MachineSet /\ MS!Recipe \in MS!RecipeSet
  BY <1>3, MachinesInOrder, RecipesInOrder DEF MS!Machine, MS!Recipe
<1> PICK M \in MachineSet, r0 \in MS!RecipeSet : M = MS!Machine /\ r0 = MS!Recipe
  BY <1>0
<1>4. M = Machines[machine] /\ r0 = Recipes[recipe] /\ M \in DOMAIN versions
  <2>1. machine \in 1..machine
    BY <1>3
  <2>2. M \in DOMAIN versions
    BY <1>2, <2>1 DEF SummaryInv, AskedInOrder, MS!Machine
  <2>3. QED
    BY <2>2 DEF MS!Machine, MS!Recipe
<1>5. DOMAIN facts = MachineSet
    BY DEF SummaryInv, FactsAreAnswers
<1>6. /\ DOMAIN facts' = MachineSet /\ facts'[M] = MS!With(facts[M], r0, answer)
      /\ \A m \in MachineSet \ {M} : facts'[m] = facts[m]
    BY <1>1, <1>4, <1>5
<1>7. /\ MS!Provided(M)' = MS!Provided(M) \cup {r0}
      /\ facts'[M][r0] = answer
      /\ \A r \in MS!Provided(M) \ {r0} : facts'[M][r] = facts[M][r]
  BY <1>6 DEF MS!Provided, MS!With
<1>8. \A m \in MachineSet \ {M} : DOMAIN facts'[m] = MS!Provided(m)
    BY <1>6 DEF MS!Provided
<1>9. r0 \notin MS!Provided(M)
  <2> SUFFICES ASSUME r0 \in MS!Provided(M) PROVE FALSE
    OBVIOUS
  <2>1. PICK j \in 1..(recipe - 1) : Recipes[j] = r0
    BY <1>2 DEF SummaryInv, AskedInOrder
  <2>2. j \in 1..Len(Recipes) /\ j # recipe
    BY <1>3, RecipesInOrder
  <2>3. QED
    BY <2>1, <2>2, <1>3, RecipesInOrder DEF MS!Recipe
<1>10. FactsAreAnswers'
  <2>1. \A m \in MachineSet : DOMAIN facts'[m] \subseteq MS!RecipeSet
    BY <1>4, <1>7, <1>8, <1>2 DEF SummaryInv, FactsAreAnswers, MS!Provided, MS!Machine
  <2>2. \A m \in MachineSet : \A r \in DOMAIN facts'[m] : facts'[m][r] \in Answers
    <3> SUFFICES ASSUME NEW m \in MachineSet, NEW r \in DOMAIN facts'[m]
                 PROVE  facts'[m][r] \in Answers
      OBVIOUS
    <3>1. CASE m # M
      BY <3>1, <1>6 DEF SummaryInv, FactsAreAnswers, MS!Provided
    <3>2. CASE m = M /\ r = r0
      BY <3>2, <1>7
    <3>3. CASE m = M /\ r # r0
      BY <3>3, <1>2, <1>4, <1>7 DEF SummaryInv, FactsAreAnswers, MS!Provided, MS!Machine
    <3>4. QED
      BY <3>1, <3>2, <3>3
  <2>3. QED
    BY <1>6, <2>1, <2>2 DEF FactsAreAnswers, MS!Provided

<1>11. AskedInOrder'
  <2> SUFFICES ASSUME summaryPc' = "gather" PROVE AskedInOrder'
    BY DEF AskedInOrder
  <2>1. recipe' = recipe + 1 /\ DOMAIN versions' = DOMAIN versions
    BY <1>1
  <2>2. DOMAIN versions' = {Machines[k] : k \in 1..machine'}
    BY <1>2, <2>1 DEF SummaryInv, AskedInOrder
  <2>3. MS!Provided(M)' \subseteq {Recipes[j] : j \in 1..recipe}
    <3>1. {Recipes[j] : j \in 1..(recipe - 1)} \subseteq {Recipes[j] : j \in 1..recipe}
      BY <1>3
    <3>2. r0 \in {Recipes[j] : j \in 1..recipe}
      BY <1>3 DEF MS!Recipe
    <3>3. QED
      BY <3>1, <3>2, <1>2, <1>7 DEF SummaryInv, AskedInOrder
  <2>4. (recipe + 1) - 1 = recipe
    BY <1>3
  <2>5. \A k \in (machine + 1)..Len(Machines) : MS!Provided(Machines[k])' = {}
    <3> SUFFICES ASSUME NEW k \in (machine + 1)..Len(Machines)
                 PROVE  DOMAIN facts'[Machines[k]] = {}
      BY DEF MS!Provided
    <3>1. k \in 1..Len(Machines) /\ k # machine
      BY <1>3
    <3>2. Machines[k] \in MachineSet \ {M}
      BY <3>1, <1>3, MachinesInOrder DEF MS!Machine
    <3>3. MS!Provided(Machines[k]) = {}
      BY <1>2 DEF SummaryInv, AskedInOrder
    <3>4. QED
      BY <3>2, <3>3, <1>8
  <2>6. QED
    BY <1>2, <1>3, <2>1, <2>2, <2>3, <2>4, <2>5 DEF AskedInOrder, MS!Machine
<1>12. /\ \A r \in MS!RecipeSet \ {r0} : MS!Finders(r)' = MS!Finders(r)
       /\ MS!Finders(r0)' = MS!Finders(r0)
                              \cup (IF answer.release = MS!NoRelease THEN {} ELSE {machine})
       /\ machine \notin MS!Finders(r0)
       /\ \A n \in MS!Finders(r0) : n < machine
       /\ \A r \in MS!RecipeSet : \A n \in MS!Finders(r) :
            facts'[Machines[n]][r] = facts[Machines[n]][r]
  <2>1. \A n \in DOMAIN Machines : n # machine => Machines[n] \in MachineSet \ {M}
    BY <1>3, <1>4, MachinesInOrder
  <2>2. ASSUME NEW n \in DOMAIN Machines, NEW r \in MS!RecipeSet, n # machine \/ r # r0
        PROVE  /\ r \in DOMAIN facts'[Machines[n]] <=> r \in DOMAIN facts[Machines[n]]
               /\ r \in DOMAIN facts[Machines[n]] =>
                    facts'[Machines[n]][r] = facts[Machines[n]][r]
    <3>1. CASE n # machine
      BY <2>1, <3>1, <1>6
    <3>2. CASE n = machine /\ r # r0
      <4>1. Machines[n] = M
        BY <3>2, <1>4
      <4>2. /\ DOMAIN facts'[Machines[n]] = DOMAIN facts[Machines[n]] \cup {r0}
            /\ \A q \in DOMAIN facts[Machines[n]] \ {r0} :
                 facts'[Machines[n]][q] = facts[Machines[n]][q]
        BY <4>1, <1>6 DEF MS!With
      <4>3. QED
        BY <4>2, <3>2
    <3>3. QED
      BY <2>2, <3>1, <3>2
  <2>3. machine \notin MS!Finders(r0)
    BY <1>4, <1>9 DEF MS!Finders
  <2>4. \A n \in MS!Finders(r0) : n < machine
    <3> SUFFICES ASSUME NEW n \in MS!Finders(r0), ~(n < machine) PROVE FALSE
      OBVIOUS
    <3>1. n \in 1..Len(Machines) /\ r0 \in MS!Provided(Machines[n])
      BY MachinesInOrder DEF MS!Finders
    <3>2. n \in (machine + 1)..Len(Machines)
      BY <2>3, <3>1, <1>3
    <3>3. QED
      BY <3>1, <3>2, <1>2 DEF SummaryInv, AskedInOrder
  <2>5. \A r \in MS!RecipeSet \ {r0} : MS!Finders(r)' = MS!Finders(r)
    BY <2>2 DEF MS!Finders, MS!Provided
  <2>6. \A n \in DOMAIN Machines :
          n # machine => (n \in MS!Finders(r0)' <=> n \in MS!Finders(r0))
    BY <2>2 DEF MS!Finders, MS!Provided
  <2>7. machine \in MS!Finders(r0)' <=> answer.release # MS!NoRelease
    <3>1. r0 \in DOMAIN facts'[Machines[machine]] /\ facts'[Machines[machine]][r0] = answer
      BY <1>4, <1>7 DEF MS!Provided
    <3>2. QED
      BY <3>1, <1>3 DEF MS!Finders, MS!Provided
  <2>8. MS!Finders(r0)' \subseteq DOMAIN Machines /\ MS!Finders(r0) \subseteq DOMAIN Machines
    BY DEF MS!Finders
  <2>9. MS!Finders(r0)' = MS!Finders(r0)
                            \cup (IF answer.release = MS!NoRelease THEN {} ELSE {machine})
    <3>1. \A n : n \in MS!Finders(r0)' <=>
                   n \in MS!Finders(r0) \/ (n = machine /\ answer.release # MS!NoRelease)
      BY <2>3, <2>6, <2>7, <2>8
    <3>2. QED
      BY <3>1
  <2>10. \A r \in MS!RecipeSet : \A n \in MS!Finders(r) :
           facts'[Machines[n]][r] = facts[Machines[n]][r]
    <3> SUFFICES ASSUME NEW r \in MS!RecipeSet, NEW n \in MS!Finders(r)
                 PROVE  facts'[Machines[n]][r] = facts[Machines[n]][r]
      OBVIOUS
    <3>1. n \in DOMAIN Machines /\ r \in DOMAIN facts[Machines[n]]
      BY DEF MS!Finders, MS!Provided
    <3>2. n # machine \/ r # r0
      BY <2>3
    <3>3. QED
      BY <2>2, <3>1, <3>2
  <2>11. QED
    BY <2>3, <2>4, <2>5, <2>9, <2>10
<1>13. /\ to_check \subseteq MS!RecipeSet /\ DOMAIN upstreams = MS!RecipeSet \ to_check
       /\ \A r \in DOMAIN upstreams : upstreams[r] \in Bases
  BY DEF SummaryInv, MS!TypeOK
<1>14. /\ to_check' \subseteq MS!RecipeSet /\ DOMAIN upstreams' = MS!RecipeSet \ to_check'
       /\ \A r \in DOMAIN upstreams' : upstreams'[r] \in Bases
       /\ \A r \in MS!RecipeSet \ {r0} : r \in to_check' <=> r \in to_check
       /\ \A r \in DOMAIN upstreams : upstreams'[r] = upstreams[r]
       /\ r0 \in to_check' <=> r0 \in to_check /\ answer.release = MS!NoRelease
       /\ r0 \in to_check /\ r0 \notin to_check' => upstreams'[r0] = answer.release
  <2>1. CASE r0 \in to_check /\ answer.release # MS!NoRelease
    <3>1. upstreams' = MS!With(upstreams, r0, answer.release) /\ to_check' = to_check \ {r0}
      BY <1>1, <2>1 DEF MS!Lookup
    <3>2. answer.release \in Bases
      BY <2>1 DEF MS!Assumptions
    <3>3. DOMAIN upstreams' = MS!RecipeSet \ to_check'
      BY <3>1, <1>4, <1>13 DEF MS!With
    <3>4. r0 \notin DOMAIN upstreams
      BY <2>1, <1>13
    <3>5. /\ \A r \in DOMAIN upstreams : upstreams'[r] = upstreams[r]
          /\ upstreams'[r0] = answer.release
      BY <3>1, <3>4 DEF MS!With
    <3>6. QED
      BY <2>1, <3>1, <3>2, <3>3, <3>5, <1>13
  <2>2. CASE ~(r0 \in to_check /\ answer.release # MS!NoRelease)
    BY <1>1, <1>13, <2>2 DEF MS!Lookup
  <2>3. QED
    BY <2>1, <2>2
<1>15. ReleasesSoFar'
  <2> SUFFICES ASSUME NEW r \in MS!RecipeSet
               PROVE  /\ r \in to_check' => MS!Finders(r)' = {}
                      /\ r \notin to_check' =>
                           \E n \in DOMAIN Machines :
                             /\ n \in MS!Finders(r)' /\ \A k \in MS!Finders(r)' : n <= k
                             /\ upstreams'[r] = facts'[Machines[n]][r].release
    BY DEF ReleasesSoFar, FirstFinder
  <2>1. r \in to_check => MS!Finders(r) = {}
    BY DEF SummaryInv, ReleasesSoFar
  <2>2. ASSUME r \notin to_check
        PROVE  \E n \in DOMAIN Machines :
                 /\ n \in MS!Finders(r) /\ \A k \in MS!Finders(r) : n <= k
                 /\ upstreams'[r] = facts'[Machines[n]][r].release
    <3>1. PICK n \in DOMAIN Machines :
            FirstFinder(n, r) /\ upstreams[r] = facts[Machines[n]][r].release
      BY <2>2 DEF SummaryInv, ReleasesSoFar
    <3>2. upstreams'[r] = upstreams[r]
      BY <2>2, <1>13, <1>14
    <3>3. QED
      BY <3>1, <3>2, <1>12 DEF FirstFinder
  <2>3. CASE r # r0
    BY <2>1, <2>2, <2>3, <1>12, <1>14
  <2>4. CASE r = r0 /\ r0 \in to_check
    <3>1. CASE answer.release = MS!NoRelease
      BY <2>1, <2>4, <3>1, <1>12, <1>14
    <3>2. CASE answer.release # MS!NoRelease
      <4>1. MS!Finders(r0)' = {machine}
        BY <2>1, <2>4, <3>2, <1>12
      <4>2. upstreams'[r0] = answer.release /\ r0 \notin to_check'
        BY <2>4, <3>2, <1>14
      <4>3. facts'[Machines[machine]][r0].release = answer.release
        BY <1>4, <1>7
      <4>4. machine <= machine
        BY <1>3
      <4>5. QED
        BY <4>1, <4>2, <4>3, <4>4, <2>4, <1>3
    <3>3. QED
      BY <3>1, <3>2
  <2>5. CASE r = r0 /\ r0 \notin to_check
    <3>1. PICK n \in DOMAIN Machines :
            /\ n \in MS!Finders(r) /\ \A k \in MS!Finders(r) : n <= k
            /\ upstreams'[r] = facts'[Machines[n]][r].release
      BY <2>2, <2>5
    <3>2. n < machine /\ n \in Int /\ machine \in Int
      BY <3>1, <2>5, <1>12, <1>3, MachinesInOrder
    <3>3. n <= machine
      BY <3>2
    <3>4. n \in MS!Finders(r)' /\ \A k \in MS!Finders(r)' : n <= k
      BY <3>1, <3>3, <2>5, <1>12
    <3>5. r \notin to_check'
      BY <2>5, <1>14
    <3>6. QED
      BY <3>1, <3>4, <3>5
  <2>6. QED
    BY <2>3, <2>4, <2>5
<1>16. MS!TypeOK'
  <2>1. summaryPc' \in {"gather", "done"} /\ summaryOutcome' \in {"running", "raised"}
    <3>1. summaryOutcome = "running"
      BY <1>2 DEF SummaryInv, Ending
    <3>2. QED
      BY <1>1, <1>2, <3>1
  <2>2. recipe' \in 1..(Len(Recipes) + 1)
    BY <1>1, <1>3, RecipesInOrder
  <2>3. DOMAIN versions' = DOMAIN versions
    BY <1>1
  <2>4. \A m \in DOMAIN versions' : DOMAIN versions'[m] \subseteq MS!RecipeSet
    <3>1. \A m \in DOMAIN versions : DOMAIN versions[m] \subseteq MS!RecipeSet
      BY DEF SummaryInv, MS!TypeOK
    <3>2. CASE UNCHANGED versions
      BY <3>1, <3>2
    <3>3. CASE versions' =
                  [versions EXCEPT ![MS!Machine] = MS!With(@, MS!Recipe, MS!Details(answer))]
      BY <3>1, <3>3, <1>4 DEF MS!With
    <3>4. QED
      BY <1>1, <3>2, <3>3
  <2>5. QED
    BY <1>2, <1>14, <2>1, <2>2, <2>3, <2>4 DEF SummaryInv, MS!TypeOK
<1>17. Gathered'
  <2> SUFFICES ASSUME summaryPc' \in {"gather", "backfill"}, NEW m \in DOMAIN versions'
               PROVE  /\ DOMAIN versions'[m] = DOMAIN facts'[m]
                      /\ \A r \in DOMAIN facts'[m] : RowIsGathered(versions'[m][r], facts'[m][r])
    BY DEF Gathered, MS!Provided, RowIsGathered
  <2>1. versions' = [versions EXCEPT ![M] = MS!With(@, r0, MS!Details(answer))]
    BY <1>1
  <2>2. m \in DOMAIN versions /\ m \in MachineSet
    BY <2>1 DEF SummaryInv, MS!TypeOK, MachineSet
  <2>3. /\ DOMAIN versions[m] = DOMAIN facts[m]
        /\ \A r \in DOMAIN facts[m] : RowIsGathered(versions[m][r], facts[m][r])
    BY <1>2, <2>2 DEF SummaryInv, Gathered, MS!Provided
  <2>4. CASE m # M
    BY <2>1, <2>2, <2>3, <2>4, <1>6
  <2>5. CASE m = M
    <3>1. /\ versions'[m] = MS!With(versions[m], r0, MS!Details(answer))
          /\ facts'[m] = MS!With(facts[m], r0, answer)
      BY <2>1, <2>2, <2>5, <1>6
    <3>2. RowIsGathered(MS!Details(answer), answer)
      BY DEF RowIsGathered, MS!Details
    <3>3. /\ DOMAIN versions'[m] = DOMAIN versions[m] \cup {r0}
          /\ DOMAIN facts'[m] = DOMAIN facts[m] \cup {r0}
          /\ versions'[m][r0] = MS!Details(answer) /\ facts'[m][r0] = answer
          /\ \A r \in DOMAIN versions[m] \ {r0} : versions'[m][r] = versions[m][r]
          /\ \A r \in DOMAIN facts[m] \ {r0} : facts'[m][r] = facts[m][r]
      BY <3>1 DEF MS!With
    <3>4. QED
      BY <2>3, <3>2, <3>3
  <2>6. QED
    BY <2>4, <2>5
<1>18. Complete' /\ AllMachines' /\ FilesAreOfTheSummary' /\ Ending'
  <2>1. summaryOutcome = "running" /\ written = MS!Empty
    BY <1>2 DEF SummaryInv, Ending, FilesAreOfTheSummary
  <2>2. \/ summaryPc' = "gather" /\ summaryOutcome' = "running"
        \/ summaryPc' = "done" /\ summaryOutcome' = "raised"
    <3>1. CASE MS!extract_patch_info(answer.patches)
      BY <1>1, <1>2, <2>1, <3>1
    <3>2. CASE ~MS!extract_patch_info(answer.patches)
      BY <1>1, <3>2
    <3>3. QED
      BY <3>1, <3>2
  <2>3. QED
    BY <1>2, <2>1, <2>2, EmptyIs
       DEF SummaryInv, Rendered, Complete, AllMachines, FilesAreOfTheSummary, Ending
<1>19. QED
  BY <1>10, <1>11, <1>15, <1>16, <1>17, <1>18 DEF SummaryInv

LEMMA NextMachineStep == ASSUME MS!Assumptions, SummaryInv, MS!NextMachine PROVE SummaryInv'
<1>1. /\ summaryPc = "gather" /\ recipe > Len(Recipes) /\ machine \in 1..Len(Machines)
      /\ summaryOutcome = "running" /\ written = MS!Empty /\ cut = "none"
      /\ UNCHANGED <<to_check, upstreams, output, format, written, cut, summaryOutcome,
                     facts>>
  BY DEF SummaryInv, MS!NextMachine, AskedInOrder, Ending, FilesAreOfTheSummary
<1>2. FactsAreAnswers' /\ ReleasesSoFar'
  BY <1>1, NothingAsked DEF SummaryInv
<1>3. CASE machine < Len(Machines)
  <2>1. /\ versions' = MS!With(versions, Machines[machine + 1], MS!Empty)
        /\ machine' = machine + 1 /\ recipe' = 1 /\ summaryPc' = "gather"
    BY <1>1, <1>3 DEF MS!NextMachine
  <2>2. /\ machine' \in 1..Len(Machines) /\ machine' \in 1..(Len(Machines) + 1)
        /\ 1 \in 1..(Len(Recipes) + 1)
    BY <1>1, <1>3, <2>1, MachinesInOrder, RecipesInOrder
  <2>3. PICK M \in MachineSet : M = Machines[machine + 1]
    BY <2>1, <2>2, MachinesInOrder
  <2>4. /\ DOMAIN versions' = DOMAIN versions \cup {M}
        /\ versions'[M] = MS!Empty
        /\ \A m \in DOMAIN versions \ {M} : versions'[m] = versions[m]
    BY <2>1, <2>3 DEF MS!With
  <2>5. \A k \in (machine + 1)..Len(Machines) : MS!Provided(Machines[k]) = {}
    BY <1>1 DEF SummaryInv, AskedInOrder
  <2>6. MS!Provided(M) = {}
    <3>1. machine + 1 \in (machine + 1)..Len(Machines)
      BY <1>1, <1>3, MachinesInOrder
    <3>2. QED
      BY <2>3, <2>5, <3>1
  <2>7. MS!TypeOK'
    BY <1>1, <2>1, <2>2, <2>4, EmptyIs DEF SummaryInv, MS!TypeOK, MachineSet
  <2>8. AskedInOrder'
    <3>1. DOMAIN versions' = {Machines[k] : k \in 1..machine'}
      <4>1. DOMAIN versions = {Machines[k] : k \in 1..machine}
        BY <1>1 DEF SummaryInv, AskedInOrder
      <4>2. 1..(machine + 1) = (1..machine) \cup {machine + 1}
        BY <1>1
      <4>3. QED
        BY <2>1, <2>3, <2>4, <4>1, <4>2
    <3>2. Machines[machine'] = M
      BY <2>1, <2>3
    <3>3. \A k \in (machine' + 1)..Len(Machines) : DOMAIN facts'[Machines[k]] = {}
      <4>1. \A k \in (machine' + 1)..Len(Machines) : k \in (machine + 1)..Len(Machines)
        BY <1>1, <2>1, MachinesInOrder
      <4>2. QED
        BY <1>1, <2>5, <4>1 DEF MS!Provided
    <3>4. DOMAIN facts'[Machines[machine']] = {}
      BY <1>1, <2>6, <3>2 DEF MS!Provided
    <3>5. QED
      BY <2>2, <3>1, <3>3, <3>4 DEF AskedInOrder, MS!Provided, MS!Machine
  <2>9. Gathered'
    <3> SUFFICES ASSUME NEW m \in DOMAIN versions'
                 PROVE  /\ DOMAIN versions'[m] = DOMAIN facts[m]
                        /\ \A r \in DOMAIN facts[m] : RowIsGathered(versions'[m][r], facts[m][r])
      BY <1>1 DEF Gathered, MS!Provided, RowIsGathered
    <3>1. CASE m = M
      BY <2>4, <2>6, <3>1, EmptyIs DEF MS!Provided
    <3>2. CASE m # M
      BY <1>1, <2>4, <3>2 DEF SummaryInv, Gathered, MS!Provided
    <3>3. QED
      BY <3>1, <3>2
  <2>10. Complete' /\ AllMachines' /\ FilesAreOfTheSummary' /\ Ending'
    BY <1>1, <2>1, EmptyIs
       DEF Rendered, Complete, AllMachines, FilesAreOfTheSummary, Ending
  <2>11. QED
    BY <1>2, <2>7, <2>8, <2>9, <2>10 DEF SummaryInv
<1>4. CASE ~(machine < Len(Machines))
  <2>1. summaryPc' = "backfill" /\ UNCHANGED <<machine, recipe, versions>>
    BY <1>4 DEF MS!NextMachine
  <2>2. machine = Len(Machines)
    <3>1. machine \in 1..Len(Machines)
      BY <1>1
    <3>2. Len(Machines) \in Nat
      BY MachinesInOrder
    <3>3. QED
      BY <1>4, <3>1, <3>2
  <2>3. DOMAIN versions = MachineSet
    BY <1>1, <2>2, MachinesInOrder DEF SummaryInv, AskedInOrder
  <2>4. MS!TypeOK'
    BY <1>1, <2>1 DEF SummaryInv, MS!TypeOK
  <2>5. Gathered'
    BY <1>1, <2>1 DEF SummaryInv, Gathered, MS!Provided, RowIsGathered
  <2>6. /\ AskedInOrder' /\ Complete' /\ AllMachines' /\ FilesAreOfTheSummary'
        /\ Ending'
    BY <1>1, <2>1, <2>3, EmptyIs
       DEF AskedInOrder, Rendered, Complete, AllMachines, FilesAreOfTheSummary, Ending
  <2>7. QED
    BY <1>2, <2>4, <2>5, <2>6 DEF SummaryInv
<1>5. QED
  BY <1>3, <1>4

\* The upstream versions are those of the first finders; a recipe without one has
\* been found by no machine.
LEMMA BackfillStep == ASSUME MS!Assumptions, SummaryInv, MS!Backfill PROVE SummaryInv'
<1>1. /\ summaryPc = "backfill" /\ summaryOutcome = "running" /\ written = MS!Empty
      /\ DOMAIN versions = MachineSet /\ cut = "none"
      /\ UNCHANGED <<machine, recipe, to_check, upstreams, output, format, written, cut,
                     facts>>
  BY DEF SummaryInv, MS!Backfill, Ending, AllMachines, FilesAreOfTheSummary
<1>2. FactsAreAnswers' /\ ReleasesSoFar'
  BY <1>1, NothingAsked DEF SummaryInv
<1>3. \A m \in MachineSet :
        /\ DOMAIN versions[m] = MS!Provided(m)
        /\ \A r \in MS!Provided(m) : RowIsGathered(versions[m][r], facts[m][r])
  BY <1>1 DEF SummaryInv, Gathered
<1>4. /\ DOMAIN upstreams = MS!RecipeSet \ to_check
      /\ \A m \in MachineSet : DOMAIN versions[m] \subseteq MS!RecipeSet
  BY <1>1 DEF SummaryInv, MS!TypeOK
<1>5. CASE \A m \in DOMAIN versions : DOMAIN versions[m] \subseteq DOMAIN upstreams
  <2>1. /\ versions' = [m \in DOMAIN versions |->
                          [r \in DOMAIN versions[m] |-> MS!Filled(versions[m][r], upstreams[r])]]
        /\ summaryPc' = "index" /\ summaryOutcome' = "running"
    BY <1>1, <1>5 DEF MS!Backfill
  <2>2. /\ DOMAIN versions' = MachineSet
        /\ \A m \in MachineSet :
             /\ DOMAIN versions'[m] = DOMAIN versions[m]
             /\ \A r \in DOMAIN versions[m] :
                  versions'[m][r] = MS!Filled(versions[m][r], upstreams[r])
    BY <1>1, <2>1
  <2>3. MS!TypeOK'
    BY <1>1, <1>4, <2>1, <2>2 DEF SummaryInv, MS!TypeOK, MachineSet
  <2>4. ASSUME NEW m \in MachineSet, NEW r \in MS!Provided(m)
        PROVE  MS!RowIsRight(MS!Filled(versions[m][r], upstreams[r]), m, r)
    <3>1. r \in DOMAIN upstreams /\ r \in MS!RecipeSet /\ r \notin to_check
      BY <1>1, <1>3, <1>4, <1>5
    <3>2. PICK first \in DOMAIN Machines :
            FirstFinder(first, r) /\ upstreams[r] = facts[Machines[first]][r].release
      BY <3>1 DEF SummaryInv, ReleasesSoFar
    <3>3. upstreams[r] = MS!Release(r)
      BY <3>2, ReleaseOfFirst
    <3>4. facts[m][r] \in Answers
      BY DEF SummaryInv, FactsAreAnswers
    <3> DEFINE answer == facts[m][r]
               row == MS!Filled(versions[m][r], upstreams[r])
    <3>5. RowIsGathered(versions[m][r], answer)
      BY <1>3
    <3>6. /\ row.fullversion = answer.pv /\ row.upstream = MS!Release(r)
          /\ row.patches_safe = MS!safe_patches(answer.patches)
          /\ row.needs_update = MS!needs_update(MS!trim_pv(answer.pv), MS!Release(r))
      BY <3>3, <3>5 DEF MS!Filled, RowIsGathered
    <3>7. row.needs_update <=> answer.pv.base # MS!Release(r)
      BY <3>6 DEF MS!needs_update, MS!trim_pv
    <3>8. row.patches_safe <=>
            \A n \in DOMAIN answer.patches :
               answer.patches[n].status \in MS!SettledStatuses \cup {MS!Malformed}
      BY <3>4, <3>6, SafeIsSettled
    <3>9. QED
      BY <3>6, <3>7, <3>8 DEF MS!RowIsRight
  <2>5. Complete'
    <3>1. \A m \in MachineSet : DOMAIN versions'[m] = DOMAIN facts'[m]
      BY <1>1, <1>3, <2>2 DEF MS!Provided
    <3>2. ASSUME NEW m \in MachineSet, NEW r \in DOMAIN facts'[m]
          PROVE  MS!RowIsRight(versions[m][r], m, r)'
      <4>1. r \in MS!Provided(m) /\ r \in DOMAIN versions[m]
        BY <1>1, <1>3 DEF MS!Provided
      <4>2. versions'[m][r] = MS!Filled(versions[m][r], upstreams[r])
        BY <2>2, <4>1
      <4>3. QED
        BY <1>1, <2>4, <4>1, <4>2, SameRelease DEF MS!RowIsRight
    <3>3. QED
      BY <3>1, <3>2 DEF Complete, MS!Provided
  <2>6. /\ AskedInOrder' /\ Gathered' /\ AllMachines' /\ FilesAreOfTheSummary'
        /\ Ending'
    BY <1>1, <2>1, <2>2, EmptyIs
       DEF AskedInOrder, Gathered, AllMachines, FilesAreOfTheSummary, Ending
  <2>7. QED
    BY <1>2, <2>3, <2>5, <2>6 DEF SummaryInv
<1>6. CASE ~\A m \in DOMAIN versions : DOMAIN versions[m] \subseteq DOMAIN upstreams
  <2>1. summaryPc' = "done" /\ summaryOutcome' = "raised" /\ UNCHANGED versions
    BY <1>6 DEF MS!Backfill, MS!Finish
  <2>2. MS!TypeOK'
    BY <1>1, <2>1 DEF SummaryInv, MS!TypeOK
  <2>3. /\ AskedInOrder' /\ Gathered' /\ Complete' /\ AllMachines' /\ FilesAreOfTheSummary'
        /\ Ending'
    BY <1>1, <2>1, EmptyIs
       DEF AskedInOrder, Gathered, Rendered, Complete, AllMachines, FilesAreOfTheSummary,
           Ending
  <2>4. QED
    BY <1>2, <2>2, <2>3 DEF SummaryInv
<1>7. QED
  BY <1>5, <1>6

\* A step of the rendering leaves the answers and the summary as they are.
LEMMA RenderingKeeps ==
    ASSUME MS!Assumptions, SummaryInv, summaryPc \in {"index", "pages"},
           summaryPc' \in {"pages", "done"},
           UNCHANGED <<machine, recipe, to_check, upstreams, versions, format, facts>>
    PROVE  /\ FactsAreAnswers' /\ ReleasesSoFar' /\ AskedInOrder' /\ Gathered'
           /\ Complete' /\ AllMachines' /\ DOMAIN versions = MachineSet
<1>1. FactsAreAnswers' /\ ReleasesSoFar'
  BY NothingAsked DEF SummaryInv
<1>2. \A m \in MachineSet :
        /\ DOMAIN versions[m] = MS!Provided(m)
        /\ \A r \in MS!Provided(m) : MS!RowIsRight(versions[m][r], m, r)
  BY DEF SummaryInv, Complete, Rendered
<1>3. Complete'
  BY <1>2, SameRelease DEF Complete, MS!RowIsRight, MS!Provided
<1>4. DOMAIN versions = MachineSet
  BY DEF SummaryInv, AllMachines, Rendered
<1>5. QED
  BY <1>1, <1>3, <1>4 DEF AskedInOrder, Gathered, AllMachines

\* What is known of the files when the rendering goes on.
LEMMA RenderingInv ==
    ASSUME MS!Assumptions, SummaryInv, summaryPc \in {"index", "pages"},
           summaryPc' \in {"pages", "done"},
           UNCHANGED <<machine, recipe, to_check, upstreams, versions, format, facts>>,
           output' \in {"absent", "file", "directory"},
           summaryOutcome' \in {"running", "ok", "raised", "exit 1"},
           DOMAIN written' \subseteq {"index"} \cup MachineSet,
           cut' \in {"none", "index"} \cup MachineSet,
           FilesAreOfTheSummary', Ending'
    PROVE  SummaryInv'
<1>1. MS!TypeOK'
  BY DEF SummaryInv, MS!TypeOK, MachineSet
<1>2. QED
  BY <1>1, RenderingKeeps DEF SummaryInv

\* A file that is not completed: the others stay.
LEMMA FileRaisesStep ==
    ASSUME MS!Assumptions, SummaryInv, summaryPc \in {"index", "pages"},
           NEW file \in {"index"} \cup MachineSet, MS!FileRaises(file),
           UNCHANGED <<machine, recipe, to_check, upstreams, versions, format, facts>>,
           output' \in {"absent", "file", "directory"}
    PROVE  SummaryInv'
<1>1. /\ cut' = cut \/ cut' = file
      /\ written' = written /\ summaryPc' = "done" /\ summaryOutcome' = "raised"
  BY DEF MS!FileRaises, MS!Finish
<1>2. cut' \in {"none", "index"} \cup MachineSet
  BY <1>1 DEF SummaryInv, MS!TypeOK, MachineSet
<1>3. DOMAIN written' \subseteq {"index"} \cup MachineSet
  BY <1>1 DEF SummaryInv, MS!TypeOK, MachineSet
<1>4. FilesAreOfTheSummary' /\ Ending'
  BY <1>1 DEF SummaryInv, FilesAreOfTheSummary, Ending
<1>5. QED
  BY <1>1, <1>2, <1>3, <1>4, RenderingInv

\* The rendering of the summary into one file, or into an index and pages.
LEMMA RenderOverviewStep ==
    ASSUME MS!Assumptions, SummaryInv, MS!RenderOverview
    PROVE  SummaryInv'
<1>1. /\ summaryPc = "index" /\ format = "overview.txt"
      /\ UNCHANGED <<machine, recipe, to_check, upstreams, versions, format, facts>>
  BY DEF MS!RenderOverview
<1>2. written = MS!Empty /\ cut = "none" /\ DOMAIN versions = MachineSet
  BY <1>1 DEF SummaryInv, FilesAreOfTheSummary, AllMachines, Rendered
<1>3. output \in {"absent", "file", "directory"}
  BY DEF SummaryInv, MS!TypeOK
<1>4. CASE /\ MS!WriteFile("index", versions) /\ output' = "file" /\ MS!Finish("ok")
  <2>1. /\ written' = MS!With(MS!Empty, "index", versions) /\ cut' = "none"
        /\ summaryPc' = "done" /\ summaryOutcome' = "ok"
    BY <1>2, <1>4 DEF MS!WriteFile, MS!Finish
  <2>2. DOMAIN written' = {"index"} /\ written'["index"] = versions
    BY <2>1 DEF MS!With, MS!Empty
  <2>3. MS!Files' = {"index"}
    BY <1>1 DEF MS!Files
  <2>4. FilesAreOfTheSummary' /\ Ending'
    BY <1>1, <2>1, <2>2, <2>3 DEF FilesAreOfTheSummary, Ending
  <2>5. QED
    BY <1>1, <1>4, <2>1, <2>2, <2>4, RenderingInv
<1>5. CASE MS!FileRaises("index") /\ output' = (IF cut' = "index" THEN "file" ELSE output)
  BY <1>1, <1>3, <1>5, FileRaisesStep
<1>6. QED
  BY <1>4, <1>5 DEF MS!RenderOverview

\* An output of the wrong kind.
LEMMA WrongOutputStep ==
    ASSUME MS!Assumptions, SummaryInv, MS!WrongOutput
    PROVE  SummaryInv'
<1>1. /\ summaryPc = "index" /\ summaryPc' = "done" /\ summaryOutcome' = "exit 1"
      /\ UNCHANGED <<machine, recipe, to_check, upstreams, versions, output, format,
                     written, cut, facts>>
  BY DEF MS!WrongOutput, MS!Finish
<1>2. /\ output' \in {"absent", "file", "directory"}
      /\ DOMAIN written' \subseteq {"index"} \cup MachineSet
      /\ cut' \in {"none", "index"} \cup MachineSet
  BY <1>1 DEF SummaryInv, MS!TypeOK, MachineSet
<1>3. FilesAreOfTheSummary' /\ Ending'
  BY <1>1 DEF SummaryInv, FilesAreOfTheSummary, Ending
<1>4. QED
  BY <1>1, <1>2, <1>3, RenderingInv

LEMMA RenderIndexStep == ASSUME MS!Assumptions, SummaryInv, MS!RenderIndex PROVE SummaryInv'
<1>1. /\ summaryPc = "index" /\ format = "report"
      /\ UNCHANGED <<machine, recipe, to_check, upstreams, versions, format, facts>>
  BY DEF MS!RenderIndex
<1>2. written = MS!Empty /\ cut = "none" /\ summaryOutcome = "running"
  BY <1>1 DEF SummaryInv, FilesAreOfTheSummary, Ending
<1>3. output \in {"absent", "file", "directory"}
  BY DEF SummaryInv, MS!TypeOK
<1>4. CASE /\ MS!WriteFile("index", versions) /\ summaryPc' = "pages"
           /\ UNCHANGED summaryOutcome /\ output' = "directory"
  <2>1. written' = MS!With(MS!Empty, "index", versions) /\ cut' = "none"
    BY <1>2, <1>4 DEF MS!WriteFile
  <2>2. DOMAIN written' = {"index"} /\ written'["index"] = versions
    BY <2>1 DEF MS!With, MS!Empty
  <2>3. FilesAreOfTheSummary' /\ Ending'
    BY <1>1, <1>2, <1>4, <2>1, <2>2 DEF FilesAreOfTheSummary, Ending
  <2>4. QED
    BY <1>1, <1>2, <1>4, <2>1, <2>2, <2>3, RenderingInv
<1>5. CASE MS!FileRaises("index") /\ output' = "directory"
  BY <1>1, <1>5, FileRaisesStep
<1>6. CASE MS!Finish("raised") /\ UNCHANGED <<output, written, cut>>
  <2>1. MS!FileRaises("index")
    BY <1>6 DEF MS!FileRaises
  <2>2. QED
    BY <1>1, <1>3, <1>6, <2>1, FileRaisesStep
<1>7. QED
  BY <1>4, <1>5, <1>6 DEF MS!RenderIndex

LEMMA RenderPageStep == ASSUME MS!Assumptions, SummaryInv, MS!RenderPage PROVE SummaryInv'
<1>1. PICK n \in DOMAIN Machines :
        /\ Machines[n] \notin DOMAIN written
        /\ \A k \in 1..(n - 1) : Machines[k] \in DOMAIN written
        /\ \/ /\ MS!WriteFile(Machines[n], versions[Machines[n]])
              /\ IF n = Len(Machines) THEN MS!Finish("ok")
                                      ELSE UNCHANGED <<summaryPc, summaryOutcome>>
           \/ MS!FileRaises(Machines[n])
  BY DEF MS!RenderPage
<1>2. /\ summaryPc = "pages"
      /\ UNCHANGED <<machine, recipe, to_check, upstreams, versions, output, format, facts>>
  BY DEF MS!RenderPage
<1>3. /\ summaryOutcome = "running" /\ cut = "none" /\ format = "report"
      /\ "index" \in DOMAIN written /\ written["index"] = versions
      /\ \A k \in DOMAIN written \ {"index"} : written[k] = versions[k]
  BY <1>2 DEF SummaryInv, Ending, FilesAreOfTheSummary
<1>4. /\ output \in {"absent", "file", "directory"}
      /\ DOMAIN written \subseteq {"index"} \cup MachineSet
  BY DEF SummaryInv, MS!TypeOK, MachineSet
<1>5. Machines[n] \in MachineSet /\ Machines[n] # "index"
  BY MachinesInOrder
<1>6. CASE /\ MS!WriteFile(Machines[n], versions[Machines[n]])
           /\ IF n = Len(Machines) THEN MS!Finish("ok")
                                   ELSE UNCHANGED <<summaryPc, summaryOutcome>>
  <2>1. /\ DOMAIN written' = DOMAIN written \cup {Machines[n]}
        /\ written'[Machines[n]] = versions[Machines[n]]
        /\ \A k \in DOMAIN written \ {Machines[n]} : written'[k] = written[k]
        /\ cut' = "none"
    BY <1>3, <1>6 DEF MS!WriteFile, MS!With
  <2>2. /\ "index" \in DOMAIN written' /\ written'["index"] = versions
        /\ \A k \in DOMAIN written' \ {"index"} : written'[k] = versions[k]
    BY <1>3, <1>5, <2>1
  <2>3. \/ n = Len(Machines) /\ summaryPc' = "done" /\ summaryOutcome' = "ok"
        \/ summaryPc' = "pages" /\ summaryOutcome' = "running"
    BY <1>2, <1>3, <1>6 DEF MS!Finish
  <2>4. n = Len(Machines) => MachineSet \subseteq DOMAIN written'
    <3>1. n = Len(Machines) => \A k \in 1..Len(Machines) : Machines[k] \in DOMAIN written'
      <4>1. Len(Machines) \in Nat
        BY MachinesInOrder
      <4>2. \A k \in 1..Len(Machines) : k = Len(Machines) \/ k \in 1..(Len(Machines) - 1)
        BY ONLY <4>1
      <4>3. QED
        BY <1>1, <2>1, <4>2
    <3>2. QED
      BY <3>1, MachinesInOrder
  <2>5. n = Len(Machines) => DOMAIN written' = MS!Files'
    BY <1>2, <1>3, <1>4, <1>5, <2>1, <2>4 DEF MS!Files, MachineSet
  <2>6. FilesAreOfTheSummary' /\ Ending'
    BY <1>2, <1>3, <2>1, <2>2, <2>3, <2>5 DEF FilesAreOfTheSummary, Ending
  <2>7. QED
    BY <1>2, <1>4, <1>5, <2>1, <2>3, <2>6, RenderingInv
<1>7. CASE MS!FileRaises(Machines[n])
  BY <1>2, <1>4, <1>5, <1>7, FileRaisesStep
<1>8. QED
  BY <1>1, <1>6, <1>7

LEMMA SummaryNextInv ==
    ASSUME MS!Assumptions, SummaryInv, [MS!Next]_(MS!vars)
    PROVE  SummaryInv'
<1>1. CASE UNCHANGED MS!vars
  <2>1. UNCHANGED <<summaryPc, machine, recipe, to_check, upstreams, versions, output, format,
                    written, cut, summaryOutcome, facts>>
    BY <1>1 DEF MS!vars
  <2>2. MS!TypeOK' /\ AskedInOrder' /\ AllMachines' /\ FilesAreOfTheSummary' /\ Ending'
    BY <2>1 DEF SummaryInv, MS!TypeOK, AskedInOrder, AllMachines, Rendered,
                FilesAreOfTheSummary, MS!Files, Ending, MS!Machine, MS!Provided
  <2>3. FactsAreAnswers' /\ ReleasesSoFar'
    BY <2>1, NothingAsked DEF SummaryInv
  <2>4. Gathered'
    BY <2>1 DEF SummaryInv, Gathered, MS!Provided, RowIsGathered
  <2>5. Complete'
    BY <2>1, SameRelease
       DEF SummaryInv, Complete, Rendered, MS!RowIsRight, MS!Provided
  <2>6. QED
    BY <2>2, <2>3, <2>4, <2>5 DEF SummaryInv
<1>2. QED
  BY <1>1, NoProviderStep, GatherStep, GatherRaisesStep, NextMachineStep, BackfillStep,
     RenderOverviewStep, WrongOutputStep, RenderIndexStep, RenderPageStep DEF MS!Next

-----------------------------------------------------------------------------
(***************************************************************************)
(* The theorems.                                                           *)
(***************************************************************************)
LEMMA SummaryInvariant == MS!Spec => []SummaryInv
<1>1. MS!Init => SummaryInv
  BY SummaryInit, HostToolsAssumption
<1>2. SummaryInv /\ [MS!Next]_(MS!vars) => SummaryInv'
  BY SummaryNextInv, HostToolsAssumption
<1>3. QED
  BY <1>1, <1>2, PTL DEF MS!Spec

\* The variables keep their types; a recipe has an upstream release exactly if it is
\* off the queue of harvest_data().
THEOREM SummaryTypeCorrect == MS!Spec => []MS!TypeOK
<1>1. SummaryInv => MS!TypeOK
  BY DEF SummaryInv
<1>2. QED
  BY <1>1, SummaryInvariant, PTL

\* A file that is complete has the recipes that are provided for each of its machines,
\* and its rows agree with all that BitBake and the network answered, also when the
\* script fails after it; a run that ends well has written all files.
THEOREM SummariesAreRight == MS!Spec => []SummaryIsRight
<1>1. SummaryInv => SummaryIsRight
  <2> SUFFICES ASSUME SummaryInv PROVE MS!SummaryIsRight
    BY DEF SummaryIsRight
  <2>1. summaryOutcome = "ok" => DOMAIN written = MS!Files /\ cut = "none"
    BY DEF SummaryInv, FilesAreOfTheSummary
  <2>2. DOMAIN written # {} =>
          /\ DOMAIN versions = MachineSet
          /\ \A m \in MachineSet : MS!TableIsRight(versions[m], m)
    BY DEF SummaryInv, AllMachines, Complete, Rendered, MS!TableIsRight
  <2>3. /\ "index" \in DOMAIN written => written["index"] = versions
        /\ \A m \in DOMAIN written \ {"index"} : written[m] = versions[m]
    BY DEF SummaryInv, FilesAreOfTheSummary
  <2>4. DOMAIN written \subseteq {"index"} \cup MachineSet
    BY DEF SummaryInv, MS!TypeOK, MachineSet
  <2>5. QED
    BY <2>1, <2>2, <2>3, <2>4 DEF MS!SummaryIsRight, MachineSet
<1>2. QED
  BY <1>1, SummaryInvariant, PTL

-----------------------------------------------------------------------------
(***************************************************************************)
(* Both tools on one host.                                                 *)
(***************************************************************************)
ToolsInv == SummaryInv /\ Inv

\* Both tools keep their types on one host: what one of them does leaves the state of
\* the other alone.
THEOREM ToolsTypeCorrect == ToolsSpec => []ToolsTypeOK
<1>1. ToolsInit => ToolsInv
  BY SummaryInit, InvInit, HostToolsAssumption DEF ToolsInit, ToolsInv
<1>2. ToolsInv /\ [ToolsNext]_toolVars => ToolsInv'
  <2> SUFFICES ASSUME ToolsInv, [ToolsNext]_toolVars PROVE ToolsInv'
    OBVIOUS
  <2>1. [MS!Next]_(MS!vars)
    BY DEF ToolsNext, SummaryNext, CapsuleNext, toolVars, summaryVars, MS!vars
  <2>2. [Next]_vars
    BY DEF ToolsNext, SummaryNext, CapsuleNext, toolVars
  <2>3. QED
    BY <2>1, <2>2, SummaryNextInv, InvNext, HostToolsAssumption DEF ToolsInv
<1>3. ToolsInv => ToolsTypeOK
  BY DEF ToolsInv, SummaryInv, Inv, ToolsTypeOK
<1>4. QED
  BY <1>1, <1>2, <1>3, PTL DEF ToolsSpec
=============================================================================
