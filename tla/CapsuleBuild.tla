---------------------------- MODULE CapsuleBuild ----------------------------
(***************************************************************************)
(* The capsule that FwuClient is given: do_image_uefi_capsule of           *)
(* meta-arm/classes/uefi_capsule.bbclass, with the variables that          *)
(* corstone1000-flash-firmware-image.bb sets and the JSON file that        *)
(* meta-arm/scripts/generate_capsule_json_multiple.py writes.              *)
(*                                                                         *)
(* The task runs again when the configuration has changed, in a directory  *)
(* that still has the JSON file and the capsule of the last build.  A      *)
(* value is named after the component it belongs to.                       *)
(***************************************************************************)
EXTENDS Integers, SequencesExt

CONSTANTS
    Components,  \* what is between DUMMY_START and DUMMY_END, in order
    Selections,  \* what CAPSULE_SELECTED_COMPONENTS may be set to
    MaxBuilds    \* bound: runs of the task

DUMMY_START == "DUMMY_START"
DUMMY_END == "DUMMY_END"

\* What the constants satisfy.
Assumptions ==
    /\ \A s \in Selections \cup {Components} : s \in Seq(Range(s))
    /\ MaxBuilds \in Nat
    /\ IsInjective(Components)
    /\ {DUMMY_START, DUMMY_END} \cap Range(Components) = {}

\* CAPSULE_ALL_COMPONENTS.
AllComponents == <<DUMMY_START>> \o Components \o <<DUMMY_END>>

\* A build: the user's selection, and the components for which a variable is
\* empty.  There is one key and one certificate for all; "fields" are the
\* versions, GUIDs, binaries and indexes, which each component has of its own.
Configurations ==
    [selection : Selections,
     keys : {{}, Range(AllComponents)}, certs : {{}, Range(AllComponents)},
     fields : SUBSET Range(AllComponents)]

VARIABLES
    pc,       \* where the task is, "idle" between two builds
    config,   \* the configuration of the build
    pems,     \* the signing PEM files: a key and a certificate each
    json,     \* CAPSULE_CONFIG_FILE: "absent", "torn" or "whole"
    payloads, \* what the JSON file lists when it is whole
    capsule,  \* the capsule in the deploy directory, <<>> for none
    outcome,  \* of the last build: "none", "done", "failed"
    unwritten,\* history: the JSON file of this build could not be written
    builds    \* builds so far

vars == <<pc, config, pems, json, payloads, capsule, outcome, unwritten, builds>>

Named(s) == \A n \in DOMAIN s : s[n].component \in Range(AllComponents)

TypeOK ==
    /\ pc \in {"idle", "pems", "script", "write", "tool"}
    /\ config \in Configurations
    /\ Len(pems) <= Len(AllComponents)
    /\ json \in {"absent", "torn", "whole"}
    /\ Named(payloads) /\ Named(capsule)
    /\ outcome \in {"none", "done", "failed"}
    /\ unwritten \in BOOLEAN
    /\ builds \in 0..MaxBuilds

Init ==
    /\ pc = "idle"
    /\ config \in {c \in Configurations : c.keys = {} /\ c.certs = {} /\ c.fields = {}}
    /\ pems = <<>>
    /\ json = "absent"
    /\ payloads = <<>> /\ capsule = <<>>
    /\ outcome = "none"
    /\ unwritten = FALSE
    /\ builds = 0

\* The components of T in their order, by their places: for i in range(num_payloads).
Places(T) ==
    LET upto[n \in 0..Len(AllComponents)] ==
          IF n = 0 THEN <<>>
          ELSE IF AllComponents[n] \in T THEN Append(upto[n - 1], n) ELSE upto[n - 1]
    IN  upto[Len(AllComponents)]

Chosen(places) == [k \in DOMAIN places |-> AllComponents[places[k]]]

\* The list a variable holds: the values that are not empty.
List(empty) == Chosen(Places(Range(AllComponents) \ empty))

\* CAPSULE_SELECTED_COMPONENTS += " DUMMY_START DUMMY_END"
Selected == config.selection \o <<DUMMY_START, DUMMY_END>>

Fail == pc' = "idle" /\ outcome' = "failed"

\* BitBake runs the task with a new configuration; the rebuild of the root file
\* system in between removes the JSON file with its directory.
Build ==
    /\ pc = "idle"
    /\ builds < MaxBuilds
    /\ config' \in Configurations
    /\ \/ UNCHANGED <<json, payloads>>
       \/ json' = "absent" /\ payloads' = <<>>
    /\ pc' = "pems"
    /\ outcome' = "none"
    /\ unwritten' = FALSE
    /\ builds' = builds + 1
    /\ UNCHANGED <<pems, capsule>>

\* The directory of PEM files is made anew; bbfatal when a key has no certificate
\* or a certificate no key.
MakePems ==
    /\ pc = "pems"
    /\ LET keys == List(config.keys)  certs == List(config.certs)
       IN  IF Len(keys) = Len(certs)
           THEN /\ pems' = [n \in DOMAIN keys |-> [key |-> keys[n], cert |-> certs[n]]]
                /\ pc' = "script" /\ UNCHANGED outcome
           ELSE Fail /\ UNCHANGED pems
    /\ UNCHANGED <<config, json, payloads, capsule, unwritten, builds>>

-----------------------------------------------------------------------------
(* generate_capsule_json_multiple.py *)

\* argparse wants at least one value for each list, and validate_input_lengths()
\* as many for each of them.
ListsAreValid ==
    LET lengths == {Len(AllComponents), Len(pems), Len(List(config.certs)),
                    Len(List(config.fields))}
    IN  0 \notin lengths /\ Cardinality(lengths) = 1

Included == {c \in Range(AllComponents) : Selected = <<>> \/ Contains(Selected, c)}

Payload(n) ==
    [component |-> AllComponents[n], pem |-> pems[n],
     certificate |-> List(config.certs)[n], fields |-> List(config.fields)[n]]

\* Mutant: the selection decides about the order.
PayloadsAsSelected ==
    LET known == SelectSeq(Selected, LAMBDA c : Contains(AllComponents, c))
    IN  [k \in DOMAIN known |->
            Payload(CHOOSE n \in DOMAIN AllComponents : AllComponents[n] = known[k])]

\* Mutant: the values are taken by the place in the capsule.
PayloadsByPlace ==
    LET kept == Chosen(Places(Included))
    IN  [k \in DOMAIN kept |-> [Payload(k) EXCEPT !.component = kept[k]]]

\* create_payloads(): in the order of the components; a name in the selection
\* that is not a component is passed over.
CreatePayloads ==
    LET places == Places(Included)
    IN  [k \in DOMAIN places |-> Payload(places[k])]

\* parse_arguments() and validate_input_lengths(), and the ValueError of
\* create_payloads().
CheckArguments ==
    /\ pc = "script"
    /\ IF ListsAreValid /\ CreatePayloads # <<>>
       THEN pc' = "write" /\ UNCHANGED outcome
       ELSE Fail
    /\ UNCHANGED <<config, pems, json, payloads, capsule, unwritten, builds>>

\* write_json_file() truncates the file and writes it.  An OSError is printed and
\* the script ends with 0: the file is as it was, or torn.
WriteJsonFile ==
    /\ pc = "write"
    /\ \/ json' = "whole" /\ payloads' = CreatePayloads /\ UNCHANGED unwritten
       \/ json' = "torn" /\ payloads' = <<>> /\ unwritten' = TRUE
       \/ UNCHANGED <<json, payloads>> /\ unwritten' = TRUE
    /\ pc' = "tool"
    /\ UNCHANGED <<config, pems, capsule, outcome, builds>>

\* GenerateCapsule takes the JSON file that is there, with the PEM files and the
\* binaries of now; it fails when there is none or it is torn, or on its own.
GenerateCapsule ==
    /\ pc = "tool"
    /\ \/ json = "whole" /\ capsule' = payloads /\ pc' = "idle" /\ outcome' = "done"
       \/ Fail /\ UNCHANGED capsule
    /\ UNCHANGED <<config, pems, json, payloads, unwritten, builds>>

Next == Build \/ MakePems \/ CheckArguments \/ WriteJsonFile \/ GenerateCapsule

Spec == Init /\ [][Next]_vars

-----------------------------------------------------------------------------
(* Properties. *)

Place(c) == CHOOSE n \in DOMAIN AllComponents : AllComponents[n] = c

\* A build that succeeded and could write its JSON file deploys a capsule of
\* exactly the components selected for this build, not of an earlier one, in the
\* order of all components, each once, and each payload has the key, certificate
\* and fields of its own component.
CapsuleIsOfThisBuild ==
    outcome = "done" /\ ~unwritten =>
        /\ {capsule[n].component : n \in DOMAIN capsule} =
              Range(AllComponents) \cap Range(Selected)
        /\ \A n, m \in DOMAIN capsule : n < m =>
             Place(capsule[n].component) < Place(capsule[m].component)
        /\ \A n \in DOMAIN capsule :
             LET c == capsule[n].component
             IN  capsule[n] = [component |-> c, pem |-> [key |-> c, cert |-> c],
                               certificate |-> c, fields |-> c]

\* Every capsule that is ever deployed is one the client can take, whatever was
\* selected, in whatever order, and whichever writes have failed: it begins with
\* the start payload and ends with the end payload, and has them only there.
\* This is the assumption FwuClient makes of the capsules it is given.
CapsuleIsWellFormed ==
    capsule # <<>> =>
        \A n \in DOMAIN capsule :
            /\ capsule[n].component = DUMMY_START <=> n = 1
            /\ capsule[n].component = DUMMY_END <=> n = Len(capsule)
=============================================================================
