---------------------------- MODULE MCHostTools ----------------------------
(* Small instance of HostTools: two machines and two recipes, two components *)
(* between the dummies.                                                      *)
EXTENDS HostTools

MCMachines == <<"fvp-base", "corstone1000-fvp">>
MCRecipes == <<"optee-os", "u-boot">>
Answer(base, git, patches, release) ==
    [pv |-> [base |-> base, git |-> git], patches |-> patches, release |-> release]
Patch(layer, status) == [layer |-> layer, status |-> status]

\* Releases and snapshots, older and as new as upstream; a lookup that fails;
\* patches that are safe and not, one with a status that is
\* none, and one outside of all layers.
MCAnswers ==
    {Answer(1, git, <<>>, release) : git \in {"", "+gitrevision"}, release \in 0..2}
      \cup {Answer(2, "+git", <<Patch("meta-arm", "Backport"), Patch("core", "Pending")>>, 2),
            Answer(2, "", <<Patch("meta-arm", "malformed")>>, 0),
            Answer(1, "", <<Patch("none", "Backport")>>, 1)}

MCComponents == <<"BL2", "FIP">>
\* Nothing selected, one, all in another order, and a name that is unknown.
MCSelections == {<<>>, <<"FIP">>, <<"FIP", "BL2">>, <<"BL2", "BL3">>}
=============================================================================
