---------------------------- MODULE AtomicUpdate ----------------------------
(***************************************************************************)
(* What a firmware update promises whoever owns the device: the firmware   *)
(* that the next boot runs is replaced as a whole, by exactly the images   *)
(* one capsule delivers and the old ones for the rest; until the new       *)
(* firmware is confirmed the old one is kept, and it comes back unchanged. *)
(***************************************************************************)
EXTENDS Integers

CONSTANTS
    Images,     \* the updatable images
    Versions,   \* numbers of the capsules
    PayloadSets \* the sets of images the capsules deliver

VARIABLES
    firmware,   \* [Images -> Versions]: what the next boot runs
    fallback,   \* what it would run if the trial failed
    onTrial     \* the firmware is not confirmed yet

vars == <<firmware, fallback, onTrial>>

Init ==
    /\ firmware = [i \in Images |-> 0]
    /\ fallback = firmware
    /\ onTrial = FALSE

\* A capsule of version v, newer than everything installed, takes effect.
Install(images, v) ==
    /\ ~onTrial
    /\ \A i \in Images : firmware[i] < v
    /\ firmware' = [i \in Images |-> IF i \in images THEN v ELSE firmware[i]]
    /\ fallback' = firmware
    /\ onTrial' = TRUE

Confirm ==
    /\ onTrial
    /\ onTrial' = FALSE
    /\ fallback' = firmware
    /\ UNCHANGED firmware

RollBack ==
    /\ onTrial
    /\ firmware' = fallback
    /\ onTrial' = FALSE
    /\ UNCHANGED fallback

Next ==
    \/ \E images \in PayloadSets, v \in Versions : Install(images, v)
    \/ Confirm
    \/ RollBack

Spec == Init /\ [][Next]_vars
===============================================================================
