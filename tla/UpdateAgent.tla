----------------------------- MODULE UpdateAgent -----------------------------
(***************************************************************************)
(* The Update Agent and its firmware store, in the Secure world: the other *)
(* side of every ABI that fwu_arm_psa.c of U-Boot invokes.  The agent is   *)
(* not in this repository; what it may do is taken from how the client     *)
(* uses it: the request and response structures, the meaning the client's  *)
(* err_msg_map gives to each error, and the description of the two flash   *)
(* banks in documentation/corstone1000/software-architecture.rst.          *)
(*                                                                         *)
(* The agent is deliberately lenient: END_STAGING does not look at what    *)
(* was written, so that whether a bank is complete is the client's duty.   *)
(***************************************************************************)
EXTENDS Integers, FiniteSets

CONSTANTS
    NumImages,    \* CONFIG_FWU_NUM_IMAGES_PER_BANK
    MaxCapsules,  \* bound: capsules delivered, and so versions
    MaxOpen,      \* size of the agent's table of handles, per image
    Faults        \* the ways a call may go wrong: see Reply, and CommitYields
                  \* and StreamStalls of FwuClient for the one that is "endless"

ASSUME NumImagesAssumption == NumImages \in Nat \ {0}
ASSUME BoundsAssumption == MaxCapsules \in Nat /\ MaxOpen \in Nat \ {0}
ASSUME FaultsAssumption == Faults \subseteq {"refuse", "lose", "endless"}

Images == 1..NumImages          \* image_index of the real images
DIRECTORY == -1                 \* FWU_DIRECTORY_CANONICAL_UUID
ESRT == -2                      \* EFI_SYSTEM_RESOURCE_TABLE_GUID
Handles == Images \cup {DIRECTORY, ESRT}

Torn == -1                      \* an image that is erased or written in part
Versions == 0..MaxCapsules      \* an image is named after the capsule it came in
Banks == {0, 1}

VARIABLES
    state,      \* "regular", "staging" or "trial"
    open,       \* [Handles -> Nat]: open handles
    announced,  \* update_guid of the BEGIN_STAGING of this staging
    bank,       \* [Banks -> [Images -> version]]
    accepted,   \* the images of the active bank that are accepted
    active,     \* active_index of the FWU metadata
    booted,     \* the bank the running system was booted from
    faults      \* what may go wrong in this behaviour: fixed, so that a property
                \* can say which faults it holds under

agentVars == <<state, open, announced, bank, accepted, active, booted, faults>>

Update == 1 - active            \* the bank that is not active

AgentTypeOK ==
    /\ state \in {"regular", "staging", "trial"}
    /\ open \in [Handles -> 0..MaxOpen]
    /\ announced \subseteq Images
    /\ bank \in [Banks -> [Images -> Versions \cup {Torn}]]
    /\ accepted \subseteq Images
    /\ active \in Banks
    /\ booted \in Banks
    /\ faults \subseteq Faults

AgentInit ==
    /\ state = "regular"
    /\ open = [h \in Handles |-> 0]
    /\ announced = {}
    /\ bank = [b \in Banks |-> [i \in Images |-> 0]]
    /\ accepted = Images
    /\ active = 0
    /\ booted = 0
    /\ faults \in SUBSET Faults

(***************************************************************************)
(* What becomes of a call, as fwu_invoke_svc() of the client sees it: "ok" *)
(* is 0, anything else an error.  "refused": the agent answers an error    *)
(* and does nothing, because it must (the guard) or for a reason of its    *)
(* own.  "lost": it does what it was asked, and the client sees an error   *)
(* all the same (FF-A or RPC failure, unexpected response size).           *)
(***************************************************************************)
Replies == {"ok", "refused", "lost"}

Reply(r, guard, effect) ==
    \/ r = "ok" /\ guard /\ effect
    \/ r = "lost" /\ "lose" \in faults /\ guard /\ effect
    \/ r = "refused" /\ (~guard \/ "refuse" \in faults) /\ UNCHANGED agentVars

WithoutWriteHandles == [h \in Handles |-> IF h \in Images THEN 0 ELSE open[h]]

\* FWU_OPEN.  "An image cannot be opened for writing outside of this Staging
\* state"; the directory and the ESRT are only ever opened for reading.
AgentOpen(h, r) ==
    Reply(r,
          (h \in Images => state = "staging") /\ open[h] < MaxOpen,
          /\ open' = [open EXCEPT ![h] = @ + 1]
          /\ UNCHANGED <<state, announced, bank, accepted, active, booted, faults>>)

\* FWU_COMMIT.  "Image closed, authentication failed" is a lost reply.
AgentClose(h, r) ==
    Reply(r, open[h] > 0,
          /\ open' = [open EXCEPT ![h] = @ - 1]
          /\ UNCHANGED <<state, announced, bank, accepted, active, booted, faults>>)

SetImage(i, v) ==
    /\ bank' = [bank EXCEPT ![Update] = [@ EXCEPT ![i] = v]]
    /\ UNCHANGED <<state, open, announced, accepted, active, booted, faults>>

\* The FWU_WRITE_STREAMs of an image of version v; when one of them fails, those
\* before it have written a part of the image.
AgentWrite(i, v, r) ==
    LET Writable == open[i] > 0 /\ state = "staging" IN
    \/ Reply(r, Writable, SetImage(i, v))
    \/ r = "refused" /\ "refuse" \in faults /\ Writable /\ SetImage(i, Torn)

(***************************************************************************)
(* FWU_BEGIN_STAGING: "The Firmware Store is in the Trial state or the     *)
(* platform did not boot correctly" denies it.  The images of a partial    *)
(* update are erased in the update bank, the others are copied there.      *)
(***************************************************************************)
AgentBegin(images, r) ==
    Reply(r, state # "trial" /\ booted = active,
          /\ state' = "staging"
          /\ announced' = images
          /\ open' = WithoutWriteHandles
          /\ bank' = [bank EXCEPT ![Update] =
                        [i \in Images |-> IF i \in images THEN Torn
                                                          ELSE bank[active][i]]]
          /\ UNCHANGED <<accepted, active, booted, faults>>)

\* FWU_END_STAGING: "There are open image handles" denies it.
AgentEnd(r) ==
    Reply(r, state = "staging" /\ \A h \in Handles : open[h] = 0,
          /\ state' = "trial"
          /\ active' = Update
          /\ accepted' = Images \ announced
          /\ announced' = {}
          /\ UNCHANGED <<open, bank, booted, faults>>)

\* FWU_CANCEL_STAGING: "The system is not in a Staging state" denies it.
AgentCancel(r) ==
    Reply(r, state = "staging",
          /\ state' = "regular"
          /\ announced' = {}
          /\ open' = WithoutWriteHandles
          /\ UNCHANGED <<bank, accepted, active, booted, faults>>)

\* FWU_ACCEPT_IMAGE: "The system has not booted with the active bank, or the
\* image cannot be accepted before being activated".
AgentAccept(i, r) ==
    Reply(r, state = "trial" /\ booted = active,
          /\ accepted' = accepted \cup {i}
          /\ state' = IF accepted' = Images THEN "regular" ELSE "trial"
          /\ UNCHANGED <<open, announced, bank, active, booted, faults>>)

(***************************************************************************)
(* A reset ends a staging.  A trial goes on, or the Secure Enclave "reverts *)
(* to the previously known-good flash bank".                               *)
(***************************************************************************)
AgentReset ==
    /\ open' = [h \in Handles |-> 0]
    /\ announced' = {}
    /\ \/ /\ state' = IF state = "staging" THEN "regular" ELSE state
          /\ UNCHANGED <<accepted, active>>
       \/ /\ state = "trial"
          /\ state' = "regular"
          /\ active' = Update
          /\ accepted' = Images
    /\ booted' = active'
    /\ UNCHANGED <<bank, faults>>
===============================================================================
