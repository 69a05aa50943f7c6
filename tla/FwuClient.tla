------------------------------ MODULE FwuClient ------------------------------
(***************************************************************************)
(* U-Boot of Corstone-1000 as the client of a PSA firmware update          *)
(* (meta-arm-bsp/recipes-bsp/u-boot/u-boot/corstone1000/, patches 0011 to  *)
(* 0019): a capsule is processed payload by payload, the images are staged *)
(* with the Update Agent, and after a reset the new firmware is accepted   *)
(* when it reaches ExitBootServices().                                     *)
(*                                                                         *)
(* U-Boot has one thread, so the model is one program counter; between two *)
(* of its steps the board may be reset.  A step is one call to the agent   *)
(* with the client's reaction to the reply.  The loop inside               *)
(* fwu_read_stream() and the one inside fwu_write_stream() is one step     *)
(* when it ends and a place to stay in when it gets nowhere, and           *)
(* fwu_agent_init() is its outcome.                                        *)
(***************************************************************************)
EXTENDS UpdateAgent, Sequences

CONSTANT Capsules   \* the sequences of payloads that may be delivered

\* image_index of the payloads that are not images: FWU_DUMMY_START_IMAGE_GUID,
\* FWU_DUMMY_END_IMAGE_GUID, one the board does not know, and one whose header
\* has an unsupported version.
DUMMY_START == NumImages + 1
DUMMY_END == NumImages + 2
UNKNOWN == NumImages + 3
BADHEADER == 0
Payloads == Images \cup {DUMMY_START, DUMMY_END, UNKNOWN, BADHEADER}

\* Of what fwu_update_image() expects of a capsule only the order is assumed: it
\* starts with the start payload, and has no payload after the end payload.
ASSUME CapsulesAssumption ==
    /\ Capsules \subseteq Seq(Payloads)
    /\ \A c \in Capsules :
         /\ c # <<>> /\ c[1] = DUMMY_START
         /\ \A n \in DOMAIN c :
              /\ c[n] = DUMMY_START => n = 1
              /\ c[n] = DUMMY_END => n = Len(c)

VARIABLES
    pc,          \* what U-Boot does next
    capsule,     \* g_capsule_data
    item,        \* the payload of the capsule being processed
    info,        \* the get_image_info() in progress
    initialized, \* g_fwu_initialized
    trialBoot,   \* fwu_data->trial_state, read at boot
    unaccepted,  \* images not accepted, read at boot
    result,      \* what the last capsule came to
    updates      \* capsules delivered: the version of the images in this one

clientVars == <<pc, capsule, item, info, initialized, trialBoot,
                unaccepted, result, updates>>
vars == <<agentVars, clientVars>>

Infos == [of : {DIRECTORY, ESRT}, ret : {"ok", "error"}, round : 1..2,
          caller : {"boot", "capsule"}]

TypeOK ==
    /\ AgentTypeOK
    /\ pc \in {"idle", "agentinit", "open", "read", "reading", "close", "verify",
               "begin", "end", "openwrite", "write", "writing", "commit", "resume",
               "resumeclose", "cancel", "accept", "os", "crashed"}
    /\ capsule \in Capsules \cup {<<>>}
    /\ item \in 0..Len(capsule)
    /\ info \in Infos
    /\ initialized \in BOOLEAN
    /\ trialBoot \in BOOLEAN
    /\ unaccepted \subseteq Images
    /\ result \in {"none", "success", "failure"}
    /\ updates \in 0..MaxCapsules

Payload == capsule[item]
RealPayloads(c) == {c[n] : n \in DOMAIN c} \cap Images
Query(caller) ==
    [of |-> DIRECTORY, ret |-> "ok", round |-> 1, caller |-> caller]

Init ==
    /\ AgentInit
    /\ pc = "idle"
    /\ capsule = <<>>
    /\ item = 0
    /\ info = Query("boot")
    /\ initialized = FALSE
    /\ trialBoot = FALSE
    /\ unaccepted = {}
    /\ result = "none"
    /\ updates = 0

-----------------------------------------------------------------------------
(***************************************************************************)
(* How a capsule goes on: efi_capsule_update_firmware() leaves its loop at *)
(* the first error, and nothing on that way cancels a staging.             *)
(***************************************************************************)
\* efi_fmp_find() asks for the image info of a real payload, twice: for its
\* size, and for the info.  A payload of any other kind is found at once.
Find(payload) ==
    IF payload \in Images
    THEN /\ pc' = IF initialized THEN "open" ELSE "agentinit"
         /\ info' = Query("capsule")
    ELSE pc' = "verify" /\ UNCHANGED info

Abort ==
    /\ pc' = "idle"
    /\ result' = "failure"
    /\ UNCHANGED <<item, info>>

\* Mutant: the payload counter is advanced before it is compared.
NextPayloadLate ==
    /\ item' = item + 1
    /\ IF item = Len(capsule)
       THEN pc' = "idle" /\ result' = "success" /\ UNCHANGED info
       ELSE Find(capsule[item + 1]) /\ UNCHANGED result

NextPayload ==
    IF item = Len(capsule)
    THEN pc' = "idle" /\ result' = "success" /\ UNCHANGED <<item, info>>
    ELSE item' = item + 1 /\ Find(capsule[item + 1]) /\ UNCHANGED result

Goto(step) == pc' = step /\ UNCHANGED <<item, info, result>>

SubmitCapsule ==
    /\ pc = "idle"
    /\ updates < MaxCapsules
    /\ updates' = updates + 1
    /\ result' = "none"
    /\ item' = 1
    /\ \E c \in Capsules : capsule' = c /\ Find(c[1])
    /\ UNCHANGED <<agentVars, initialized, trialBoot, unaccepted>>

-----------------------------------------------------------------------------
(***************************************************************************)
(* fwu_arm_psa_get_image_info(): initialise the agent unless that is done, *)
(* then read the directory and the ESRT.                                   *)
(***************************************************************************)
\* EFI_NOT_READY or EFI_DEVICE_ERROR: the payload is not found.
InfoFails ==
    /\ pc' = "idle"
    /\ info' = Query("boot")
    /\ result' = IF info.caller = "capsule" THEN "failure" ELSE result
    /\ UNCHANGED item

InfoDone ==
    /\ pc' = IF info.caller = "capsule" THEN "verify" ELSE "idle"
    /\ info' = Query("boot")
    /\ UNCHANGED <<item, result>>

\* The ESRT of U-Boot is built from the image info when EFI starts.
GetImageInfo ==
    /\ pc = "idle"
    /\ pc' = IF initialized THEN "open" ELSE "agentinit"
    /\ info' = Query("boot")
    /\ UNCHANGED <<agentVars, capsule, item, initialized, trialBoot,
                   unaccepted, result, updates>>

AgentInitialize ==
    /\ pc = "agentinit"
    /\ \/ initialized' = TRUE /\ Goto("open")
       \/ initialized' = FALSE /\ InfoFails
    /\ UNCHANGED <<agentVars, capsule, trialBoot, unaccepted, updates>>

OpenImage ==
    /\ pc = "open"
    /\ \E r \in Replies :
         /\ AgentOpen(info.of, r)
         /\ IF r = "ok" THEN Goto("read") ELSE InfoFails
    /\ UNCHANGED <<capsule, initialized, trialBoot, unaccepted, updates>>

\* Mutant: an error returns without going to close_handle.
ReadWithoutClose ==
    /\ pc = "read"
    /\ \/ Goto("close")
       \/ InfoFails
    /\ UNCHANGED <<agentVars, capsule, initialized, trialBoot, unaccepted,
                   updates>>

\* An error, a directory with an unexpected number of images, an ESRT that does
\* not match it: the handle is closed all the same.
ReadImage ==
    /\ pc = "read"
    /\ pc' = "close"
    /\ \E ret \in {"ok", "error"} : info' = [info EXCEPT !.ret = ret]
    /\ UNCHANGED <<agentVars, capsule, item, initialized, trialBoot, unaccepted,
                   result, updates>>

AfterClose ==
    CASE info.ret = "error" -> InfoFails
      [] info.ret = "ok" /\ info.of = DIRECTORY ->
           /\ pc' = "open"
           /\ info' = [info EXCEPT !.of = ESRT]
           /\ UNCHANGED <<item, result>>
      [] info.ret = "ok" /\ info.of = ESRT /\ info.round = 1 ->
           /\ pc' = "open"
           /\ info' = [Query(info.caller) EXCEPT !.round = 2]
           /\ UNCHANGED <<item, result>>
      [] OTHER -> InfoDone

\* The outcome of the FWU_COMMIT that closes the handle is only logged.
CloseImage ==
    /\ pc = "close"
    /\ \E r \in Replies : AgentClose(info.of, r)
    /\ AfterClose
    /\ UNCHANGED <<capsule, initialized, trialBoot, unaccepted, updates>>

-----------------------------------------------------------------------------
(***************************************************************************)
(* efi_firmware_raw_set_image() and fwu_update_image().  There is no       *)
(* buffer before the agent is initialised, and a dummy payload is the one  *)
(* that is reached without: U-Boot writes its arguments through NULL.      *)
(***************************************************************************)
Verified ==
    CASE Payload = DUMMY_START -> Goto(IF initialized THEN "begin" ELSE "crashed")
      [] Payload = DUMMY_END -> Goto("end")
      [] Payload \in Images -> Goto("openwrite")
      [] OTHER -> Abort

VerifyImage ==
    /\ pc = "verify"
    /\ Verified \/ Abort
    /\ UNCHANGED <<agentVars, capsule, initialized, trialBoot, unaccepted,
                   updates>>

\* fwu_get_capsule_guids() reads the headers of the whole capsule first.
BadCapsule ==
    /\ pc = "begin"
    /\ \E n \in DOMAIN capsule : capsule[n] = BADHEADER
    /\ Abort
    /\ UNCHANGED <<agentVars, capsule, initialized, trialBoot, unaccepted,
                   updates>>

BeginStaging ==
    /\ pc = "begin"
    /\ \A n \in DOMAIN capsule : capsule[n] # BADHEADER
    /\ \E r \in Replies :
         /\ AgentBegin(RealPayloads(capsule), r)
         /\ IF r = "ok" THEN NextPayload ELSE Abort
    /\ UNCHANGED <<capsule, initialized, trialBoot, unaccepted, updates>>

\* Mutant: a payload whose image cannot be opened is skipped.
SkipUnopened ==
    /\ pc = "openwrite"
    /\ \E r \in Replies :
         /\ AgentOpen(Payload, r)
         /\ IF r = "ok" THEN Goto("write") ELSE NextPayload
    /\ UNCHANGED <<capsule, initialized, trialBoot, unaccepted, updates>>

OpenWrite ==
    /\ pc = "openwrite"
    /\ \E r \in Replies :
         /\ AgentOpen(Payload, r)
         /\ Goto(IF r = "ok" THEN "write" ELSE "cancel")
    /\ UNCHANGED <<capsule, initialized, trialBoot, unaccepted, updates>>

\* Mutant: the result of fwu_write_stream() is not looked at.
IgnoreWriteError ==
    /\ pc = "write"
    /\ \E r \in Replies : AgentWrite(Payload, updates, r)
    /\ Goto("commit")
    /\ UNCHANGED <<capsule, initialized, trialBoot, unaccepted, updates>>

WriteImage ==
    /\ pc = "write"
    /\ \E r \in Replies :
         /\ AgentWrite(Payload, updates, r)
         /\ Goto(IF r = "ok" THEN "commit" ELSE "cancel")
    /\ UNCHANGED <<capsule, initialized, trialBoot, unaccepted, updates>>

CommitImage ==
    /\ pc = "commit"
    /\ \E r \in Replies :
         /\ AgentClose(Payload, r)
         /\ IF r = "ok" THEN NextPayload ELSE Goto("cancel")
    /\ UNCHANGED <<capsule, initialized, trialBoot, unaccepted, updates>>

(***************************************************************************)
(* fwu_commit() of an agent that answers FWU_RESUME: it has yielded before *)
(* the image is closed.  The loop resumes args->function_id, but arguments *)
(* and response share their first word, so the function it names is the    *)
(* status, -FWU_RESUME, which is no function of the agent: the RPC fails   *)
(* and the status is still there, or the agent writes one of its own.      *)
(***************************************************************************)
CommitYields ==
    /\ pc \in {"commit", "close"}
    /\ "endless" \in faults
    /\ Goto(IF pc = "commit" THEN "resume" ELSE "resumeclose")
    /\ UNCHANGED <<agentVars, capsule, initialized, trialBoot, unaccepted,
                   updates>>

Resume ==
    /\ pc \in {"resume", "resumeclose"}
    /\ Goto(pc)
    /\ UNCHANGED <<agentVars, capsule, initialized, trialBoot, unaccepted,
                   updates>>

ResumeRejected ==
    /\ \/ pc = "resume" /\ Goto("cancel")
       \/ pc = "resumeclose" /\ AfterClose
    /\ UNCHANGED <<agentVars, capsule, initialized, trialBoot, unaccepted,
                   updates>>

(***************************************************************************)
(* A stream that gets nowhere: the agent answers FWU_READ_STREAM with no   *)
(* bytes before the total is there, or has reported a max_payload_size of  *)
(* 0, so that nothing is written at a time.  The loop goes on as long as   *)
(* the calls succeed.  One of them may fail, and FWU_READ_STREAM may have  *)
(* bytes after all.                                                        *)
(***************************************************************************)
StreamStalls ==
    /\ pc \in {"read", "write"}
    /\ "endless" \in faults
    /\ Goto(IF pc = "read" THEN "reading" ELSE "writing")
    /\ UNCHANGED <<agentVars, capsule, initialized, trialBoot, unaccepted,
                   updates>>

StreamIsLeft ==
    /\ \/ /\ pc = "reading"
          /\ pc' = "close"
          /\ \E ret \in {"ok", "error"} : info' = [info EXCEPT !.ret = ret]
          /\ UNCHANGED <<item, result>>
       \/ pc = "writing" /\ Goto("cancel")
    /\ UNCHANGED <<agentVars, capsule, initialized, trialBoot, unaccepted,
                   updates>>

\* Mutant: the "return 0" before the label cancel_staging is missing.
FallIntoCancel ==
    /\ pc = "end"
    /\ \E r \in Replies : AgentEnd(r)
    /\ Goto("cancel")
    /\ UNCHANGED <<capsule, initialized, trialBoot, unaccepted, updates>>

EndStaging ==
    /\ pc = "end"
    /\ \E r \in Replies :
         /\ AgentEnd(r)
         /\ IF r = "ok" THEN NextPayload ELSE Goto("cancel")
    /\ UNCHANGED <<capsule, initialized, trialBoot, unaccepted, updates>>

\* Mutant: the cancellation is repeated until the agent grants it.
RetryCancel ==
    /\ pc = "cancel"
    /\ \E r \in Replies :
         /\ AgentCancel(r)
         /\ IF r = "ok" THEN NextPayload ELSE Goto("cancel")
    /\ UNCHANGED <<capsule, initialized, trialBoot, unaccepted, updates>>

\* "return fwu_cancel_staging()": the update of the payload that failed is a
\* success when the cancellation is.
CancelStaging ==
    /\ pc = "cancel"
    /\ \E r \in Replies :
         /\ AgentCancel(r)
         /\ IF r = "ok" THEN NextPayload ELSE Abort
    /\ UNCHANGED <<capsule, initialized, trialBoot, unaccepted, updates>>

-----------------------------------------------------------------------------
(***************************************************************************)
(* fwu_accept_notify_exit_boot_services(), which fwu_agent_init() installs.*)
(***************************************************************************)
ExitBootServices ==
    /\ pc = "idle"
    /\ pc' = IF initialized /\ trialBoot THEN "accept" ELSE "os"
    /\ UNCHANGED <<agentVars, capsule, item, info, initialized, trialBoot,
                   unaccepted, result, updates>>

\* Mutant: the loop ends with the first image that has been accepted.
AcceptFirst ==
    /\ pc = "accept"
    /\ \E i \in unaccepted, r \in Replies :
         /\ \A j \in unaccepted : i <= j
         /\ AgentAccept(i, r)
         /\ unaccepted' = unaccepted \ {i}
    /\ pc' = "os"
    /\ UNCHANGED <<capsule, item, info, initialized, trialBoot, result, updates>>

\* fwu_all_images_accepted(): in the order of the images, to the first error.
AcceptImage ==
    /\ pc = "accept"
    /\ \E i \in unaccepted, r \in Replies :
         /\ \A j \in unaccepted : i <= j
         /\ AgentAccept(i, r)
         /\ unaccepted' = unaccepted \ {i}
         /\ pc' = IF r = "ok" THEN "accept" ELSE "os"
    /\ UNCHANGED <<capsule, item, info, initialized, trialBoot, result, updates>>

AllAccepted ==
    /\ pc = "accept"
    /\ unaccepted = {}
    /\ pc' = "os"
    /\ UNCHANGED <<agentVars, capsule, item, info, initialized, trialBoot,
                   unaccepted, result, updates>>

(***************************************************************************)
(* A reset at any time.  The next boot reads the metadata of the active    *)
(* bank: it is a trial when one of its images is not accepted.             *)
(***************************************************************************)
Reset ==
    /\ AgentReset
    /\ pc' = "idle"
    /\ capsule' = <<>>
    /\ item' = 0
    /\ info' = Query("boot")
    /\ initialized' = FALSE
    /\ trialBoot' = (accepted' # Images)
    /\ unaccepted' = Images \ accepted'
    /\ result' = "none"
    /\ UNCHANGED updates

ProcessCapsule ==
    \/ VerifyImage \/ BadCapsule \/ BeginStaging \/ OpenWrite \/ WriteImage
    \/ CommitImage \/ CommitYields \/ Resume \/ EndStaging \/ CancelStaging

ReadInfo == AgentInitialize \/ OpenImage \/ ReadImage \/ CloseImage

Next ==
    \/ SubmitCapsule \/ GetImageInfo \/ ReadInfo \/ ProcessCapsule
    \/ ResumeRejected \/ StreamStalls \/ StreamIsLeft \/ ExitBootServices
    \/ AcceptImage \/ AllAccepted \/ Reset

\* U-Boot does not stop of itself, and a call to the agent returns.  Nothing says
\* that a capsule is ever delivered, that the board is ever reset, how the agent
\* answers a function it does not have, or that a stalled stream is ever left.
Spec ==
    /\ Init /\ [][Next]_vars
    /\ WF_vars(ReadInfo) /\ WF_vars(ProcessCapsule)
    /\ WF_vars(AcceptImage \/ AllAccepted)
-----------------------------------------------------------------------------
(***************************************************************************)
(* Properties.                                                             *)
(***************************************************************************)
Complete == capsule # <<>> /\ capsule[Len(capsule)] = DUMMY_END
Installed == \A i \in RealPayloads(capsule) : bank[active][i] = updates
NotInstalled == \A i \in Images : bank[active][i] # updates

\* Whatever fails and whenever the board is reset, the firmware that the next
\* boot runs changes as a whole: to the images of one capsule and the old ones
\* for the rest, or back to what it was before.
Atomic == INSTANCE AtomicUpdate WITH
    PayloadSets <- {RealPayloads(c) : c \in Capsules},
    firmware <- bank[active],
    fallback <- bank[IF state = "trial" THEN Update ELSE active],
    onTrial <- (state = "trial")
UpdateIsAtomic == Atomic!Spec

\* A capsule that is reported as applied has left the Staging state, and has
\* installed all of its images or none.
SuccessIsAllOrNothing ==
    result = "success" /\ Complete =>
      \/ state = "trial" /\ Installed
      \/ state = "regular" /\ NotInstalled

\* As long as replies are not lost, a capsule that is reported as failed has
\* not changed the firmware: "the previously installed firmware is retained".
FailureKeepsFirmware == "lose" \notin faults /\ result = "failure" => NotInstalled

\* As long as the agent closes what it is asked to close, no handle stays open
\* when U-Boot is done with the directory, the ESRT and the capsule, except that
\* of an image in a staging that was given up.
HandlesAreClosed ==
    faults = {} /\ pc \in {"idle", "accept", "os"} =>
      \A h \in Handles : open[h] > 0 => h \in Images /\ state = "staging"

\* As long as the agent does what it is asked, a trial is over when the operating
\* system starts, and every image of the new firmware is accepted.
OsConfirmsTrial ==
    faults = {} /\ pc = "os" /\ trialBoot /\ initialized =>
      state = "regular" /\ accepted = Images

\* The processing of a capsule comes to an end, unless a commit yields or a stream
\* gets nowhere: no loop of U-Boot counts its rounds.
CapsuleEnds ==
    (pc = "verify" /\ "endless" \notin faults) ~> (pc \in {"idle", "crashed"})

\* What fwu_update_image() promises ("0 on success") to what reports the outcome
\* of the capsule: a capsule reported as applied is the firmware of the next boot.
SuccessMeansInstalled ==
    result = "success" /\ Complete => state = "trial" /\ Installed
===============================================================================
