---------------------------- MODULE FwuBufferUse ----------------------------
(***************************************************************************)
(* FwuSharedBuffer and FwuStream together: the streams of fwu_arm_psa.c go *)
(* through the buffer that fwu_agent_init() has allocated and lent, in     *)
(* pieces of the size that its FWU_DISCOVER has reported.                  *)
(*                                                                         *)
(* U-Boot has one thread: while a stream runs, nothing else does.  Nor is  *)
(* a stream started before the agent is initialised: both kinds are only   *)
(* reached through a get_image_info() that would have failed (FwuClient).  *)
(***************************************************************************)
EXTENDS FwuSharedBuffer, FwuStream

useVars == <<vars, streamVars>>

UseTypeOK == TypeOK /\ StreamTypeOK

UseInit == Init /\ StreamInit

\* The discovery of a run of fwu_agent_init() that goes on sets g_max_payload_size.
Manage ==
    /\ ~Streaming
    /\ Next
    /\ IF pc = "discover" /\ pc' = "event" THEN Discovered ELSE UNCHANGED streamVars

\* "if (!g_fwu_initialized)", fwu_arm_psa_get_image_info() runs fwu_agent_init()
\* (AgentInit) and returns when that has failed; a stream comes after it.
StartStream ==
    /\ pc = "idle" /\ initialized
    /\ CallStream
    /\ UNCHANGED vars

RunStream == Stream /\ UNCHANGED vars

UseNext == Manage \/ StartStream \/ RunStream

\* The thread goes on in a stream; nobody has to start one.
UseSpec == UseInit /\ [][UseNext]_useVars /\ WF_useVars(RunStream)
=============================================================================
