--------------------------- MODULE FwuSharedBuffer ---------------------------
(***************************************************************************)
(* fwu_agent_init() of fwu_arm_psa.c (U-Boot of Corstone-1000, patches     *)
(* 0010, 0011 and 0017): finding the secure partition (SP) that provides   *)
(* the FWU service, lending it a buffer for the arguments and results of   *)
(* every ABI, and taking the buffer back when something fails.             *)
(*                                                                         *)
(* get_image_info() calls it until it has succeeded once, so it can run    *)
(* any number of times; run n allocates buffer n.  A buffer is lent        *)
(* between FFA_MEM_SHARE and FFA_MEM_RECLAIM, and mapped by the SP once    *)
(* MEM_RETRIEVE has succeeded.  U-Boot never asks the SP to give a buffer  *)
(* up, and the hypervisor refuses to reclaim one that is mapped.           *)
(***************************************************************************)
EXTENDS Integers

CONSTANTS
    MaxAttempts,   \* bound: runs of fwu_agent_init()
    NumSps,        \* partitions that FFA_PARTITION_INFO_GET reports
    Faults         \* "lose": the reply to a MEM_RETRIEVE that worked is lost

ASSUME BoundsAssumption == MaxAttempts \in Nat /\ NumSps \in Nat
ASSUME FaultsAssumption == Faults \subseteq {"lose"}

Buffers == 1..MaxAttempts
Sps == 1..NumSps

\* What an SP answers to TS_RPC_SERVICE_INFO_GET: an FF-A error, something that
\* is not an answer, that it lacks the service, that it provides it.
Answers == {"error", "garbled", "absent", "service"}

VARIABLES
    pc,          \* the next step of fwu_agent_init(), "idle" outside
    answers,     \* [Sps -> Answers]
    sp,          \* g_fwu_sp_id, 0 when not set
    attempt,     \* runs so far
    buf,         \* g_fwu_buf, 0 for NULL
    allocated,   \* buffers the allocator has given out and not got back
    freed,       \* buffers given back to the allocator
    lent,        \* buffers shared by FFA_MEM_SHARE and not reclaimed
    mapped,      \* buffers the SP has retrieved
    events,      \* ExitBootServices events with the acceptance handler
    initialized  \* g_fwu_initialized

vars == <<pc, answers, sp, attempt, buf, allocated, freed, lent, mapped, events,
          initialized>>
bufferVars == <<buf, allocated, freed, lent, mapped>>

TypeOK ==
    /\ pc \in {"idle", "find", "alloc", "share", "retrieve", "discover",
               "event", "reclaim", "accept", "crashed"}
    /\ answers \in [Sps -> Answers]
    /\ sp \in Sps \cup {0}
    /\ attempt \in 0..MaxAttempts
    /\ buf \in Buffers \cup {0}
    /\ allocated \subseteq Buffers
    /\ freed \subseteq Buffers
    /\ lent \subseteq Buffers
    /\ mapped \subseteq Buffers
    /\ events \in Nat
    /\ initialized \in BOOLEAN

Init ==
    /\ pc = "idle"
    /\ answers \in [Sps -> Answers]
    /\ sp = 0
    /\ attempt = 0
    /\ buf = 0
    /\ allocated = {} /\ freed = {} /\ lent = {} /\ mapped = {}
    /\ events = 0
    /\ initialized = FALSE

\* fwu_arm_psa_get_image_info() of a boot that has not initialised the agent.
AgentInit ==
    /\ pc = "idle"
    /\ ~initialized
    /\ attempt < MaxAttempts
    /\ attempt' = attempt + 1
    /\ pc' = "find"
    /\ UNCHANGED <<answers, sp, bufferVars, events, initialized>>

(***************************************************************************)
(* fwu_discover_ts_sp_id() asks the partitions in turn: it takes the first *)
(* that provides the service, and gives up at the first FF-A error.        *)
(***************************************************************************)
Chosen(s) ==
    /\ answers[s] = "service"
    /\ \A t \in 1..(s - 1) : answers[t] \in {"garbled", "absent"}

FindPartition ==
    /\ pc = "find"
    /\ \E s \in Sps : Chosen(s) /\ sp' = s
    /\ pc' = "alloc"
    /\ UNCHANGED <<answers, attempt, bufferVars, events, initialized>>

\* Also when the metadata cannot be read or there is no FF-A device.
NoPartition ==
    /\ pc = "find"
    /\ pc' = "idle"
    /\ UNCHANGED <<answers, sp, attempt, bufferVars, events, initialized>>

-----------------------------------------------------------------------------
(***************************************************************************)
(* fwu_shared_buf_init() and fwu_shared_buf_reclaim().                     *)
(***************************************************************************)
AllocBuffer ==
    /\ pc = "alloc"
    /\ \/ /\ buf' = attempt
          /\ allocated' = allocated \cup {attempt}
          /\ pc' = "share"
       \/ pc' = "idle" /\ UNCHANGED <<buf, allocated>>
    /\ UNCHANGED <<answers, sp, attempt, freed, lent, mapped, events, initialized>>

\* Mutant: the pointer is not reset.
FreeWithoutReset ==
    /\ buf' = buf
    /\ allocated' = allocated \ {buf}
    /\ freed' = freed \cup {buf}

Free ==
    /\ buf' = 0
    /\ allocated' = allocated \ {buf}
    /\ freed' = freed \cup {buf}

ShareBuffer ==
    /\ pc = "share"
    /\ \/ /\ lent' = lent \cup {buf}
          /\ pc' = "retrieve"
          /\ UNCHANGED <<buf, allocated, freed>>
       \/ Free /\ pc' = "idle" /\ UNCHANGED lent
    /\ UNCHANGED <<answers, sp, attempt, mapped, events, initialized>>

RetrieveBuffer ==
    /\ pc = "retrieve"
    /\ \/ mapped' = mapped \cup {buf} /\ pc' = "discover"
       \/ mapped' = mapped \cup {buf} /\ pc' = "reclaim" /\ "lose" \in Faults
       \/ pc' = "reclaim" /\ UNCHANGED mapped
    /\ UNCHANGED <<answers, sp, attempt, buf, allocated, freed, lent, events,
                   initialized>>

\* The buffer is freed whatever becomes of the FFA_MEM_RECLAIM.
ReclaimBuffer ==
    /\ pc = "reclaim"
    /\ lent' = IF buf \in mapped THEN lent ELSE lent \ {buf}
    /\ Free
    /\ pc' = "idle"
    /\ UNCHANGED <<answers, sp, attempt, mapped, events, initialized>>

-----------------------------------------------------------------------------
\* Mutant: the acceptance handler is installed before FWU_DISCOVER.
EventFirst ==
    /\ pc = "discover"
    /\ pc' \in {"event", "reclaim"}
    /\ events' = events + 1
    /\ UNCHANGED <<answers, sp, attempt, bufferVars, initialized>>

\* FWU_DISCOVER, the first ABI that goes through the buffer.
Discover ==
    /\ pc = "discover"
    /\ pc' \in {"event", "reclaim"}
    /\ UNCHANGED <<answers, sp, attempt, bufferVars, events, initialized>>

\* fwu_setup_accept_event() and the end of fwu_agent_init().
SetupAcceptEvent ==
    /\ pc = "event"
    /\ \/ events' = events + 1 /\ initialized' = TRUE /\ pc' = "idle"
       \/ pc' = "reclaim" /\ UNCHANGED <<events, initialized>>
    /\ UNCHANGED <<answers, sp, attempt, bufferVars>>

(***************************************************************************)
(* The users of the buffer.  The start payload of a capsule is found       *)
(* without get_image_info(), so nothing has seen to it that the agent is   *)
(* initialised; the acceptance handler only exists when it is.             *)
(***************************************************************************)
BeginStaging ==
    /\ pc = "idle"
    /\ pc' = IF buf = 0 THEN "crashed" ELSE "idle"
    /\ UNCHANGED <<answers, sp, attempt, bufferVars, events, initialized>>

ExitBootServices ==
    /\ pc = "idle"
    /\ events > 0
    /\ pc' = IF buf = 0 THEN "crashed" ELSE "accept"
    /\ UNCHANGED <<answers, sp, attempt, bufferVars, events, initialized>>

Next ==
    \/ AgentInit \/ FindPartition \/ NoPartition \/ AllocBuffer \/ ShareBuffer
    \/ RetrieveBuffer \/ ReclaimBuffer \/ Discover \/ SetupAcceptEvent
    \/ BeginStaging \/ ExitBootServices

Spec == Init /\ [][Next]_vars

-----------------------------------------------------------------------------
(***************************************************************************)
(* Properties.                                                             *)
(***************************************************************************)
\* An initialised agent has a buffer that is allocated, lent and mapped by a
\* partition that provides the service, and exactly one acceptance handler, and
\* nothing crashes for want of it; an agent that is not initialised has no handler.
InitializedHasBuffer ==
    IF initialized
    THEN /\ pc # "crashed"
         /\ buf \in allocated \cap lent \cap mapped
         /\ sp \in Sps /\ answers[sp] = "service"
         /\ events = 1
    ELSE events = 0

\* Between two runs of fwu_agent_init() the only buffer that is allocated is the
\* one g_fwu_buf points to: a failed run leaks nothing.
NothingLeaks == pc = "idle" => allocated = (IF initialized THEN {buf} ELSE {})

\* A buffer is never used after it was freed, and never freed twice.
NoUseAfterFree ==
    /\ buf \notin freed
    /\ allocated \cap freed = {}

\* The allocator's side of the buffer: nothing leaks, nothing is used or freed
\* after it was freed, over any number of runs of fwu_agent_init().
BufferIsSafe == NothingLeaks /\ NoUseAfterFree

\* What fwu_shared_buf_reclaim() is for: "in case of errors, this function can be
\* called to retrieve the FWU shared buffer".
ReclaimedBeforeFreed == freed \cap lent = {}
===============================================================================
