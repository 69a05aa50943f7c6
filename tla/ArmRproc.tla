------------------------------ MODULE ArmRproc ------------------------------
(***************************************************************************)
(* drivers/remoteproc/arm_rproc.c (kernel patch 0001 of Corstone-1000):    *)
(* the driver of the External System, a core that is started and reset     *)
(* through a control register and a status register.                       *)
(*                                                                         *)
(* External are the core, as the driver's comments describe it, which      *)
(* answers a reset request at any time and keeps its answer until the      *)
(* request is withdrawn; and the remoteproc framework, which calls start   *)
(* and stop, stays in "running" when stop fails, and on removal drops the  *)
(* device whatever stop returned.                                          *)
(***************************************************************************)
EXTENDS Integers

\* RST_ACK, and the tries of a poll of it.
NO_RESET_REQ == 0
NOT_COMPLETE == 1
COMPLETE == 2
RESERVED == 3
POLL_TRIES == 3

VARIABLES
    device,    \* the framework: "unbound", "offline" or "running"
    removing,  \* arm_rproc_remove() is under way
    abandoned, \* history: the device was removed although stop() had failed
    pc,        \* the driver: "idle", "request", "write", "poll", "withdraw"
    ctrl_reg,  \* what it has read of CPUWAIT, to write it back
    expected,  \* what is polled for: an answer, or NO_RESET_REQ
    tries,     \* tries left in the poll
    req_status,\* the answer to the request
    error,     \* of the last stop(): "none" or the errno
    CPUWAIT,   \* bits of the control register
    RST_REQ,
    RST_ACK,   \* bits of the status register
    reset,     \* the core is held in reset by the request
    overtaken  \* history: stop() has cleared CPUWAIT, which nobody has set again

vars == <<device, removing, abandoned, pc, ctrl_reg, expected, tries, req_status,
          error, CPUWAIT, RST_REQ, RST_ACK, reset, overtaken>>
registers == <<CPUWAIT, RST_REQ, overtaken>>
core == <<RST_ACK, reset>>
framework == <<device, removing, abandoned>>

TypeOK ==
    /\ device \in {"unbound", "offline", "running"}
    /\ removing \in BOOLEAN /\ abandoned \in BOOLEAN
    /\ pc \in {"idle", "request", "write", "poll", "withdraw"}
    /\ ctrl_reg \in BOOLEAN /\ overtaken \in BOOLEAN
    /\ expected \in {"answer", "none"}
    /\ tries \in 1..POLL_TRIES
    /\ req_status \in {NO_RESET_REQ, NOT_COMPLETE, COMPLETE}
    /\ error \in {"none", "EINVAL", "ECONNABORTED", "ETIMEDOUT", "EACCES"}
    /\ CPUWAIT \in BOOLEAN /\ RST_REQ \in BOOLEAN
    /\ RST_ACK \in 0..3
    /\ reset \in BOOLEAN

Init ==
    /\ device = "unbound" /\ removing = FALSE /\ abandoned = FALSE
    /\ pc = "idle" /\ expected = "none" /\ tries = POLL_TRIES
    /\ req_status = NO_RESET_REQ /\ error = "none"
    /\ CPUWAIT = TRUE /\ RST_REQ = FALSE
    /\ RST_ACK = NO_RESET_REQ /\ reset = FALSE
    /\ ctrl_reg = FALSE /\ overtaken = FALSE

-----------------------------------------------------------------------------
(* What the framework and the core do. *)

\* probe() registers the core as offline; a probe that fails leaves no trace.
Probe ==
    /\ device = "unbound"
    /\ device' = "offline"
    /\ UNCHANGED <<removing, abandoned, pc, ctrl_reg, expected, tries, req_status,
                   error, registers, core>>

\* arm_rproc_start_cs1000_extsys().  Its readl() and writel() are one step: CPUWAIT is
\* cleared whatever it was, and nobody else writes RST_REQ.
Start ==
    /\ device = "offline"
    /\ device' = "running"
    /\ CPUWAIT' = FALSE
    /\ overtaken' = FALSE
    /\ UNCHANGED <<removing, abandoned, pc, ctrl_reg, expected, tries, req_status,
                   error, RST_REQ, core>>

\* The framework calls stop(), also in remove() of a core that is running.
CallStop ==
    /\ device = "running" /\ pc = "idle"
    /\ removing' \in BOOLEAN
    /\ pc' = "request"
    /\ UNCHANGED <<device, abandoned, ctrl_reg, expected, tries, req_status, error,
                   registers, core>>

RemoveOffline ==
    /\ device = "offline"
    /\ device' = "unbound"
    /\ UNCHANGED <<removing, abandoned, pc, ctrl_reg, expected, tries, req_status,
                   error, registers, core>>

\* The core carries the request out, which leaves it halted, or denies it, or the
\* answer is not a valid one; it drops the answer once the request is withdrawn.
CoreAnswers ==
    /\ RST_REQ /\ RST_ACK = NO_RESET_REQ
    /\ RST_ACK' \in {NOT_COMPLETE, COMPLETE, RESERVED}
    /\ IF RST_ACK' = COMPLETE
       THEN reset' = TRUE /\ CPUWAIT' = TRUE /\ overtaken' = FALSE
       ELSE UNCHANGED <<reset, CPUWAIT, overtaken>>
    /\ UNCHANGED <<framework, pc, ctrl_reg, expected, tries, req_status, error, RST_REQ>>

CoreClears ==
    /\ ~RST_REQ /\ (RST_ACK # NO_RESET_REQ \/ reset)
    /\ RST_ACK' = NO_RESET_REQ
    /\ reset' = FALSE
    /\ UNCHANGED <<framework, pc, ctrl_reg, expected, tries, req_status, error, registers>>

-----------------------------------------------------------------------------
(* arm_rproc_stop_cs1000_extsys() *)

Poll(what) == pc' = "poll" /\ expected' = what /\ tries' = POLL_TRIES

\* stop() returns e, 0 for "none": remove() goes on in any case.
StopReturns(e) ==
    /\ pc' = "idle"
    /\ error' = e
    /\ device' = IF removing THEN "unbound" ELSE IF e = "none" THEN "offline" ELSE device
    /\ abandoned' = (abandoned \/ (removing /\ e # "none"))
    /\ removing' = FALSE

\* The control register is read ...
Request ==
    /\ pc = "request"
    /\ ctrl_reg' = CPUWAIT
    /\ pc' = "write"
    /\ UNCHANGED <<framework, expected, tries, req_status, error, registers, core>>

\* ... and written back with the request: a core that has answered an earlier request
\* in between, and is halted, loses its CPUWAIT again.
WriteRequest ==
    /\ pc = "write"
    /\ RST_REQ' = TRUE
    /\ CPUWAIT' = ctrl_reg
    /\ overtaken' = (overtaken \/ (CPUWAIT /\ ~ctrl_reg))
    /\ Poll("answer")
    /\ UNCHANGED <<framework, ctrl_reg, req_status, error, core>>

Matches == IF expected = "answer" THEN RST_ACK # NO_RESET_REQ ELSE RST_ACK = NO_RESET_REQ

\* Mutant: the answer to the request is not looked at.
AnyAnswer ==
    /\ pc = "poll" /\ RST_ACK # RESERVED /\ Matches
    /\ IF expected = "answer"
       THEN pc' = "withdraw" /\ req_status' = RST_ACK /\ UNCHANGED <<framework, error>>
       ELSE StopReturns("none") /\ UNCHANGED req_status
    /\ UNCHANGED <<ctrl_reg, expected, tries, registers, core>>

\* A poll reads what it expects: the request is withdrawn, or stop() returns.
PollMatches ==
    /\ pc = "poll" /\ RST_ACK # RESERVED /\ Matches
    /\ IF expected = "answer"
       THEN pc' = "withdraw" /\ req_status' = RST_ACK /\ UNCHANGED <<framework, error>>
       ELSE /\ StopReturns(IF req_status = COMPLETE THEN "none" ELSE "EACCES")
            /\ UNCHANGED req_status
    /\ UNCHANGED <<ctrl_reg, expected, tries, registers, core>>

PollReserved ==
    /\ pc = "poll" /\ RST_ACK = RESERVED
    /\ StopReturns("EINVAL")
    /\ UNCHANGED <<ctrl_reg, expected, tries, req_status, registers, core>>

\* Mutant: the tries start anew.
SleepForever ==
    /\ pc = "poll" /\ RST_ACK # RESERVED /\ ~Matches
    /\ \/ StopReturns("ECONNABORTED") /\ UNCHANGED tries
       \/ /\ tries' = IF tries = 1 THEN POLL_TRIES ELSE tries - 1
          /\ UNCHANGED <<pc, error, framework>>
    /\ UNCHANGED <<ctrl_reg, expected, req_status, registers, core>>

\* Another value: msleep_interruptible() is cut short by a signal, or the loop
\* ends after three tries, or goes on.  The request stays as it is.
PollSleeps ==
    /\ pc = "poll" /\ RST_ACK # RESERVED /\ ~Matches
    /\ \/ StopReturns("ECONNABORTED") /\ UNCHANGED tries
       \/ tries = 1 /\ StopReturns("ETIMEDOUT") /\ UNCHANGED tries
       \/ tries > 1 /\ tries' = tries - 1 /\ UNCHANGED <<pc, error, framework>>
    /\ UNCHANGED <<ctrl_reg, expected, req_status, registers, core>>

\* The request is withdrawn; in one step, since a core that has answered leaves the
\* control register alone.
Withdraw ==
    /\ pc = "withdraw"
    /\ RST_REQ' = FALSE
    /\ Poll("none")
    /\ UNCHANGED <<framework, ctrl_reg, req_status, error, CPUWAIT, overtaken, core>>

Stop == Request \/ WriteRequest \/ PollMatches \/ PollReserved \/ PollSleeps \/ Withdraw

Next == Probe \/ Start \/ CallStop \/ RemoveOffline \/ CoreAnswers \/ CoreClears \/ Stop

\* The thread in stop() goes on: it only sleeps for a time.  The core owes nothing.
Fairness == WF_vars(Stop)

Spec == Init /\ [][Next]_vars /\ Fairness

-----------------------------------------------------------------------------
(* Properties. *)

\* A core the framework has as offline is halted, out of reset and without a
\* request or an answer pending, so that the next start() really starts it and
\* the next stop() really asks: whatever was denied, timed out or interrupted
\* before.  Except that the device was once removed although its stop() had failed,
\* or that the core answered an earlier request between the readl() and the writel()
\* of a later one: then stop() succeeds and lets the core run.
OfflineIsHalted ==
    device = "offline" /\ ~abandoned =>
        /\ CPUWAIT \/ overtaken
        /\ ~RST_REQ /\ RST_ACK = NO_RESET_REQ /\ ~reset

\* stop() returns, whatever the core does.
StopIsBounded == pc # "idle" ~> pc = "idle"
=============================================================================
