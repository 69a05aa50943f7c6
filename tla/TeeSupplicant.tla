---------------------------- MODULE TeeSupplicant ----------------------------
(***************************************************************************)
(* meta-arm/recipes-security/optee/optee-client/tee-supplicant.sh: the     *)
(* init script of the OP-TEE supplicant.  Daemon n is the one that the nth *)
(* start launches.  start-stop-daemon is external, used as the script uses *)
(* it: --stop sends SIGTERM and does not wait, --start does nothing while  *)
(* a process runs the executable, --oknodo makes "nothing to do" a         *)
(* success, and either may fail otherwise.                                 *)
(***************************************************************************)
EXTENDS Integers

CONSTANT MaxStarts   \* bound: daemons launched

\* What the constants satisfy.
Assumptions == MaxStarts \in Nat

Calls == {"start", "stop", "restart", "status"}

\* The exit statuses told apart here: nothing was to be done, and any other failure.
NOTHING_DONE == 1
FAILED == 2

VARIABLES
    installed, \* whether there is an executable
    call,      \* the argument of the script that runs, "none" when none does
    step,      \* its next command: "absent", "stop", "sleep", "start", "status"
    status,    \* exit status of the last call
    launched,  \* daemons launched so far
    alive,     \* the daemons that run
    ending,    \* those that were sent SIGTERM
    called,    \* history: launched when the call began
    late       \* history: in this call --start found a daemon that was ending

vars == <<installed, call, step, status, launched, alive, ending, called, late>>

TypeOK ==
    /\ installed \in BOOLEAN
    /\ call \in Calls \cup {"none"}
    /\ step \in {"absent", "stop", "sleep", "start", "status", "none"}
    /\ status \in 0..3
    /\ launched \in 0..MaxStarts /\ called \in 0..launched
    /\ alive \subseteq 1..launched
    /\ ending \subseteq alive
    /\ late \in BOOLEAN

Init ==
    /\ installed \in BOOLEAN
    /\ call = "none" /\ step = "none" /\ status = 0
    /\ launched = 0 /\ called = 0
    /\ alive = {} /\ ending = {}
    /\ late = FALSE

\* case $1; restart runs the script twice more, with a second in between.
CallScript(c) ==
    /\ call = "none"
    /\ call' = c
    /\ step' = CASE ~installed -> "absent"
                 [] installed /\ c = "restart" -> "stop"
                 [] OTHER -> c
    /\ called' = launched
    /\ late' = FALSE
    /\ UNCHANGED <<installed, status, launched, alive, ending>>

\* The command ended with s: set -e, so that an error ends the script.
Then(s, next) ==
    /\ step' = IF s = 0 THEN next ELSE "none"
    /\ call' = IF step' = "none" THEN "none" ELSE call
    /\ status' = s

\* test -f $DAEMON || exit 0: whatever was asked for, nothing is done.
NotInstalled ==
    /\ step = "absent"
    /\ Then(0, "none")
    /\ UNCHANGED <<installed, launched, alive, ending, called, late>>

\* Mutant: without --oknodo, nothing to stop is an error.
StopRunning ==
    /\ step = "stop"
    /\ ending' = alive
    /\ Then(IF alive = {} THEN NOTHING_DONE ELSE 0,
            IF call = "restart" THEN "sleep" ELSE "none")
    /\ UNCHANGED <<installed, launched, alive, called, late>>

\* Every daemon is sent SIGTERM, or the command fails.
StopDaemon ==
    /\ step = "stop"
    /\ \/ ending' = alive /\ Then(0, IF call = "restart" THEN "sleep" ELSE "none")
       \/ Then(FAILED, "none") /\ UNCHANGED ending
    /\ UNCHANGED <<installed, launched, alive, called, late>>

Sleep ==
    /\ step = "sleep"
    /\ step' = "start"
    /\ UNCHANGED <<installed, call, status, launched, alive, ending, called, late>>

\* A daemon that runs, even one that is about to end, is left as it is.
StartDaemon ==
    /\ step = "start"
    /\ \/ /\ alive # {}
          /\ late' = (ending # {})
          /\ Then(0, "none")
          /\ UNCHANGED <<launched, alive>>
       \/ /\ alive = {} /\ launched < MaxStarts
          /\ launched' = launched + 1
          /\ alive' = {launched + 1}
          /\ Then(0, "none")
          /\ UNCHANGED late
       \/ /\ alive = {}
          /\ Then(FAILED, "none")
          /\ UNCHANGED <<launched, alive, late>>
    /\ UNCHANGED <<installed, ending, called>>

\* status of the init functions: 3 when nothing runs.
Status ==
    /\ step = "status"
    /\ Then(IF alive = {} THEN 3 ELSE 0, "none")
    /\ UNCHANGED <<installed, launched, alive, ending, called, late>>

\* A daemon ends when it has handled SIGTERM, in its own time, or it crashes.
DaemonEnds ==
    /\ \E d \in alive : alive' = alive \ {d} /\ ending' = ending \ {d}
    /\ UNCHANGED <<installed, call, step, status, launched, called, late>>

Next ==
    \/ \E c \in Calls : CallScript(c)
    \/ NotInstalled \/ StopDaemon \/ Sleep \/ StartDaemon \/ Status \/ DaemonEnds

Spec == Init /\ [][Next]_vars

-----------------------------------------------------------------------------
(* Properties. *)

(***************************************************************************)
(* A restart that succeeds has launched a daemon, from every state of the  *)
(* service, also when none was running, except that                        *)
(*   - there is no executable: the script then succeeds and does nothing;  *)
(*   - the old daemon takes longer to end than the second the script       *)
(*     waits: it is then left to end, and none is launched.                *)
(* A restart only fails because one of the two commands does, and never    *)
(* because there was nothing to stop.                                      *)
(***************************************************************************)
RestartStarts ==
    [][call = "restart" /\ call' = "none" =>
          \/ status' = 0 /\ (launched' > called \/ late' \/ ~installed)
          \/ status' = FAILED /\ step \in {"stop", "start"}]_vars
=============================================================================
