------------------------------ MODULE FVPRunner ------------------------------
(***************************************************************************)
(* meta-arm/lib/fvp/runner.py, class FVPRunner: the object that launches   *)
(* an FVP process, attaches clients (telnet, pexpect) to its consoles and  *)
(* stops all of them.  Both users of the class (scripts/runfvp and the     *)
(* oeqa controller OEFVPTarget) EXTEND this module and add their own       *)
(* control.                                                                *)
(*                                                                         *)
(* A runner is identified with the FVP it launches: the i-th FVPRunner     *)
(* object created is element i of Fvps.  stop() is a sequence of steps     *)
(* with a program counter of its own (spc), because the FVP, the clients   *)
(* and the wall-clock timeouts run concurrently with it.                   *)
(***************************************************************************)
EXTENDS Integers, Sequences, FiniteSets

CONSTANTS
    MaxFvps,    \* bound: how many runners the program creates
    ConsoleSeq  \* config["consoles"], in the order of the configuration

ASSUME MaxFvpsAssumption == MaxFvps \in Nat
ASSUME ConsoleSeqAssumption ==
    /\ ConsoleSeq \in Seq(STRING)
    /\ \A m, n \in DOMAIN ConsoleSeq : ConsoleSeq[m] = ConsoleSeq[n] => m = n

Fvps == 1..MaxFvps
Consoles == {ConsoleSeq[n] : n \in DOMAIN ConsoleSeq}

\* Exit codes as Popen reports them: a negative code is minus a signal number.
SIGSEGV == -11
SIGTERM == -15
SIGKILL == -9
ExitCodes == {0, 1, SIGSEGV, SIGTERM, SIGKILL}
NoCode == 99    \* Popen.returncode is None

StopSteps == {"terminate", "wait", "kill", "telnet", "telnetwait", "pexpect",
              "return"}

VARIABLES
    proc,      \* [Fvps -> process]: self._fvp_process and the process itself
    announced, \* [Fvps -> SUBSET Consoles]: "Listening for serial connection"
    telnet,    \* [Fvps -> TelnetStates]: the one telnet start_fvp creates
    pexpects,  \* [Fvps -> Nat]: the first n consoles have a pexpect instance
    closed,    \* [Fvps -> Nat]: the first n of them have been closed by stop()
    spc,       \* where the running stop() is, "idle" when there is none
    ret        \* what the last stop() returned

runnerVars == <<proc, announced, telnet, pexpects, closed, spc, ret>>

(***************************************************************************)
(* A process is "none" until Popen succeeds.  code is the status the       *)
(* kernel keeps for the parent, returncode what Popen has learnt of it,    *)
(* signals the ones stop() sent.                                           *)
(***************************************************************************)
Process == [status     : {"none", "running", "exited"},
            code       : ExitCodes,
            signals    : SUBSET {"TERM", "KILL"},
            returncode : ExitCodes \cup {NoCode}]

\* "terminated" and "killed" are sent the signal and have not ended yet.
TelnetStates == {"none", "running", "terminated", "killed", "exited"}

RunnerTypeOK ==
    /\ proc \in [Fvps -> Process]
    /\ announced \in [Fvps -> SUBSET Consoles]
    /\ telnet \in [Fvps -> TelnetStates]
    /\ pexpects \in [Fvps -> 0..Len(ConsoleSeq)]
    /\ closed \in [Fvps -> 0..Len(ConsoleSeq)]
    /\ spc \in StopSteps \cup {"idle"}
    /\ ret \in ExitCodes

RunnerInit ==
    /\ proc = [i \in Fvps |-> [status |-> "none", code |-> 0,
                               signals |-> {}, returncode |-> NoCode]]
    /\ announced = [i \in Fvps |-> {}]
    /\ telnet = [i \in Fvps |-> "none"]
    /\ pexpects = [i \in Fvps |-> 0]
    /\ closed = [i \in Fvps |-> 0]
    /\ spc = "idle"
    /\ ret = 0

Running(i) == proc[i].status = "running"
Exited(i) == proc[i].status = "exited"

\* Popen.poll(): returncode learns the code of a process that has ended.
Polled(p) == IF p.status = "exited" THEN [p EXCEPT !.returncode = p.code] ELSE p

\* Popen.send_signal(): polls first, and only signals a process still running.
Signalled(p, s) ==
    IF p.status = "running" THEN [p EXCEPT !.signals = @ \cup {s}] ELSE Polled(p)

-----------------------------------------------------------------------------
(* start() and the clients.  Whether Popen finds the executable is a choice *)
(* of the environment: the callers have an action for each outcome.         *)

Launch(i) ==
    proc' = [proc EXCEPT ![i] = [@ EXCEPT !.status = "running"]]

CreatePexpect(i) ==
    pexpects' = [pexpects EXCEPT ![i] = @ + 1]

CreateTelnet(i) ==
    telnet' = [telnet EXCEPT ![i] = "running"]

-----------------------------------------------------------------------------
(* stop(), for runner i. *)

\* terminate() of the FVP, when there is a process object at all.
StopTerminate(i) ==
    /\ spc = "terminate"
    /\ IF proc[i].status = "none"
       THEN spc' = "telnet" /\ UNCHANGED proc
       ELSE /\ proc' = [proc EXCEPT ![i] = Signalled(@, "TERM")]
            /\ spc' = "wait"
    /\ UNCHANGED <<announced, telnet, pexpects, closed, ret>>

\* wait(10.0) returns: the process has ended and is reaped.
StopWait(i) ==
    /\ spc = "wait"
    /\ Exited(i)
    /\ proc' = [proc EXCEPT ![i] = Polled(@)]
    /\ spc' = "telnet"
    /\ UNCHANGED <<announced, telnet, pexpects, closed, ret>>

\* wait(10.0) raises TimeoutExpired.
StopWaitExpired(i) ==
    /\ spc = "wait"
    /\ ~Exited(i)
    /\ spc' = "kill"
    /\ UNCHANGED <<proc, announced, telnet, pexpects, closed, ret>>

\* Mutant: kill() is forgotten.
ForgetKill(i) ==
    /\ spc = "kill"
    /\ spc' = "telnet"
    /\ UNCHANGED <<proc, announced, telnet, pexpects, closed, ret>>

\* kill(), which is not followed by a wait().
StopKill(i) ==
    /\ spc = "kill"
    /\ proc' = [proc EXCEPT ![i] = Signalled(@, "KILL")]
    /\ spc' = "telnet"
    /\ UNCHANGED <<announced, telnet, pexpects, closed, ret>>

\* Mutant: the telnet clients are forgotten.
ForgetTelnet(i) ==
    /\ spc = "telnet"
    /\ spc' = "pexpect"
    /\ UNCHANGED <<proc, announced, telnet, pexpects, closed, ret>>

\* for telnet in self._telnets: terminate()
StopTelnet(i) ==
    /\ spc = "telnet"
    /\ IF telnet[i] = "none"
       THEN spc' = "pexpect" /\ UNCHANGED telnet
       ELSE /\ spc' = "telnetwait"
            /\ telnet' = [telnet EXCEPT ![i] = IF @ = "running" THEN "terminated" ELSE @]
    /\ UNCHANGED <<proc, announced, pexpects, closed, ret>>

StopTelnetWait(i) ==
    /\ spc = "telnetwait"
    /\ telnet[i] = "exited"
    /\ spc' = "pexpect"
    /\ UNCHANGED <<proc, announced, telnet, pexpects, closed, ret>>

\* wait(10.0) of the telnet raises TimeoutExpired: kill() it, without a wait().
StopTelnetKill(i) ==
    /\ spc = "telnetwait"
    /\ telnet[i] # "exited"
    /\ telnet' = [telnet EXCEPT ![i] = "killed"]
    /\ spc' = "pexpect"
    /\ UNCHANGED <<proc, announced, pexpects, closed, ret>>

\* Mutant: a console may be closed again.
CloseAgain(i) ==
    /\ spc = "pexpect"
    /\ closed' = [closed EXCEPT ![i] = @ + 1]
    /\ UNCHANGED <<proc, announced, telnet, pexpects, spc, ret>>

\* The next pexpect: expect(EOF, timeout=30) sees the end of the connection,
\* which the FVP's end causes, or gives up; either way it is closed.
StopPexpect(i) ==
    /\ spc = "pexpect"
    /\ closed[i] < pexpects[i]
    /\ closed' = [closed EXCEPT ![i] = @ + 1]
    /\ UNCHANGED <<proc, announced, telnet, pexpects, spc, ret>>

\* Mutant: stop() drops the code of an FVP that failed.
DropReturnCode(p) == 0

\* What stop() returns: returncode is read, not polled again.
ReturnCode(p) ==
    IF p.status # "none" /\ p.returncode # NoCode /\ p.returncode > 0
    THEN p.returncode ELSE 0

StopReturn(i) ==
    /\ spc = "pexpect"
    /\ closed[i] = pexpects[i]
    /\ ret' = ReturnCode(proc[i])
    /\ spc' = "return"
    /\ UNCHANGED <<proc, announced, telnet, pexpects, closed>>

Stop(i) ==
    \/ StopTerminate(i) \/ StopWait(i) \/ StopWaitExpired(i) \/ StopKill(i)
    \/ StopTelnet(i) \/ StopTelnetWait(i) \/ StopTelnetKill(i)
    \/ StopPexpect(i) \/ StopReturn(i)

-----------------------------------------------------------------------------
(* The environment: the FVP process and the telnet client.                 *)

\* The FVP opens the port of one more console and says so in its output.
FvpAnnounces(i, c) ==
    /\ Running(i)
    /\ c \notin announced[i]
    /\ announced' = [announced EXCEPT ![i] = @ \cup {c}]
    /\ UNCHANGED <<proc, telnet, pexpects, closed, spc, ret>>

\* The FVP ends: by itself at any time (success, failure or a crash), or of
\* a signal it was sent.
FvpExits(i) ==
    /\ Running(i)
    /\ \E c \in ExitCodes :
          /\ c = SIGTERM => "TERM" \in proc[i].signals
          /\ c = SIGKILL => "KILL" \in proc[i].signals
          /\ proc' = [proc EXCEPT ![i] = [@ EXCEPT !.status = "exited", !.code = c]]
    /\ UNCHANGED <<announced, telnet, pexpects, closed, spc, ret>>

\* telnet ends: the user quits it, the FVP closes the connection, or a signal.
TelnetExits(i) ==
    /\ telnet[i] \in {"running", "terminated", "killed"}
    /\ telnet' = [telnet EXCEPT ![i] = "exited"]
    /\ UNCHANGED <<proc, announced, pexpects, closed, spc, ret>>

\* A process that was sent SIGKILL does end.
KilledFvpExits(i) == "KILL" \in proc[i].signals /\ FvpExits(i)
=============================================================================
