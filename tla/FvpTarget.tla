------------------------------ MODULE FvpTarget ------------------------------
(***************************************************************************)
(* meta-arm/lib/oeqa/controllers/fvp.py, class OEFVPTarget: the oeqa       *)
(* target controller.  transition() moves the target between off, on and   *)
(* linux, starting and stopping FVPs through FVPRunner.                    *)
(*                                                                         *)
(* transition() calls itself for the states in between.  Its activation is *)
(* flattened into a program counter pc: "stop" while self.fvp.stop() runs, *)
(* "start" before FVPRunner.start(), "consoles" in _setup_consoles(),      *)
(* "login" while it expects the login prompt; want is the state the        *)
(* outermost call asked for.                                               *)
(***************************************************************************)
EXTENDS FVPRunner

OEFVPTargetState == {"off", "on", "linux"}

DEFAULT_CONSOLE == "default"

\* FVP_CONSOLES[default] is set for every machine tested with this target.
ASSUME DefaultConsoleAssumption == DEFAULT_CONSOLE \in Consoles

VARIABLES
    state,      \* self.state
    want,       \* the state asked of the running transition()
    pc,         \* where the running transition() is
    fvp,        \* self.fvp: the current runner, 0 before the first one
    terminals,  \* self.terminals: [Consoles -> runner it connects to, 0 if none]
    logfiles,   \* [Fvps -> BOOLEAN]: the run's log files are open (self.stack)
    prompt,     \* [Fvps -> the default console's unread output shows "login:"]
    seenLogin,  \* [Fvps -> BOOLEAN]: the controller matched that prompt
    raised      \* history: [Fvps -> BOOLEAN], the start-up of the run raised

targetVars == <<state, want, pc, fvp, terminals, logfiles, prompt, seenLogin, raised>>
vars == <<runnerVars, targetVars>>

TypeOK ==
    /\ RunnerTypeOK
    /\ state \in OEFVPTargetState
    /\ want \in OEFVPTargetState
    /\ pc \in {"idle", "stop", "start", "consoles", "login"}
    /\ fvp \in 0..MaxFvps
    /\ terminals \in [Consoles -> 0..MaxFvps]
    /\ logfiles \in [Fvps -> BOOLEAN]
    /\ prompt \in [Fvps -> BOOLEAN]
    /\ seenLogin \in [Fvps -> BOOLEAN]
    /\ raised \in [Fvps -> BOOLEAN]

Init ==
    /\ RunnerInit
    /\ state = "off"
    /\ want = "off"
    /\ pc = "idle"
    /\ fvp = 0
    /\ terminals = [c \in Consoles |-> 0]
    /\ logfiles = [i \in Fvps |-> FALSE]
    /\ prompt = [i \in Fvps |-> FALSE]
    /\ seenLogin = [i \in Fvps |-> FALSE]
    /\ raised = [i \in Fvps |-> FALSE]

-----------------------------------------------------------------------------
(* The calls.  transition(w) returns at once when w is the state already.   *)

\* Mutant: transition("on") does not go through "off".
NoOffLeg(w) ==
    CASE w = "off" -> "stop"
      [] w = "on" -> "start"
      [] w = "linux" -> IF state = "on" THEN "login" ELSE "start"

\* The first leg of transition(w): "linux" calls transition("on"), which calls
\* transition("off"), and each returns at once when it has nothing to do.
FirstLeg(w) ==
    CASE w = "off" -> "stop"
      [] w = "on" -> IF state = "off" THEN "start" ELSE "stop"
      [] w = "linux" -> IF state = "on" THEN "login" ELSE "start"

CallTransition(w) ==
    /\ pc = "idle"
    /\ w # state
    /\ FirstLeg(w) = "login" \/ w = "off" \/ fvp < MaxFvps
    /\ want' = w
    /\ pc' = FirstLeg(w)
    /\ spc' = IF pc' = "stop" THEN "terminate" ELSE spc
    /\ UNCHANGED <<proc, announced, telnet, pexpects, closed, ret, state, fvp,
                   terminals, logfiles, prompt, seenLogin, raised>>

\* stop() of the target, and run(), which needs Linux for its SSH command.
\* start() does nothing: it leaves the FVP to the first transition().
StopTarget == CallTransition("off")
Run == CallTransition("linux")
TransitionOn == CallTransition("on")

\* A test calls the pexpect API through __getattr__ and reads the default
\* console, whichever FVP the terminal belongs to.
CallPexpect ==
    /\ pc = "idle"
    /\ terminals[DEFAULT_CONSOLE] # 0
    /\ prompt[terminals[DEFAULT_CONSOLE]]
    /\ prompt' = [prompt EXCEPT ![terminals[DEFAULT_CONSOLE]] = FALSE]
    /\ UNCHANGED <<runnerVars, state, want, pc, fvp, terminals, logfiles,
                   seenLogin, raised>>

-----------------------------------------------------------------------------
(* The legs of transition(). *)

\* self.fvp.stop() makes one step.
StopStep ==
    /\ pc = "stop"
    /\ Stop(fvp)
    /\ UNCHANGED targetVars

\* stop() has returned: self.stack.close() closes the log files, and the state
\* is off before a pending transition("on") goes on.
StopDone ==
    /\ pc = "stop"
    /\ spc = "return"
    /\ spc' = "idle"
    /\ logfiles' = [logfiles EXCEPT ![fvp] = FALSE]
    /\ state' = "off"
    /\ pc' = IF want = "off" THEN "idle" ELSE "start"
    /\ UNCHANGED <<proc, announced, telnet, pexpects, closed, ret, want, fvp,
                   terminals, prompt, seenLogin, raised>>

\* A new ExitStack, FVPRunner and log file replace the old ones, then start().
NewRunner ==
    /\ pc = "start"
    /\ fvp' = fvp + 1
    /\ logfiles' = [logfiles EXCEPT ![fvp + 1] = TRUE]
    /\ UNCHANGED <<announced, telnet, pexpects, closed, spc, ret, state, want,
                   terminals, prompt, seenLogin>>

StartFvp ==
    /\ NewRunner
    /\ Launch(fvp + 1)
    /\ pc' = "consoles"
    /\ UNCHANGED raised

\* start() raises: no executable, or an incomplete configuration.
StartRaises ==
    /\ NewRunner
    /\ pc' = "idle"
    /\ raised' = [raised EXCEPT ![fvp + 1] = TRUE]
    /\ UNCHANGED proc

\* Mutant: the terminals of the previous FVP are kept.
KeepTerminals ==
    /\ pc = "consoles"
    /\ pexpects[fvp] < Len(ConsoleSeq)
    /\ LET c == ConsoleSeq[pexpects[fvp] + 1]
       IN  /\ c \in announced[fvp]
           /\ terminals' = [terminals EXCEPT ![c] = IF @ = 0 THEN fvp ELSE @]
    /\ CreatePexpect(fvp)
    /\ UNCHANGED <<proc, announced, telnet, closed, spc, ret, state, want, pc,
                   fvp, logfiles, prompt, seenLogin, raised>>

\* One console of _setup_consoles(): parse_port() finds the port in the log
\* (it waits, without a timeout, until the FVP has written it), then telnet
\* is spawned on it.
SetupConsole ==
    /\ pc = "consoles"
    /\ pexpects[fvp] < Len(ConsoleSeq)
    /\ LET c == ConsoleSeq[pexpects[fvp] + 1]
       IN  /\ c \in announced[fvp]
           /\ terminals' = [terminals EXCEPT ![c] = fvp]
    /\ CreatePexpect(fvp)
    /\ UNCHANGED <<proc, announced, telnet, closed, spc, ret, state, want, pc,
                   fvp, logfiles, prompt, seenLogin, raised>>

\* pexpect.spawn() raises: transition() is left with the state still off.
SpawnRaises ==
    /\ pc = "consoles"
    /\ pexpects[fvp] < Len(ConsoleSeq)
    /\ ConsoleSeq[pexpects[fvp] + 1] \in announced[fvp]
    /\ pc' = "idle"
    /\ raised' = [raised EXCEPT ![fvp] = TRUE]
    /\ UNCHANGED <<runnerVars, state, want, fvp, terminals, logfiles, prompt,
                   seenLogin>>

SetupDone ==
    /\ pc = "consoles"
    /\ pexpects[fvp] = Len(ConsoleSeq)
    /\ state' = "on"
    /\ pc' = IF want = "linux" THEN "login" ELSE "idle"
    /\ UNCHANGED <<runnerVars, want, fvp, terminals, logfiles, prompt,
                   seenLogin, raised>>

\* The default console shows the login prompt.
LoginFound ==
    /\ pc = "login"
    /\ LET i == terminals[DEFAULT_CONSOLE]
       IN  /\ prompt[i]
           /\ prompt' = [prompt EXCEPT ![i] = FALSE]
           /\ seenLogin' = [seenLogin EXCEPT ![i] = TRUE]
    /\ state' = "linux"
    /\ pc' = "idle"
    /\ UNCHANGED <<runnerVars, want, fvp, terminals, logfiles, raised>>

\* Mutant: expect() has no timeout, only the end of the FVP ends it.
NoLoginTimeout ==
    /\ pc = "login"
    /\ Exited(fvp)
    /\ ~prompt[terminals[DEFAULT_CONSOLE]]
    /\ pc' = "idle"
    /\ UNCHANGED <<runnerVars, state, want, fvp, terminals, logfiles, prompt,
                   seenLogin, raised>>

\* The timeout expires (RuntimeError), or the connection ends (pexpect.EOF).
LoginRaises ==
    /\ pc = "login"
    /\ ~prompt[terminals[DEFAULT_CONSOLE]]
    /\ pc' = "idle"
    /\ UNCHANGED <<runnerVars, state, want, fvp, terminals, logfiles, prompt,
                   seenLogin, raised>>

\* Linux on FVP i has come up: getty prints the prompt (again, after a login
\* times out).
FvpPrompts(i) ==
    /\ Running(i)
    /\ announced[i] = Consoles
    /\ ~prompt[i]
    /\ prompt' = [prompt EXCEPT ![i] = TRUE]
    /\ UNCHANGED <<runnerVars, state, want, pc, fvp, terminals, logfiles,
                   seenLogin, raised>>

-----------------------------------------------------------------------------
Fvp(i) ==
    \/ FvpPrompts(i)
    \/ /\ (\E c \in Consoles : FvpAnnounces(i, c)) \/ FvpExits(i)
       /\ UNCHANGED targetVars

Call == StopTarget \/ Run \/ TransitionOn \/ CallPexpect

Leg == StopStep \/ StopDone \/ StartFvp \/ StartRaises \/ SetupConsole
         \/ SpawnRaises \/ SetupDone \/ LoginFound \/ LoginRaises

Next == Call \/ Leg \/ \E i \in Fvps : Fvp(i)

(***************************************************************************)
(* The Python thread keeps running (its waits end, by the event or by the  *)
(* timeout they have), and the kernel ends a process that was sent         *)
(* SIGKILL.  The FVP owes nothing: it may never write a port and never     *)
(* boot.  The caller owes nothing either.                                  *)
(***************************************************************************)
Fairness ==
    /\ WF_vars(Leg)
    /\ \A i \in Fvps : WF_vars(KilledFvpExits(i) /\ UNCHANGED targetVars)

Spec == Init /\ [][Next]_vars /\ Fairness

-----------------------------------------------------------------------------
(* Properties. *)

\* The runs an FVPRunner.stop() has not been called for and that are alive.
Unsignalled == {i \in Fvps : Running(i) /\ proc[i].signals = {}}

(***************************************************************************)
(* While the target is up (on or linux, no stop() under way) every console *)
(* alias is a connection to the current FVP, none of them is closed, the   *)
(* log files are open and nobody has signalled that FVP.                   *)
(***************************************************************************)
UpIsConnected ==
    state # "off" /\ pc # "stop" =>
        /\ fvp # 0
        /\ proc[fvp].status # "none"
        /\ proc[fvp].signals = {}
        /\ logfiles[fvp]
        /\ pexpects[fvp] = Len(ConsoleSeq) /\ closed[fvp] = 0
        /\ \A c \in Consoles : terminals[c] = fvp

\* "linux" is only ever reported of the FVP that runs now: a prompt matched on
\* an earlier FVP does not count after a restart.
LinuxSawLogin == state = "linux" /\ pc # "stop" => seenLogin[fvp]

\* What self.state says is true of the FVP that runs now: its consoles are
\* connected when it is up, and Linux was seen on it when it is "linux".
StateIsTrue == UpIsConnected /\ LinuxSawLogin

(***************************************************************************)
(* The controller loses no FVP but one whose start-up raised (that leaves  *)
(* the state off with the FVP running, so the next transition("off")       *)
(* returns at once): any other that is alive and was never signalled is    *)
(* the current one, and only while the target is up or starting.  The same *)
(* holds of the runs whose log files are open.                             *)
(***************************************************************************)
Current(i) == i = fvp /\ (state # "off" \/ pc = "consoles")

NoLostFvp ==
    \A i \in Fvps :
        ~raised[i] /\ (i \in Unsignalled \/ logfiles[i]) => Current(i)

(***************************************************************************)
(* Two FVPs compete for the same host ports.  A second one is launched     *)
(* while an earlier one is alive only when the earlier one has been sent   *)
(* SIGKILL after the ten seconds of grace (stop() does not wait after      *)
(* kill()), or was lost by a start that raised.                            *)
(***************************************************************************)
OthersAreKilled ==
    \A i \in Fvps :
        Running(i) /\ i # fvp /\ ~raised[i] => "KILL" \in proc[i].signals

\* transition() returns or raises, unless an FVP that will not write the port
\* of the next console (it may even be dead) has it wait in parse_port().
Starving ==
    /\ pc = "consoles"
    /\ pexpects[fvp] < Len(ConsoleSeq)
    /\ ConsoleSeq[pexpects[fvp] + 1] \notin announced[fvp]

TransitionReturns == pc # "idle" ~> pc = "idle" \/ Starving

-----------------------------------------------------------------------------
(* What the documentation says, and the code does not do. *)

\* oeqa-fvp.md, of the minimal boot test: "The default timeout is 10 minutes":
\* a transition() ends, by success or by the timeout.
TimeoutBoundsTransition == pc # "idle" ~> pc = "idle"
=============================================================================
