------------------------------- MODULE RunFvp -------------------------------
(***************************************************************************)
(* scripts/runfvp: the command line tool.  start_fvp() runs one FVP in the *)
(* foreground, either printing its output or (--console) connecting telnet *)
(* to its default console, and always calls FVPRunner.stop() in a finally  *)
(* block.  The exit status of the tool comes from a return statement, from *)
(* stop(), from an exception, or is 0 after Ctrl-C.                        *)
(***************************************************************************)
EXTENDS FVPRunner, Terminals

CONSTANT MaxInterrupts  \* bound: how often the user presses Ctrl-C

\* The only runner start_fvp() creates.
Self == 1

ASSUME MaxInterruptsAssumption == MaxInterrupts \in Nat
ASSUME SelfAssumption == Self \in Fvps

VARIABLES
    args,       \* the parsed command line
    terminal,   \* args.terminals: the terminal that is used
    ready,      \* whether that terminal is one runfvp knows, and can be used
    automatic,  \* history: neither the user nor runfvp.conf has named it
    config,     \* the configuration file and what it needs on the host
    opens,      \* the FVP was launched to open terminals on its named consoles
    pc,         \* where start_fvp() is
    pending,    \* what the finally block resumes: a return value or an exception
    logger,     \* the debug_log thread: "none", "running" or "ended"
    lost,       \* processes whose Popen a Ctrl-C cut before the runner had them
    interrupts, \* how many times Ctrl-C was pressed
    status      \* exit status of the tool, NoCode while it runs

choiceVars == <<args, terminal, ready, automatic>>
startVars == <<choiceVars, config, opens>>
toolVars == <<startVars, pc, pending, logger, lost, interrupts, status>>
vars == <<runnerVars, toolVars>>

\* --terminals and --console exclude each other.
Args == {a \in [dry_run : BOOLEAN, console : BOOLEAN,
                terminals : name_map \cup {Unset}] :
            a.console => a.terminals = Unset}

\* Whether the file is found and loads (it names an executable), what Popen
\* makes of the executable, whether a default console and any terminal are
\* named, and whether telnet is installed.
Config == [loads : BOOLEAN, exe : {"runs", "missing", "denied"},
           hasDefault : BOOLEAN, named : BOOLEAN, telnet : BOOLEAN]

\* The finally block runs stop() and then resumes the return or the raise;
\* falling off the try block goes on to "return rv".
Falls == [kind |-> "falls", value |-> 0]
Returns(v) == [kind |-> "return", value |-> v]
Raises == [kind |-> "raise", value |-> 1]
Interrupted == [kind |-> "interrupt", value |-> 0]
StopCut == [kind |-> "cut", value |-> 0]   \* Ctrl-C out of stop() itself
Outcomes == {Falls, Returns(0), Returns(1), Raises, Interrupted, StopCut}

TypeOK ==
    /\ RunnerTypeOK
    /\ args \in Args
    /\ terminal \in name_map \cup {"unknown"}
    /\ ready \in BOOLEAN
    /\ automatic \in BOOLEAN
    /\ config \in Config
    /\ opens \in BOOLEAN
    /\ pc \in {"args", "config", "begin", "output", "parse", "telnet", "finally", "join", "done"}
    /\ pending \in Outcomes
    /\ logger \in {"none", "running", "ended"}
    /\ lost \subseteq {"fvp", "telnet"}
    /\ interrupts \in 0..MaxInterrupts
    /\ status \in ExitCodes \cup {NoCode}

Init ==
    /\ RunnerInit
    /\ args = [dry_run |-> FALSE, console |-> FALSE, terminals |-> Unset]
    /\ terminal = "none"
    /\ ready = TRUE
    /\ automatic = FALSE
    /\ config = [loads |-> FALSE, exe |-> "missing", hasDefault |-> FALSE,
                 named |-> FALSE, telnet |-> FALSE]
    /\ opens = FALSE
    /\ pc = "args"
    /\ pending = Falls
    /\ logger = "none"
    /\ lost = {}
    /\ interrupts = 0
    /\ status = NoCode

\* Leave the try block: the finally block calls stop().
Finally(outcome) ==
    /\ pc' = "finally"
    /\ spc' = "terminate"
    /\ pending' = outcome

-----------------------------------------------------------------------------
\* Mutant: --console leaves the terminal as it is.
KeepTerminal(a, env) ==
    IF a.terminals # Unset THEN a.terminals ELSE PreferredTerminal(env)

\* The terminal of a command line: "none" with --console, that of --terminals,
\* or the default, which argparse does not compare with the choices.
ChosenTerminal(a, env) ==
    CASE a.console -> "none"
      [] ~a.console /\ a.terminals # Unset -> a.terminals
      [] OTHER -> PreferredTerminal(env)

ParseArgs ==
    /\ pc = "args"
    /\ pc' = "config"
    /\ \E a \in Args, env \in Environments :
         /\ args' = a
         /\ terminal' = ChosenTerminal(a, env)
         /\ ready' = (terminal' \in name_map /\ IsReady(terminal', env))
         /\ automatic' = (a.terminals = Unset /\ env.configured = Unset)
    /\ UNCHANGED <<runnerVars, config, opens, pending, logger, lost, interrupts, status>>

\* The argument is a file, or conffile.find() finds one, or it raises: before
\* start_fvp(), so that nothing is stopped.
FindConfig ==
    /\ pc = "config"
    /\ \/ config' \in Config /\ pc' = "begin" /\ UNCHANGED pending
       \/ pc' = "join" /\ pending' = Raises /\ UNCHANGED config
    /\ UNCHANGED <<runnerVars, choiceVars, opens, logger, lost, interrupts, status>>

\* cli_from_config(): the FVP is told to run the terminal's command for every
\* terminal that has a name, and to start nothing for the others.
OpensTerminals == terminal # "none" /\ config.named

\* An unknown terminal has no command: KeyError.
CliRaises == OpensTerminals /\ terminal \notin name_map

\* Up to the launch: a dry run, a terminal that is unknown or not ready, a
\* configuration that does not load, an executable that is not found (caught
\* and logged) or cannot be executed.
NoLaunch ==
    /\ pc = "begin"
    /\ \/ /\ args.dry_run
          /\ Finally(IF config.loads /\ ~CliRaises THEN Returns(0) ELSE Raises)
       \/ /\ ~args.dry_run /\ ~ready
          /\ Finally(IF terminal \in name_map THEN Returns(1) ELSE Raises)
       \/ /\ ~args.dry_run /\ ready /\ ~config.loads
          /\ Finally(Raises)
       \/ /\ ~args.dry_run /\ ready /\ config.loads /\ config.exe # "runs"
          /\ Finally(IF config.exe = "missing" THEN Falls ELSE Raises)
    /\ UNCHANGED <<proc, announced, telnet, pexpects, closed, ret, startVars,
                   logger, lost, interrupts, status>>

\* Popen gets to execute the FVP.
Launches ==
    /\ pc = "begin"
    /\ ~args.dry_run /\ ready /\ config.loads /\ config.exe = "runs"
    /\ opens' = OpensTerminals

StartFvp ==
    /\ Launches
    /\ Launch(Self)
    /\ pc' = IF args.console THEN "parse" ELSE "output"
    /\ UNCHANGED <<announced, telnet, pexpects, closed, spc, ret, choiceVars, config,
                   pending, logger, lost, interrupts, status>>

\* --console without a default console in the configuration: the FVP runs already.
NoDefaultConsole ==
    /\ pc = "parse"
    /\ ~config.hasDefault
    /\ Finally(Returns(1))
    /\ UNCHANGED <<proc, announced, telnet, pexpects, closed, ret, startVars,
                   logger, lost, interrupts, status>>

\* Mutant: the end of the output is not noticed.
OutputNeverEnds == FALSE

\* for line in fvp.stdout: the loop ends with the FVP.
OutputEnds ==
    /\ pc = "output"
    /\ Exited(Self)
    /\ Finally(Falls)
    /\ UNCHANGED <<proc, announced, telnet, pexpects, closed, ret, startVars,
                   logger, lost, interrupts, status>>

\* parse_port() finds the port of the default console; the log thread is started.
PortFound ==
    /\ pc = "parse"
    /\ config.hasDefault
    /\ Consoles \subseteq announced[Self]
    /\ logger' = "running"

\* telnet is started.
ConnectConsole ==
    /\ PortFound
    /\ config.telnet
    /\ CreateTelnet(Self)
    /\ pc' = "telnet"
    /\ UNCHANGED <<proc, announced, pexpects, closed, spc, ret, startVars,
                   pending, lost, interrupts, status>>

\* check_telnet() raises.
NoTelnet ==
    /\ PortFound
    /\ ~config.telnet
    /\ Finally(Raises)
    /\ UNCHANGED <<proc, announced, telnet, pexpects, closed, ret, startVars,
                   lost, interrupts, status>>

\* telnet.wait() returns.
TelnetQuit ==
    /\ pc = "telnet"
    /\ telnet[Self] = "exited"
    /\ Finally(Falls)
    /\ UNCHANGED <<proc, announced, telnet, pexpects, closed, ret, startVars,
                   logger, lost, interrupts, status>>

\* Ctrl-C: a KeyboardInterrupt, which can be raised at any point of the tool.
CtrlC ==
    /\ interrupts < MaxInterrupts
    /\ interrupts' = interrupts + 1

\* Before the try block there is nothing to stop.
InterruptStart ==
    /\ pc \in {"args", "config"}
    /\ CtrlC
    /\ pc' = "join"
    /\ pending' = Interrupted
    /\ UNCHANGED <<runnerVars, startVars, logger, lost, status>>

\* In the try block: stop() still runs.
Interrupt ==
    /\ pc \in {"begin", "output", "parse", "telnet"}
    /\ CtrlC
    /\ Finally(Interrupted)
    /\ UNCHANGED <<proc, announced, telnet, pexpects, closed, ret, startVars,
                   logger, lost, status>>

\* In Popen, when the FVP is already there and self._fvp_process is not: stop() has
\* nothing to stop, and nothing follows that FVP any more.
LaunchCut ==
    /\ Launches
    /\ CtrlC
    /\ lost' = lost \cup {"fvp"}
    /\ Finally(Interrupted)
    /\ UNCHANGED <<proc, announced, telnet, pexpects, closed, ret, choiceVars, config,
                   logger, status>>

\* Between the start of the log thread and self._telnets.append(): telnet is not
\* started yet, or is and the runner does not know it.
ConnectCut ==
    /\ PortFound
    /\ CtrlC
    /\ lost' \in {lost, IF config.telnet THEN lost \cup {"telnet"} ELSE lost}
    /\ Finally(Interrupted)
    /\ UNCHANGED <<proc, announced, telnet, pexpects, closed, ret, startVars, status>>

\* In the finally block, anywhere in stop() or right before or after it: it leaves
\* stop() and start_fvp(), whatever stop() has still to do.
InterruptStop ==
    /\ pc = "finally"
    /\ CtrlC
    /\ pc' = "join"
    /\ spc' = "idle"
    /\ pending' = StopCut
    /\ UNCHANGED <<proc, announced, telnet, pexpects, closed, ret, startVars,
                   logger, lost, status>>

\* On the way out: instead of the return or the exception, or when the interpreter
\* already waits for the log thread, which is then given up.
InterruptExit ==
    /\ pc = "join"
    /\ CtrlC
    /\ \/ /\ pending' = IF pending = StopCut THEN StopCut ELSE Interrupted
          /\ UNCHANGED <<pc, status>>
       \/ /\ pc' = "done" /\ status' = pending.value
          /\ UNCHANGED pending
    /\ UNCHANGED <<runnerVars, startVars, logger, lost>>

StopStep ==
    /\ pc = "finally"
    /\ Stop(Self)
    /\ UNCHANGED toolVars

\* rv = fvp.stop() has returned; "return rv" when the try block fell through
\* (or logged FileNotFoundError), otherwise the pending return or raise.
StopDone ==
    /\ pc = "finally"
    /\ spc = "return"
    /\ spc' = "idle"
    /\ pc' = "join"
    /\ pending' = IF pending = Falls THEN [kind |-> "return", value |-> ret] ELSE pending
    /\ UNCHANGED <<proc, announced, telnet, pexpects, closed, ret, startVars,
                   logger, lost, interrupts, status>>

\* The debug_log thread reads up to the end of the FVP's output.
LoggerEnds ==
    /\ logger = "running"
    /\ Exited(Self)
    /\ logger' = "ended"
    /\ UNCHANGED <<runnerVars, startVars, pc, pending, lost, interrupts, status>>

\* The interpreter waits for the log thread, which is no daemon, and exits
\* with the value passed to sys.exit(), 1 after a traceback, 0 after Ctrl-C.
Exit ==
    /\ pc = "join"
    /\ logger # "running"
    /\ pc' = "done"
    /\ status' = pending.value
    /\ UNCHANGED <<runnerVars, startVars, pending, logger, lost, interrupts>>

Environment ==
    /\ \/ \E c \in Consoles : FvpAnnounces(Self, c)
       \/ FvpExits(Self)
       \/ TelnetExits(Self)
    /\ UNCHANGED toolVars

Tool ==
    \/ ParseArgs \/ FindConfig \/ NoLaunch \/ StartFvp \/ OutputEnds
    \/ NoDefaultConsole \/ ConnectConsole \/ NoTelnet \/ TelnetQuit \/ StopStep \/ StopDone \/ Exit

User ==
    \/ InterruptStart \/ Interrupt \/ LaunchCut \/ ConnectCut
    \/ InterruptStop \/ InterruptExit

Next == Tool \/ LoggerEnds \/ User \/ Environment

\* The tool's threads run, SIGKILL works, and telnet ends when it is asked to.
Fairness ==
    /\ WF_vars(Tool)
    /\ WF_vars(LoggerEnds)
    /\ WF_vars(KilledFvpExits(Self) /\ UNCHANGED toolVars)
    /\ WF_vars(Exited(Self) /\ TelnetExits(Self) /\ UNCHANGED toolVars)

Spec == Init /\ [][Next]_vars /\ Fairness

-----------------------------------------------------------------------------
(* Properties. *)

(***************************************************************************)
(* On every way out of start_fvp() - the early returns, the exceptions,    *)
(* the end of telnet, Ctrl-C - the FVP of the runner has ended or has been *)
(* sent SIGKILL, unless a Ctrl-C left the finally block before that: then  *)
(* it may run on, and perhaps was sent no signal at all.                   *)
(***************************************************************************)
NoFvpLeftBehind ==
    pc \in {"join", "done"} /\ Running(Self) =>
        "KILL" \in proc[Self].signals \/ pending = StopCut

\* A failure of the FVP is not lost: when the FVP ended with a positive code
\* before stop() gave up on it, and neither a Ctrl-C nor an early return hid
\* it, that code is the exit status of runfvp.
FvpFailureReported ==
    pc = "done" /\ interrupts = 0 /\ proc[Self].status # "none"
      /\ (args.console => config.hasDefault /\ config.telnet)
      /\ proc[Self].code > 0 /\ "KILL" \notin proc[Self].signals
        => status = proc[Self].code

\* The exit status is 0 only if the FVP did not fail, or for the reasons the
\* code names: a dry run, the FVP stopped by a signal, the user's Ctrl-C, an
\* FVP that had to be killed, and an executable that was not found.
SuccessIsExplained ==
    pc = "done" /\ status = 0 =>
        \/ args.dry_run /\ config.loads
        \/ interrupts > 0
        \/ ready /\ config.loads /\ config.exe = "missing"
        \/ proc[Self].status = "exited" /\ proc[Self].code <= 0
        \/ "KILL" \in proc[Self].signals

\* runfvp's exit status is that of the FVP, or there is a reason for it.
ExitStatusIsExplained == FvpFailureReported /\ SuccessIsExplained

(***************************************************************************)
(* A console has one client: when runfvp connects telnet to the default    *)
(* console it has not had the FVP open a terminal on it.                   *)
(***************************************************************************)
OneClientPerConsole == ~(opens /\ telnet[Self] # "none")

\* "The tool attempts to automatically select a suitable terminal type": the one
\* it selects by itself is never one it then refuses to start with.
AutomaticTerminalIsReady == automatic => ready

\* The terminal that is used, chosen by the command line, the configuration file or
\* the tool itself, can be used and does not compete with --console.
TerminalIsUsable == OneClientPerConsole /\ AutomaticTerminalIsReady

\* In the same way telnet has ended or has been sent SIGKILL.
NoTelnetLeftBehind ==
    pc \in {"join", "done"} /\ pending # StopCut =>
        telnet[Self] \in {"none", "killed", "exited"}

\* A process the runner was never given is one whose start a Ctrl-C cut in two, and
\* runfvp ends as after any Ctrl-C.
NoneIsLost == lost # {} => interrupts > 0 /\ (pc = "done" => status = 0)

\* No process of runfvp is left behind on a way out of start_fvp(), but by a Ctrl-C out
\* of the finally block or in the middle of Popen.
NothingLeftBehind == NoFvpLeftBehind /\ NoTelnetLeftBehind /\ NoneIsLost

(***************************************************************************)
(* Once it has decided to leave, runfvp exits: stop() is bounded by its    *)
(* timeouts, and the log thread ends because the FVP does, unless a Ctrl-C *)
(* during stop() prevented the kill().                                     *)
(***************************************************************************)
FinallyExits == pc = "finally" ~> pc = "done" \/ pending = StopCut

\* runfvp notices the end of the FVP, unless it died before writing the port
\* that parse_port() is looking for in its output.
EndIsNoticed ==
    Exited(Self) ~> \/ pc = "done"
                    \/ (pc = "parse" /\ config.hasDefault /\ ~(Consoles \subseteq announced[Self]))

\* runfvp exits when it has decided to, and when the FVP ends.
RunFvpExits == FinallyExits /\ EndIsNoticed
=============================================================================
