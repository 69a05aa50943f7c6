---------------------------- MODULE RunFvpProofs ----------------------------
(***************************************************************************)
(* What runfvp leaves behind and what it exits with, for any consoles, any *)
(* configuration and command line, and any number of Ctrl-C.               *)
(***************************************************************************)
EXTENDS RunFvp, FiniteSetTheorems, TLAPS

-----------------------------------------------------------------------------
(***************************************************************************)
(* The inductive invariant: how far stop() has got with the FVP and with   *)
(* telnet, and what the outcome the finally block resumes says of the FVP. *)
(***************************************************************************)
ToolTypeOK ==
    /\ proc \in [Fvps -> Process]
    /\ telnet \in [Fvps -> TelnetStates]
    /\ spc \in StopSteps \cup {"idle"}
    /\ ret \in ExitCodes
    /\ pc \in {"args", "config", "begin", "output", "parse", "telnet", "finally", "join", "done"}
    /\ pending \in [kind : {"falls", "return", "raise", "interrupt", "cut"}, value : ExitCodes]
    /\ interrupts \in Nat

Killed == "KILL" \in proc[Self].signals

Phase ==
    /\ pc = "finally" <=> spc # "idle"
    /\ pc \in {"args", "config", "begin"} =>
         proc[Self].status = "none" /\ telnet[Self] = "none"
    /\ pc \in {"output", "parse", "telnet"} => proc[Self].status # "none"
    /\ pc \in {"parse", "telnet"} => args.console
    /\ pending = StopCut => interrupts > 0
    /\ lost # {} => /\ interrupts > 0
                    /\ pc \in {"finally", "join", "done"}
                    /\ pending \in {Interrupted, StopCut}

\* stop() has signalled a running FVP, then killed it; it has learnt the code of
\* one that ended before, and returns it.
Stopping ==
    /\ spc \in {"wait", "kill"} /\ Running(Self) => "TERM" \in proc[Self].signals
    /\ spc \in {"telnet", "telnetwait", "pexpect", "return"} =>
         /\ Running(Self) => Killed
         /\ Exited(Self) /\ ~Killed => proc[Self].returncode = proc[Self].code
    /\ spc \in {"pexpect", "return"} => telnet[Self] \in {"none", "killed", "exited"}
    /\ spc = "return" /\ ~Killed =>
         ret = IF Exited(Self) /\ proc[Self].code > 0 THEN proc[Self].code ELSE 0

NotFound == ready /\ config.loads /\ config.exe = "missing"
DryRun == args.dry_run /\ config.loads

\* Nothing but the FVP ends the try block: no Ctrl-C and no early return.
Undisturbed ==
    /\ interrupts = 0 /\ proc[Self].status # "none"
    /\ args.console => config.hasDefault /\ config.telnet

Resuming ==
    pc = "finally" =>
        /\ pending = Falls => proc[Self].status # "none" \/ NotFound
        /\ pending = Returns(0) => DryRun
        /\ pending \in {Interrupted, StopCut} => interrupts > 0
        /\ pending \in Outcomes
        /\ Undisturbed => pending = Falls

Reason ==
    \/ DryRun \/ interrupts > 0 \/ NotFound \/ Killed
    \/ Exited(Self) /\ proc[Self].code <= 0

Leaving ==
    pc \in {"join", "done"} =>
        /\ Running(Self) => Killed \/ pending = StopCut
        /\ pending # StopCut => telnet[Self] \in {"none", "killed", "exited"}
        /\ pending.value = 0 => Reason
        /\ Undisturbed /\ proc[Self].code > 0 /\ ~Killed => pending.value = proc[Self].code
        /\ pc = "done" => status = pending.value

Inv == ToolTypeOK /\ Phase /\ Stopping /\ Resuming /\ Leaving

LEMMA InvInit == Init => Inv
BY SelfAssumption
   DEF Init, RunnerInit, Inv, ToolTypeOK, Phase, Stopping, Resuming, Leaving, Process,
       ExitCodes, NoCode, Falls, StopCut, StopSteps, TelnetStates

-----------------------------------------------------------------------------
\* Before the launch.
LEMMA BeforeLaunchInv == Inv /\ (ParseArgs \/ FindConfig \/ InterruptStart) => Inv'
<1> SUFFICES ASSUME Inv, ParseArgs \/ FindConfig \/ InterruptStart PROVE Inv'
  OBVIOUS
<1>1. /\ UNCHANGED <<proc, telnet, spc, ret, lost>>
      /\ interrupts' \in {interrupts, interrupts + 1}
      /\ pc \in {"args", "config"} /\ pc' \in {"config", "begin", "join"}
      /\ pc' = "join" => \/ pending' = Raises
                         \/ (pending' = Interrupted /\ interrupts' = interrupts + 1)
      /\ pc' # "join" => pending' = pending
  BY DEF ParseArgs, FindConfig, InterruptStart, CtrlC, runnerVars, startVars
<1>2. ToolTypeOK'
  BY <1>1 DEF Inv, ToolTypeOK, Raises, Interrupted, ExitCodes
<1>3. Phase' /\ Stopping' /\ Resuming'
  BY <1>1
     DEF Inv, ToolTypeOK, Phase, Stopping, Resuming, Running, Exited, Killed, Raises,
         Interrupted, StopCut
<1>4. Leaving'
  BY <1>1
     DEF Inv, ToolTypeOK, Phase, Leaving, Running, Exited, Killed, Raises, Interrupted,
         StopCut, Undisturbed, Reason
<1> QED
  BY <1>2, <1>3, <1>4 DEF Inv

\* The try block is left: stop() begins.  The outcome says why.
LEMMA FinallyInv ==
    ASSUME Inv, NEW outcome, Finally(outcome),
           pc \in {"begin", "output", "parse", "telnet"},
           proc' \in [Fvps -> Process], UNCHANGED <<ret, args, config, ready>>,
           telnet' = telnet, interrupts' \in Nat,
           lost' = lost \/ outcome = Interrupted,
           outcome \in Outcomes \ {StopCut},
           outcome = Falls => proc'[Self].status # "none" \/ NotFound,
           outcome = Returns(0) => DryRun,
           outcome = Interrupted => interrupts' > 0,
           Undisturbed' => outcome = Falls
    PROVE  Inv'
<1>1. ToolTypeOK'
  BY DEF Inv, ToolTypeOK, Finally, StopSteps, Outcomes, Falls, Returns, Raises, Interrupted,
         StopCut, ExitCodes
<1>2. Phase' /\ Stopping'
  BY DEF Inv, Phase, Stopping, Finally, StopCut, Outcomes, Falls, Returns, Raises, Interrupted
<1>3. Resuming'
  BY DEF Inv, Resuming, Finally, NotFound, DryRun
<1>4. Leaving'
  BY DEF Leaving, Finally
<1> QED
  BY <1>1, <1>2, <1>3, <1>4 DEF Inv

LEMMA NoLaunchInv == Inv /\ NoLaunch => Inv'
<1> SUFFICES ASSUME Inv, NoLaunch PROVE Inv'
  OBVIOUS
<1>1. proc[Self].status = "none" /\ pc = "begin" /\ proc \in [Fvps -> Process]
      /\ UNCHANGED <<proc, telnet, ret, args, config, ready, lost, interrupts>>
      /\ interrupts \in Nat
  BY DEF NoLaunch, Inv, Phase, ToolTypeOK, startVars, choiceVars
<1>2. PICK o \in {Falls, Returns(0), Returns(1), Raises} :
        Finally(o) /\ (o = Falls => NotFound) /\ (o = Returns(0) => DryRun)
  BY DEF NoLaunch, NotFound, DryRun, Falls, Returns, Raises
<1> QED
  BY <1>1, <1>2, FinallyInv
     DEF Outcomes, Falls, Returns, Raises, Interrupted, StopCut, Undisturbed

LEMMA StartFvpInv == Inv /\ StartFvp => Inv'
<1> SUFFICES ASSUME Inv, StartFvp PROVE Inv'
  OBVIOUS
<1>1. /\ proc' \in [Fvps -> Process] /\ proc'[Self].status = "running"
      /\ UNCHANGED <<telnet, spc, ret, args, config, ready, lost, pending, interrupts>>
      /\ interrupts \in Nat
      /\ pc = "begin" /\ pc' \in {"parse", "output"}
      /\ pc' = "parse" => args.console
  BY SelfAssumption
     DEF StartFvp, Launches, Launch, Inv, ToolTypeOK, Process, choiceVars
<1>2. spc = "idle"
  BY <1>1 DEF Inv, Phase
<1>3. ToolTypeOK'
  BY <1>1 DEF Inv, ToolTypeOK
<1>4. Phase' /\ Stopping' /\ Resuming' /\ Leaving'
  BY <1>1, <1>2 DEF Inv, Phase, Stopping, Resuming, Leaving
<1> QED
  BY <1>3, <1>4 DEF Inv

\* The other ways out of the try block.
LEMMA TryEndsInv ==
    Inv /\ (OutputEnds \/ NoDefaultConsole \/ NoTelnet \/ TelnetQuit) => Inv'
<1> SUFFICES ASSUME Inv, OutputEnds \/ NoDefaultConsole \/ NoTelnet \/ TelnetQuit PROVE Inv'
  OBVIOUS
<1>1. /\ UNCHANGED <<proc, telnet, ret, args, config, ready, lost, interrupts>>
      /\ pc \in {"output", "parse", "telnet"}
  BY DEF OutputEnds, NoDefaultConsole, NoTelnet, PortFound, TelnetQuit, startVars, choiceVars
<1>2. /\ proc[Self].status # "none" /\ proc \in [Fvps -> Process] /\ interrupts \in Nat
  BY <1>1 DEF Inv, Phase, ToolTypeOK
<1>3. CASE NoTelnet \/ NoDefaultConsole
  <2>1. /\ \/ (Finally(Raises) /\ ~config.telnet)
           \/ (Finally(Returns(1)) /\ ~config.hasDefault)
        /\ pc = "parse"
    BY <1>3 DEF NoTelnet, NoDefaultConsole, PortFound
  <2>2. args.console
    BY <2>1 DEF Inv, Phase
  <2> QED
    BY <1>1, <1>2, <2>1, <2>2, FinallyInv
       DEF Outcomes, Falls, Returns, Raises, Interrupted, StopCut, Undisturbed
<1>4. CASE OutputEnds \/ TelnetQuit
  <2>1. Finally(Falls)
    BY <1>4 DEF OutputEnds, TelnetQuit
  <2> QED
    BY <1>1, <1>2, <2>1, FinallyInv
       DEF Outcomes, Falls, Returns, Interrupted, StopCut
<1> QED
  BY <1>3, <1>4

\* Ctrl-C in the try block, also in the middle of Popen.
LEMMA InterruptInv == Inv /\ (Interrupt \/ LaunchCut \/ ConnectCut) => Inv'
<1> SUFFICES ASSUME Inv, Interrupt \/ LaunchCut \/ ConnectCut PROVE Inv'
  OBVIOUS
<1>1. /\ UNCHANGED <<proc, telnet, ret, args, config, ready>>
      /\ pc \in {"begin", "output", "parse", "telnet"}
      /\ interrupts' = interrupts + 1 /\ Finally(Interrupted)
  BY DEF Interrupt, LaunchCut, Launches, ConnectCut, PortFound, CtrlC, startVars, choiceVars
<1>2. /\ proc \in [Fvps -> Process] /\ interrupts \in Nat
      /\ interrupts' \in Nat /\ interrupts' > 0
  BY <1>1 DEF Inv, ToolTypeOK
<1> QED
  BY <1>1, <1>2, FinallyInv DEF Outcomes, Falls, Returns, Interrupted, StopCut, Undisturbed

LEMMA ConnectConsoleInv == Inv /\ ConnectConsole => Inv'
<1> SUFFICES ASSUME Inv, ConnectConsole PROVE Inv'
  OBVIOUS
<1>1. /\ UNCHANGED <<proc, spc, ret, pending, args, config, ready, lost, interrupts>>
      /\ pc = "parse" /\ pc' = "telnet"
      /\ telnet' \in [Fvps -> TelnetStates]
  BY DEF ConnectConsole, PortFound, CreateTelnet, TelnetStates, startVars, choiceVars, Inv,
         ToolTypeOK
<1>2. spc = "idle"
  BY <1>1 DEF Inv, Phase
<1>3. ToolTypeOK'
  BY <1>1 DEF Inv, ToolTypeOK
<1>4. Phase' /\ Stopping' /\ Resuming' /\ Leaving'
  BY <1>1, <1>2 DEF Inv, Phase, Stopping, Resuming, Leaving
<1> QED
  BY <1>3, <1>4 DEF Inv

-----------------------------------------------------------------------------
(* stop() and the way out. *)

\* What a signal of stop() does to the process, and what polling it does.
LEMMA SignalledProcess ==
    ASSUME NEW p \in Process, NEW s \in {"TERM", "KILL"}
    PROVE  /\ Signalled(p, s) \in Process
           /\ Signalled(p, s).status = p.status /\ Signalled(p, s).code = p.code
           /\ p.status = "running" => Signalled(p, s).signals = p.signals \cup {s}
           /\ p.status # "running" => Signalled(p, s).signals = p.signals
           /\ p.status = "exited" => Signalled(p, s).returncode = p.code
BY DEF Signalled, Polled, Process, ExitCodes

LEMMA PolledProcess ==
    ASSUME NEW p \in Process
    PROVE  /\ Polled(p) \in Process
           /\ Polled(p).status = p.status /\ Polled(p).code = p.code
           /\ Polled(p).signals = p.signals
           /\ p.status = "exited" => Polled(p).returncode = p.code
BY DEF Polled, Process, ExitCodes

LEMMA StopStepInv == Inv /\ StopStep => Inv'
<1> SUFFICES ASSUME Inv, StopStep PROVE Inv'
  OBVIOUS
<1>1. /\ pc = "finally" /\ Stop(Self) /\ spc # "idle" /\ proc \in [Fvps -> Process]
      /\ UNCHANGED <<args, config, ready, pc, pending, lost, interrupts, status>>
      /\ proc[Self] \in Process /\ Self \in Fvps
  BY SelfAssumption DEF Inv, ToolTypeOK, Phase, StopStep, toolVars, startVars, choiceVars
<1>2. /\ ToolTypeOK' /\ spc' # "idle"
      /\ proc'[Self].status = proc[Self].status
  BY <1>1, SignalledProcess, PolledProcess
     DEF Inv, ToolTypeOK, Stop, StopTerminate, StopWait, StopWaitExpired, StopKill, StopTelnet,
         StopTelnetWait, StopTelnetKill, StopPexpect, StopReturn, StopSteps, ReturnCode,
         ExitCodes, Process, TelnetStates
<1>3. Phase' /\ Resuming' /\ Leaving'
  BY <1>1, <1>2 DEF Inv, Phase, Resuming, Leaving, NotFound, DryRun, Undisturbed
<1>4. Stopping'
  <2>1. CASE StopTerminate(Self)
    BY <1>1, <2>1, SignalledProcess DEF StopTerminate, Stopping, Running, Exited
  <2>2. CASE StopWait(Self)
    BY <1>1, <2>2, PolledProcess DEF StopWait, Stopping, Running, Exited
  <2>3. CASE StopWaitExpired(Self)
    BY <1>1, <2>3 DEF Inv, StopWaitExpired, Stopping, Running, Exited
  <2>4. CASE StopKill(Self)
    BY <1>1, <2>4, SignalledProcess DEF StopKill, Stopping, Running, Exited, Killed
  <2>5. CASE StopTelnet(Self) \/ StopTelnetWait(Self) \/ StopTelnetKill(Self) \/ StopPexpect(Self)
    BY <1>1, <2>5
       DEF Inv, ToolTypeOK, StopTelnet, StopTelnetWait, StopTelnetKill, StopPexpect, Stopping,
           Running, Exited, Killed
  <2>6. CASE StopReturn(Self)
    BY <1>1, <2>6
       DEF Inv, StopReturn, Stopping, Running, Exited, Killed, ReturnCode, Process, ExitCodes,
           NoCode, SIGSEGV, SIGTERM, SIGKILL
  <2> QED
    BY <1>1, <2>1, <2>2, <2>3, <2>4, <2>5, <2>6 DEF Stop
<1> QED
  BY <1>2, <1>3, <1>4 DEF Inv

\* stop() has returned, and the finally block resumes what was pending.
LEMMA StopDoneInv == Inv /\ StopDone => Inv'
<1> SUFFICES ASSUME Inv, StopDone PROVE Inv'
  OBVIOUS
<1>1. /\ UNCHANGED <<proc, telnet, ret, args, config, ready, lost, interrupts>>
      /\ pc = "finally" /\ pc' = "join" /\ spc = "return" /\ spc' = "idle"
      /\ pending' = IF pending = Falls THEN [kind |-> "return", value |-> ret] ELSE pending
  BY DEF StopDone, startVars, choiceVars
<1>2. /\ Running(Self) => Killed
      /\ telnet[Self] \in {"none", "killed", "exited"}
      /\ ~Killed => ret = IF Exited(Self) /\ proc[Self].code > 0 THEN proc[Self].code ELSE 0
      /\ proc[Self] \in Process
  BY <1>1, SelfAssumption DEF Inv, ToolTypeOK, Stopping
<1>3. ToolTypeOK'
  BY <1>1 DEF Inv, ToolTypeOK
<1>4. Phase' /\ Stopping' /\ Resuming'
  BY <1>1 DEF Inv, Phase, Stopping, Resuming, Falls, Interrupted, StopCut
<1>5. pending'.value = 0 => Reason
  <2>1. CASE pending = Falls
    <3>1. proc[Self].status # "none" \/ NotFound
      BY <1>1, <2>1 DEF Inv, Resuming
    <3>2. pending'.value = ret
      BY <1>1, <2>1
    <3> QED
      BY <1>2, <3>1, <3>2
         DEF Reason, Running, Exited, Process, ExitCodes, SIGSEGV, SIGTERM, SIGKILL
  <2>2. CASE pending # Falls
    BY <1>1, <2>2
       DEF Inv, Resuming, Outcomes, Returns, Raises, Interrupted, StopCut, Reason
  <2> QED
    BY <2>1, <2>2
<1>6. Undisturbed /\ proc[Self].code > 0 /\ ~Killed => pending'.value = proc[Self].code
  BY <1>1, <1>2 DEF Inv, Resuming, Undisturbed, Running, Exited, Process
<1>7. Leaving'
  BY <1>1, <1>2, <1>5, <1>6
     DEF Leaving, Reason, Undisturbed, Killed, Running, Exited, NotFound, DryRun
<1> QED
  BY <1>3, <1>4, <1>7 DEF Inv

\* Ctrl-C out of stop(), and after it.
LEMMA InterruptStopInv == Inv /\ InterruptStop => Inv'
<1> SUFFICES ASSUME Inv, InterruptStop PROVE Inv'
  OBVIOUS
<1>1. /\ UNCHANGED <<proc, telnet, ret, args, config, ready, lost>>
      /\ pc' = "join" /\ spc' = "idle" /\ pending' = StopCut
      /\ interrupts \in Nat /\ interrupts' \in Nat /\ interrupts' > 0
  BY DEF InterruptStop, CtrlC, startVars, choiceVars, Inv, ToolTypeOK
<1>2. ToolTypeOK'
  BY <1>1 DEF Inv, ToolTypeOK, StopCut, ExitCodes
<1>3. Phase' /\ Stopping' /\ Resuming'
  BY <1>1 DEF Inv, Phase, Stopping, Resuming
<1>4. Leaving'
  BY <1>1 DEF Leaving, Reason, Undisturbed, Running
<1> QED
  BY <1>2, <1>3, <1>4 DEF Inv

LEMMA InterruptExitInv == Inv /\ InterruptExit => Inv'
<1> SUFFICES ASSUME Inv, InterruptExit PROVE Inv'
  OBVIOUS
<1>1. /\ UNCHANGED <<proc, telnet, spc, ret, args, config, ready, lost>>
      /\ pc = "join" /\ spc = "idle"
      /\ interrupts \in Nat /\ interrupts' \in Nat /\ interrupts' > 0
      /\ \/ pc' = "join" /\ pending' = IF pending = StopCut THEN StopCut ELSE Interrupted
         \/ pc' = "done" /\ pending' = pending /\ status' = pending.value
  BY DEF InterruptExit, CtrlC, runnerVars, startVars, choiceVars, Inv, ToolTypeOK, Phase
<1>2. ToolTypeOK'
  BY <1>1 DEF Inv, ToolTypeOK, StopCut, Interrupted, ExitCodes
<1>3. Phase' /\ Stopping' /\ Resuming'
  BY <1>1 DEF Inv, Phase, Stopping, Resuming
<1>4. Leaving'
  BY <1>1 DEF Inv, Leaving, Reason, Undisturbed, Running, Killed, StopCut, Interrupted
<1> QED
  BY <1>2, <1>3, <1>4 DEF Inv

LEMMA ExitInv == Inv /\ (Exit \/ LoggerEnds) => Inv'
<1> SUFFICES ASSUME Inv, Exit \/ LoggerEnds PROVE Inv'
  OBVIOUS
<1>1. /\ UNCHANGED <<proc, telnet, spc, ret, args, config, ready, lost, interrupts, pending>>
      /\ \/ pc = "join" /\ pc' = "done" /\ status' = pending.value
         \/ UNCHANGED <<pc, status>>
  BY DEF Exit, LoggerEnds, runnerVars, startVars, choiceVars
<1>2. ToolTypeOK' /\ Phase' /\ Stopping' /\ Resuming'
  BY <1>1
     DEF Inv, ToolTypeOK, Phase, Stopping, Resuming, Running, Exited, Killed, Undisturbed,
         NotFound, DryRun
<1>3. Leaving'
  BY <1>1 DEF Inv, Leaving, Running, Exited, Killed, Undisturbed, NotFound, DryRun, Reason
<1> QED
  BY <1>2, <1>3 DEF Inv

\* The FVP and telnet may end at any time.
LEMMA EnvironmentInv == Inv /\ Environment => Inv'
<1> SUFFICES ASSUME Inv, Environment PROVE Inv'
  OBVIOUS
<1>1. UNCHANGED <<spc, ret, args, config, ready, lost, interrupts, pending, pc, status>>
  BY DEF Environment, FvpAnnounces, FvpExits, TelnetExits, toolVars, startVars, choiceVars
<1>2. proc[Self] \in Process /\ Self \in Fvps
  BY SelfAssumption DEF Inv, ToolTypeOK
<1>3. /\ telnet' \in [Fvps -> TelnetStates]
      /\ telnet'[Self] # telnet[Self] => telnet[Self] # "none" /\ telnet'[Self] = "exited"
  BY <1>2 DEF Environment, FvpAnnounces, FvpExits, TelnetExits, TelnetStates, Inv, ToolTypeOK
<1>4. CASE UNCHANGED proc
  <2>1. ToolTypeOK' /\ Phase' /\ Stopping' /\ Resuming'
    BY <1>1, <1>3, <1>4
       DEF Inv, ToolTypeOK, Phase, Stopping, Resuming, Running, Exited, Killed, Undisturbed,
           NotFound, DryRun
  <2>2. Leaving'
    BY <1>1, <1>3, <1>4
       DEF Inv, Leaving, Running, Exited, Killed, Undisturbed, NotFound, DryRun, Reason
  <2> QED
    BY <2>1, <2>2 DEF Inv
<1>5. CASE FvpExits(Self)
  <2>1. /\ Running(Self) /\ ~Running(Self)' /\ Exited(Self)'
        /\ proc' \in [Fvps -> Process] /\ proc'[Self].signals = proc[Self].signals
    <3>1. PICK c \in ExitCodes :
            proc' = [proc EXCEPT ![Self] = [@ EXCEPT !.status = "exited", !.code = c]]
      BY <1>5 DEF FvpExits
    <3> QED
      BY <1>2, <1>5, <3>1 DEF FvpExits, Running, Exited, Process, Inv, ToolTypeOK
  <2>2. Killed' = Killed
    BY <2>1 DEF Killed
  <2>3. ToolTypeOK' /\ Phase'
    BY <1>1, <1>3, <2>1 DEF Inv, ToolTypeOK, Phase, Running, Exited
  <2>4. Stopping' /\ Resuming'
    BY <1>1, <1>3, <2>1, <2>2
       DEF Inv, Stopping, Resuming, Undisturbed, NotFound, DryRun, Running, Exited
  <2>5. Leaving'
    BY <1>1, <1>3, <2>1, <2>2
       DEF Inv, Phase, Leaving, Reason, Undisturbed, NotFound, DryRun, Running, Exited
  <2> QED
    BY <2>3, <2>4, <2>5 DEF Inv
<1> QED
  BY <1>4, <1>5 DEF Environment, FvpAnnounces, TelnetExits

LEMMA ToolInvariant == Spec => []Inv
<1>1. Inv /\ [Next]_vars => Inv'
  <2> SUFFICES ASSUME Inv, [Next]_vars PROVE Inv'
    OBVIOUS
  <2>1. CASE Tool
    BY <2>1, BeforeLaunchInv, NoLaunchInv, StartFvpInv, TryEndsInv, ConnectConsoleInv,
       StopStepInv, StopDoneInv, ExitInv DEF Tool
  <2>2. CASE LoggerEnds \/ User \/ Environment
    BY <2>2, BeforeLaunchInv, ExitInv, InterruptInv, InterruptStopInv, InterruptExitInv,
       EnvironmentInv DEF User
  <2>3. CASE UNCHANGED vars
    <3>1. UNCHANGED <<proc, telnet, spc, ret, args, config, ready, pc, pending, lost, interrupts, status>>
      BY <2>3 DEF vars, runnerVars, toolVars, startVars, choiceVars
    <3>2. ToolTypeOK' /\ Phase' /\ Stopping' /\ Resuming'
      BY <3>1
         DEF Inv, ToolTypeOK, Phase, Stopping, Resuming, Running, Exited, Killed, Undisturbed,
             NotFound, DryRun
    <3>3. Leaving'
      BY <3>1 DEF Inv, Leaving, Running, Exited, Killed, Undisturbed, NotFound, DryRun, Reason
    <3> QED
      BY <3>2, <3>3 DEF Inv
  <2> QED
    BY <2>1, <2>2, <2>3 DEF Next
<1> QED
  BY InvInit, <1>1, PTL DEF Spec

-----------------------------------------------------------------------------
\* On every way out of start_fvp() (scripts/runfvp) the FVP and telnet have ended or
\* have been sent SIGKILL, unless a Ctrl-C left the finally block before that, and no
\* process is lost but one whose start was cut in two by a Ctrl-C.
THEOREM NothingIsLeftBehind == Spec => []NothingLeftBehind
<1>1. Inv => NothingLeftBehind
  BY DEF Inv, Phase, Leaving, Killed, NothingLeftBehind, NoFvpLeftBehind, NoTelnetLeftBehind,
         NoneIsLost, Interrupted, StopCut
<1> QED
  BY <1>1, ToolInvariant, PTL

\* The exit status of runfvp is the code of an FVP that failed, unless a Ctrl-C, an
\* early return or SIGKILL hid it, and it is 0 only for a reason the code names.
THEOREM ExitStatusIsAlwaysExplained == Spec => []ExitStatusIsExplained
<1>1. Inv => ExitStatusIsExplained
  <2> SUFFICES ASSUME Inv PROVE FvpFailureReported /\ SuccessIsExplained
    BY DEF ExitStatusIsExplained
  <2>1. FvpFailureReported
    BY DEF Inv, Leaving, Undisturbed, Killed, FvpFailureReported
  <2>2. SuccessIsExplained
    BY DEF Inv, Leaving, Reason, DryRun, NotFound, Killed, Exited, SuccessIsExplained
  <2> QED
    BY <2>1, <2>2
<1> QED
  BY <1>1, ToolInvariant, PTL

-----------------------------------------------------------------------------
(***************************************************************************)
(* The registry of meta-arm/lib/fvp/terminal.py.                           *)
(***************************************************************************)
\* A terminal whose priority is not above that of any other is sorted to the end.
LEMMA AddTerminalAtEnd ==
    ASSUME NEW S, NEW ts \in Seq(S), NEW t,
           \A k \in DOMAIN ts : ts[k].priority >= t.priority
    PROVE  AddTerminal(ts, t) = Append(ts, t)
<1>1. Len(ts) \in Nat /\ DOMAIN ts = 1..Len(ts)
  OBVIOUS
<1>2. {k \in DOMAIN ts : ts[k].priority >= t.priority} = 1..Len(ts)
  BY <1>1
<1>3. Cardinality(1..Len(ts)) = Len(ts)
  BY <1>1, FS_Interval
<1>4. AddTerminal(ts, t) = InsertAt(ts, 1 + Len(ts), t)
  BY <1>2, <1>3 DEF AddTerminal
<1> DEFINE T == S \cup {t}
<1>5. ts \in Seq(T) /\ <<t>> \in Seq(T)
  BY <1>1
<1>6. SubSeq(ts, 1, (1 + Len(ts)) - 1) = ts
  <2>1. (1 + Len(ts)) - 1 = Len(ts)
    BY <1>1
  <2>2. SubSeq(ts, 1, Len(ts)) = ts
    BY <1>1
  <2>3. QED
    BY <2>1, <2>2
<1>7. SubSeq(ts, 1 + Len(ts), Len(ts)) = <<>>
  BY <1>1
<1>8. ts \o <<t>> = Append(ts, t) /\ Append(ts, t) \in Seq(T)
  BY <1>5
<1>9. Append(ts, t) \o <<>> = Append(ts, t)
  BY <1>8
<1>10. QED
  BY <1>4, <1>6, <1>7, <1>8, <1>9 DEF InsertAt

\* Terminals that are registered by falling priority stay in that order.
LEMMA RegisteredInOrder ==
    ASSUME NEW a, NEW b, NEW c, NEW d, NEW e,
           {a.priority, b.priority, c.priority, d.priority, e.priority} \subseteq Nat,
           a.priority >= b.priority, b.priority >= c.priority,
           c.priority >= d.priority, d.priority >= e.priority
    PROVE  AddTerminal(AddTerminal(AddTerminal(AddTerminal(AddTerminal(
             <<>>, a), b), c), d), e) = <<a, b, c, d, e>>
<1> DEFINE R == {a, b, c, d, e}
<1>1. AddTerminal(<<>>, a) = <<a>>
  <2>1. <<>> \in Seq(R) /\ \A k \in DOMAIN <<>> : <<>>[k].priority >= a.priority
    OBVIOUS
  <2>2. AddTerminal(<<>>, a) = Append(<<>>, a)
    BY <2>1, AddTerminalAtEnd
  <2>3. QED
    BY <2>2
<1>2. AddTerminal(<<a>>, b) = <<a, b>>
  <2>1. <<a>> \in Seq(R) /\ \A k \in DOMAIN <<a>> : <<a>>[k].priority >= b.priority
    OBVIOUS
  <2>2. AddTerminal(<<a>>, b) = Append(<<a>>, b)
    BY <2>1, AddTerminalAtEnd
  <2>3. QED
    BY <2>2
<1>3. AddTerminal(<<a, b>>, c) = <<a, b, c>>
  <2>1. <<a, b>> \in Seq(R) /\ \A k \in DOMAIN <<a, b>> : <<a, b>>[k].priority >= c.priority
    OBVIOUS
  <2>2. AddTerminal(<<a, b>>, c) = Append(<<a, b>>, c)
    BY <2>1, AddTerminalAtEnd
  <2>3. QED
    BY <2>2
<1>4. AddTerminal(<<a, b, c>>, d) = <<a, b, c, d>>
  <2>1. <<a, b, c>> \in Seq(R) /\ \A k \in DOMAIN <<a, b, c>> : <<a, b, c>>[k].priority >= d.priority
    OBVIOUS
  <2>2. AddTerminal(<<a, b, c>>, d) = Append(<<a, b, c>>, d)
    BY <2>1, AddTerminalAtEnd
  <2>3. QED
    BY <2>2
<1>5. AddTerminal(<<a, b, c, d>>, e) = <<a, b, c, d, e>>
  <2>1. <<a, b, c, d>> \in Seq(R) /\ \A k \in DOMAIN <<a, b, c, d>> : <<a, b, c, d>>[k].priority >= e.priority
    OBVIOUS
  <2>2. AddTerminal(<<a, b, c, d>>, e) = Append(<<a, b, c, d>>, e)
    BY <2>1, AddTerminalAtEnd
  <2>3. QED
    BY <2>2
<1>6. QED
  BY <1>1, <1>2, <1>3, <1>4, <1>5

\* The order in which the terminals are preferred is that of their registration.
LEMMA TerminalsInOrder ==
    terminals = <<Terminal(2, "screen", TRUE), Terminal(2, "tmux", TRUE),
                  Terminal(2, "gnome-terminal", TRUE), Terminal(1, "xterm", TRUE),
                  Terminal(0, "none", FALSE)>>
<1>0. \A p, n, c : Terminal(p, n, c).priority = p
  BY DEF Terminal
<1>1. PICK a : a = Terminal(2, "screen", TRUE)
  OBVIOUS
<1>2. PICK b : b = Terminal(2, "tmux", TRUE)
  OBVIOUS
<1>3. PICK c : c = Terminal(2, "gnome-terminal", TRUE)
  OBVIOUS
<1>4. PICK d : d = Terminal(1, "xterm", TRUE)
  OBVIOUS
<1>5. PICK e : e = Terminal(0, "none", FALSE)
  OBVIOUS
<1>6. a.priority = 2 /\ b.priority = 2 /\ c.priority = 2 /\ d.priority = 1 /\ e.priority = 0
  BY <1>0, <1>1, <1>2, <1>3, <1>4, <1>5, Zenon
<1>7. /\ {a.priority, b.priority, c.priority, d.priority, e.priority} \subseteq Nat
      /\ a.priority >= b.priority /\ b.priority >= c.priority
      /\ c.priority >= d.priority /\ d.priority >= e.priority
  BY <1>6
<1>8. AddTerminal(AddTerminal(AddTerminal(AddTerminal(AddTerminal(
        <<>>, a), b), c), d), e) = <<a, b, c, d, e>>
  BY <1>7, RegisteredInOrder
<1>9. QED
  BY <1>1, <1>2, <1>3, <1>4, <1>5, <1>8 DEF terminals

LEMMA NamesOfTerminals == name_map = {"screen", "tmux", "gnome-terminal", "xterm", "none"}
<1>1. DOMAIN terminals = 1..5
  BY TerminalsInOrder
<1>2. /\ terminals[1].name = "screen" /\ terminals[2].name = "tmux"
      /\ terminals[3].name = "gnome-terminal" /\ terminals[4].name = "xterm"
      /\ terminals[5].name = "none"
  BY TerminalsInOrder DEF Terminal
<1>3. 1..5 = {1, 2, 3, 4, 5}
  OBVIOUS
<1>4. QED
  BY <1>1, <1>2, <1>3 DEF name_map

\* The terminal that runfvp prefers when none is configured is a registered one that
\* can be used: the first of those that are ready, or else "none", which is the last.
LEMMA PreferredIsReady ==
    ASSUME NEW env \in Environments, env.configured = Unset
    PROVE  PreferredTerminal(env) \in name_map /\ IsReady(PreferredTerminal(env), env)
<1> DEFINE usable == {k \in DOMAIN terminals :
                        terminals[k].command /\ IsReady(terminals[k].name, env)}
<1>1. CASE usable = {}
  <2>1. PreferredTerminal(env) = Last(terminals).name
    BY <1>1 DEF PreferredTerminal
  <2>2. Last(terminals).name = "none"
    BY TerminalsInOrder DEF Last, Terminal
  <2>3. QED
    BY <2>1, <2>2, NamesOfTerminals DEF IsReady
<1>2. CASE usable # {}
  <2>1. DOMAIN terminals = 1..5
    BY TerminalsInOrder
  <2>2. usable \subseteq {1, 2, 3, 4, 5}
    BY <2>1
  <2>3. \E x \in usable : \A y \in usable : x <= y
    <3>1. CASE 1 \in usable
      BY <2>2, <3>1
    <3>2. CASE 1 \notin usable /\ 2 \in usable
      BY <2>2, <3>2
    <3>3. CASE {1, 2} \cap usable = {} /\ 3 \in usable
      BY <2>2, <3>3
    <3>4. CASE {1, 2, 3} \cap usable = {} /\ 4 \in usable
      BY <2>2, <3>4
    <3>5. CASE {1, 2, 3, 4} \cap usable = {}
      BY <1>2, <2>2, <3>5
    <3>6. QED
      BY <3>1, <3>2, <3>3, <3>4, <3>5
  <2>4. Min(usable) \in usable
    BY <2>3 DEF Min
  <2>5. PreferredTerminal(env) = terminals[Min(usable)].name
    BY <1>2 DEF PreferredTerminal
  <2>6. QED
    BY <2>4, <2>5 DEF name_map
<1>3. QED
  BY <1>1, <1>2

LEMMA PreferredIsNamed ==
    ASSUME NEW env \in Environments
    PROVE  PreferredTerminal(env) \in name_map \cup {"unknown"}
<1>1. CASE env.configured = Unset
  BY <1>1, PreferredIsReady
<1>2. CASE env.configured # Unset
  <2>1. PreferredTerminal(env) = env.configured
    BY <1>2 DEF PreferredTerminal
  <2>2. QED
    BY <1>2, <2>1 DEF Environments
<1>3. QED
  BY <1>1, <1>2

-----------------------------------------------------------------------------
(***************************************************************************)
(* The types of the variables, and the terminal that is chosen: only with  *)
(* --console is there a telnet, and then the FVP opens no terminal.        *)
(***************************************************************************)
LEMMA StopType ==
    ASSUME RunnerTypeOK, Stop(Self)
    PROVE  RunnerTypeOK'
<1> USE SelfAssumption DEF RunnerTypeOK, StopSteps, ExitCodes, SIGSEGV, SIGTERM, SIGKILL
<1>1. \A p \in Process : Polled(p) \in Process
  BY DEF Polled, Process
<1>2. \A p \in Process, s \in {"TERM", "KILL"} : Signalled(p, s) \in Process
  BY <1>1 DEF Signalled, Process
<1>3. CASE StopTerminate(Self)
  BY <1>2, <1>3 DEF StopTerminate
<1>4. CASE StopWait(Self)
  BY <1>1, <1>4 DEF StopWait
<1>5. CASE StopKill(Self)
  BY <1>2, <1>5 DEF StopKill
<1>6. CASE StopTelnet(Self) \/ StopTelnetKill(Self)
  BY <1>6 DEF StopTelnet, StopTelnetKill, TelnetStates
<1>7. CASE StopWaitExpired(Self) \/ StopTelnetWait(Self)
  BY <1>7 DEF StopWaitExpired, StopTelnetWait
<1>8. CASE StopPexpect(Self)
  <2>1. Len(ConsoleSeq) \in Nat
    BY ConsoleSeqAssumption
  <2>2. QED
    BY <1>8, <2>1 DEF StopPexpect
<1>9. CASE StopReturn(Self)
  BY <1>9 DEF StopReturn, ReturnCode, Process, NoCode
<1>10. QED
  BY <1>3, <1>4, <1>5, <1>6, <1>7, <1>8, <1>9 DEF Stop

LEMMA EnvironmentType ==
    ASSUME RunnerTypeOK, Environment
    PROVE  RunnerTypeOK'
<1> USE SelfAssumption
<1>1. CASE \E c \in Consoles : FvpAnnounces(Self, c)
  BY <1>1 DEF FvpAnnounces, RunnerTypeOK
<1>2. CASE FvpExits(Self)
  <2>1. PICK c \in ExitCodes :
          proc' = [proc EXCEPT ![Self] = [@ EXCEPT !.status = "exited", !.code = c]]
    BY <1>2 DEF FvpExits
  <2>2. [proc[Self] EXCEPT !.status = "exited", !.code = c] \in Process
    BY DEF RunnerTypeOK, Process
  <2>3. proc' \in [Fvps -> Process]
    BY <2>1, <2>2 DEF RunnerTypeOK
  <2>4. QED
    BY <1>2, <2>3 DEF FvpExits, RunnerTypeOK
<1>3. CASE TelnetExits(Self)
  BY <1>3 DEF TelnetExits, RunnerTypeOK, TelnetStates
<1>4. QED
  BY <1>1, <1>2, <1>3 DEF Environment

\* What was chosen when the command line was parsed.
Choice ==
    /\ pc = "args" => ~opens /\ telnet[Self] = "none" /\ ~args.console
    /\ pc # "args" /\ args.console => terminal = "none"
    /\ opens => terminal # "none"
    /\ telnet[Self] # "none" => args.console
    /\ automatic => ready
    /\ spc = "telnetwait" => telnet[Self] # "none"
    /\ ret \in {0, 1}

LEMMA TypeInit == Init => TypeOK /\ Choice
<1> SUFFICES ASSUME Init PROVE TypeOK /\ Choice
  OBVIOUS
<1>1. MaxInterrupts \in Nat /\ Len(ConsoleSeq) \in Nat
  BY MaxInterruptsAssumption, ConsoleSeqAssumption
<1>2. RunnerTypeOK
  BY <1>1 DEF Init, RunnerInit, RunnerTypeOK, Process, ExitCodes, StopSteps, TelnetStates
<1>3. args \in Args /\ config \in Config
  BY DEF Init, Args, Config
<1>4. TypeOK
  <2>1. interrupts \in 0..MaxInterrupts
    BY <1>1 DEF Init
  <2>2. terminal \in name_map \cup {"unknown"}
    BY NamesOfTerminals DEF Init
  <2>3. ready \in BOOLEAN /\ automatic \in BOOLEAN /\ opens \in BOOLEAN
    BY DEF Init
  <2>4. pending \in Outcomes /\ status \in ExitCodes \cup {NoCode}
    BY DEF Init, Outcomes
  <2>5. lost \subseteq {"fvp", "telnet"}
    BY DEF Init
  <2>6. QED
    BY <1>2, <1>3, <2>1, <2>2, <2>3, <2>4, <2>5 DEF Init, TypeOK
<1>5. Choice
  BY SelfAssumption DEF Init, RunnerInit, Choice
<1>6. QED
  BY <1>4, <1>5

\* The choice of the terminal.
LEMMA ParseArgsType == ASSUME TypeOK, Choice, ParseArgs PROVE TypeOK' /\ Choice'
<1>1. PICK a \in Args, env \in Environments :
        /\ args' = a
        /\ terminal' = ChosenTerminal(a, env)
        /\ ready' = (terminal' \in name_map /\ IsReady(terminal', env))
        /\ automatic' = (a.terminals = Unset /\ env.configured = Unset)
  BY DEF ParseArgs
<1>2. /\ pc = "args" /\ pc' = "config"
      /\ UNCHANGED <<runnerVars, config, opens, pending, logger, lost, interrupts, status>>
  BY DEF ParseArgs
<1>3. a.console => a.terminals = Unset
  BY DEF Args
<1>4. a.terminals \in name_map \cup {Unset}
  BY DEF Args
<1>5. terminal' \in name_map \cup {"unknown"}
  <2>1. CASE a.console
    BY <1>1, <2>1, NamesOfTerminals DEF ChosenTerminal
  <2>2. CASE ~a.console /\ a.terminals # Unset
    BY <1>1, <1>4, <2>2 DEF ChosenTerminal
  <2>3. CASE ~a.console /\ a.terminals = Unset
    BY <1>1, <2>3, PreferredIsNamed DEF ChosenTerminal
  <2>4. QED
    BY <2>1, <2>2, <2>3
<1>6. automatic' => ready'
  <2> SUFFICES ASSUME automatic' PROVE ready'
    OBVIOUS
  <2>1. a.terminals = Unset /\ env.configured = Unset
    BY <1>1
  <2>2. CASE a.console
    BY <1>1, <2>2, NamesOfTerminals DEF ChosenTerminal, IsReady
  <2>3. CASE ~a.console
    BY <1>1, <2>1, <2>3, PreferredIsReady DEF ChosenTerminal
  <2>4. QED
    BY <2>2, <2>3
<1>7. ready' \in BOOLEAN /\ automatic' \in BOOLEAN
  BY <1>1
<1>8. TypeOK'
  BY <1>1, <1>2, <1>5, <1>7 DEF TypeOK, RunnerTypeOK, runnerVars
<1>9. args'.console => terminal' = "none"
  BY <1>1 DEF ChosenTerminal
<1>10. Choice'
  BY <1>2, <1>6, <1>9 DEF Choice, runnerVars
<1>11. QED
  BY <1>8, <1>10

\* A step of stop() leaves telnet alone if there is none, and returns 0 or 1.
LEMMA StopStepType == ASSUME TypeOK, Choice, StopStep PROVE TypeOK' /\ Choice'
<1>1. RunnerTypeOK /\ Stop(Self) /\ UNCHANGED toolVars
  BY DEF StopStep, TypeOK
<1>2. RunnerTypeOK'
  BY <1>1, StopType
<1>3. TypeOK'
  BY <1>1, <1>2 DEF TypeOK, toolVars, startVars, choiceVars
<1>4. /\ telnet'[Self] # "none" => telnet[Self] # "none"
      /\ spc' = "telnetwait" => telnet'[Self] # "none"
  <2>1. CASE StopTelnet(Self)
    <3>1. telnet \in [Fvps -> TelnetStates] /\ Self \in Fvps
      BY <1>1, SelfAssumption DEF RunnerTypeOK
    <3>2. QED
      BY <2>1, <3>1 DEF StopTelnet
  <2>2. CASE StopTelnetKill(Self)
    <3>1. telnet[Self] # "none"
      BY <2>2, <1>1 DEF StopTelnetKill, Choice
    <3>2. spc' = "pexpect"
      BY <2>2 DEF StopTelnetKill
    <3>3. QED
      BY <3>1, <3>2
  <2>3. QED
    BY <1>1, <2>1, <2>2
       DEF Stop, StopTerminate, StopWait, StopWaitExpired, StopKill, StopTelnetWait,
           StopPexpect, StopReturn
<1>5. ret' \in {0, 1}
  <2>1. CASE StopReturn(Self)
    <3>1. proc[Self].returncode \in ExitCodes \cup {NoCode}
      BY <1>1, SelfAssumption DEF RunnerTypeOK, Process
    <3>2. QED
      BY <2>1, <3>1
         DEF StopReturn, ReturnCode, ExitCodes, NoCode, SIGSEGV, SIGTERM, SIGKILL
  <2>2. CASE ~StopReturn(Self)
    BY <1>1, <2>2
       DEF Choice, Stop, StopTerminate, StopWait, StopWaitExpired, StopKill, StopTelnet,
           StopTelnetWait, StopTelnetKill, StopPexpect
  <2>3. QED
    BY <2>1, <2>2
<1>6. Choice'
  BY <1>1, <1>4, <1>5 DEF Choice, toolVars, startVars, choiceVars
<1>7. QED
  BY <1>3, <1>6

\* Leaving the try block.
LEMMA FinallyType ==
    ASSUME TypeOK, NEW outcome \in Outcomes, Finally(outcome),
           proc' \in [Fvps -> Process], UNCHANGED <<announced, telnet, pexpects, closed, ret>>,
           UNCHANGED <<args, terminal, ready, automatic, config>>,
           opens' \in BOOLEAN, logger' \in {"none", "running", "ended"},
           lost' \subseteq {"fvp", "telnet"}, interrupts' \in 0..MaxInterrupts, status' = status
    PROVE  TypeOK'
<1>1. RunnerTypeOK'
  BY DEF TypeOK, RunnerTypeOK, Finally, StopSteps
<1>2. QED
  BY <1>1 DEF TypeOK, Finally

\* The steps of start_fvp().
LEMMA StartType ==
    ASSUME TypeOK, Choice, Inv, FindConfig \/ NoLaunch \/ StartFvp
    PROVE  TypeOK' /\ Choice'
<1>1. CASE FindConfig
  <2>1. UNCHANGED <<runnerVars, choiceVars, opens, logger, lost, interrupts, status>>
    BY <1>1 DEF FindConfig
  <2>2. /\ config' \in Config /\ pc' \in {"begin", "join"} /\ pending' \in Outcomes
        /\ pc = "config"
    BY <1>1 DEF FindConfig, TypeOK, Outcomes
  <2>3. TypeOK' /\ Choice'
    BY <2>1, <2>2 DEF TypeOK, Choice, RunnerTypeOK, runnerVars, choiceVars
  <2>4. QED
    BY <2>3
<1>2. CASE NoLaunch
  <2>1. PICK o \in Outcomes : Finally(o)
    BY <1>2 DEF NoLaunch, Outcomes
  <2>2. /\ UNCHANGED <<proc, announced, telnet, pexpects, closed, ret, startVars,
                       logger, lost, interrupts, status>>
        /\ pc = "begin"
    BY <1>2 DEF NoLaunch
  <2>3. TypeOK'
    BY <2>1, <2>2, FinallyType DEF TypeOK, RunnerTypeOK, startVars, choiceVars
  <2>4. Choice'
    BY <2>1, <2>2 DEF Choice, Finally, startVars, choiceVars
  <2>5. QED
    BY <2>3, <2>4
<1>3. CASE StartFvp
  <2>1. /\ UNCHANGED <<announced, telnet, pexpects, closed, spc, ret, choiceVars, config,
                       pending, logger, lost, interrupts, status>>
        /\ opens' = OpensTerminals /\ pc = "begin" /\ pc' \in {"parse", "output"}
    BY <1>3 DEF StartFvp, Launches
  <2>2. proc' \in [Fvps -> Process]
    <3>1. proc' = [proc EXCEPT ![Self] = [@ EXCEPT !.status = "running"]]
      BY <1>3 DEF StartFvp, Launch
    <3>2. [proc[Self] EXCEPT !.status = "running"] \in Process
      BY SelfAssumption DEF TypeOK, RunnerTypeOK, Process
    <3>3. QED
      BY <3>1, <3>2 DEF TypeOK, RunnerTypeOK
  <2>3. opens' \in BOOLEAN
    BY <2>1 DEF OpensTerminals
  <2>4. /\ telnet[Self] = "none"
        /\ opens' => terminal # "none"
    BY <2>1 DEF Inv, Phase, OpensTerminals
  <2>5. TypeOK'
    BY <2>1, <2>2, <2>3 DEF TypeOK, RunnerTypeOK, choiceVars
  <2>6. Choice'
    BY <2>1, <2>4 DEF Choice, choiceVars
  <2>7. QED
    BY <2>5, <2>6
<1>4. QED
  BY <1>1, <1>2, <1>3

\* One more Ctrl-C.
LEMMA CtrlCType == ASSUME TypeOK, CtrlC PROVE interrupts' \in 0..MaxInterrupts
<1>1. interrupts \in 0..MaxInterrupts /\ interrupts < MaxInterrupts /\ interrupts' = interrupts + 1
  BY DEF CtrlC, TypeOK
<1>2. QED
  BY <1>1, MaxInterruptsAssumption

\* The end of the output, no default console, no telnet, the end of telnet and Ctrl-C.
LEMMA TryEndsType ==
    ASSUME TypeOK, Choice, Inv,
           OutputEnds \/ NoDefaultConsole \/ NoTelnet \/ TelnetQuit \/ Interrupt
             \/ LaunchCut \/ ConnectCut
    PROVE  TypeOK' /\ Choice'
<1>1. PICK o \in Outcomes : Finally(o)
  BY DEF OutputEnds, NoDefaultConsole, NoTelnet, TelnetQuit, Interrupt, LaunchCut, ConnectCut,
         Outcomes
<1>2. /\ UNCHANGED <<proc, announced, telnet, pexpects, closed, ret, choiceVars, config, status>>
      /\ pc # "args" /\ logger' \in {logger, "running"}
      /\ lost' \subseteq lost \cup {"fvp", "telnet"}
      /\ (opens' = opens \/ (pc = "begin" /\ opens' = OpensTerminals))
  BY DEF OutputEnds, NoDefaultConsole, NoTelnet, PortFound, TelnetQuit, Interrupt, LaunchCut,
         Launches, ConnectCut, startVars
<1>3. interrupts' \in 0..MaxInterrupts
  <2>1. CASE CtrlC
    BY <2>1, CtrlCType
  <2>2. CASE ~CtrlC
    BY <2>2
       DEF OutputEnds, NoDefaultConsole, NoTelnet, TelnetQuit, Interrupt, LaunchCut, ConnectCut,
           TypeOK
  <2>3. QED
    BY <2>1, <2>2
<1>4. opens' \in BOOLEAN /\ (opens' => opens \/ (terminal # "none" /\ telnet[Self] = "none"))
  <2>1. CASE opens' = opens
    BY <2>1 DEF TypeOK
  <2>2. CASE pc = "begin" /\ opens' = OpensTerminals
    <3>1. telnet[Self] = "none"
      BY <2>2 DEF Inv, Phase
    <3>2. OpensTerminals \in BOOLEAN /\ (OpensTerminals => terminal # "none")
      BY DEF OpensTerminals
    <3>3. QED
      BY <2>2, <3>1, <3>2
  <2>3. QED
    BY <1>2, <2>1, <2>2
<1>5. TypeOK'
  BY <1>1, <1>2, <1>3, <1>4, FinallyType DEF TypeOK, RunnerTypeOK, choiceVars
<1>6. Choice'
  BY <1>1, <1>2, <1>4 DEF Choice, Finally, choiceVars
<1>7. QED
  BY <1>5, <1>6

\* telnet is only connected with --console.
LEMMA ConnectType ==
    ASSUME TypeOK, Choice, Inv, ConnectConsole
    PROVE  TypeOK' /\ Choice'
<1>1. /\ UNCHANGED <<proc, announced, pexpects, closed, spc, ret, startVars, pending,
                     lost, interrupts, status>>
      /\ pc = "parse" /\ pc' = "telnet" /\ logger' = "running"
      /\ telnet' = [telnet EXCEPT ![Self] = "running"]
  BY DEF ConnectConsole, PortFound, CreateTelnet
<1>2. args.console
  BY <1>1 DEF Inv, Phase
<1>3. /\ telnet' \in [Fvps -> TelnetStates]
      /\ telnet'[Self] = "running"
  BY <1>1, SelfAssumption DEF TypeOK, RunnerTypeOK, TelnetStates
<1>4. TypeOK'
  BY <1>1, <1>3 DEF TypeOK, RunnerTypeOK, startVars, choiceVars
<1>5. Choice'
  BY <1>1, <1>2, <1>3 DEF Choice, startVars, choiceVars
<1>6. QED
  BY <1>4, <1>5

\* The end of stop(), a Ctrl-C out of it, the exit, and a Ctrl-C before anything starts.
LEMMA ExitType ==
    ASSUME TypeOK, Choice, Inv,
           StopDone \/ InterruptStop \/ InterruptExit \/ InterruptStart \/ LoggerEnds \/ Exit
    PROVE  TypeOK' /\ Choice'
<1>1. /\ UNCHANGED <<proc, announced, telnet, pexpects, closed, ret, startVars, lost>>
      /\ spc' \in {spc, "idle"} /\ logger' \in {logger, "ended"}
      /\ pc' \in {pc, "join", "done"}
  BY DEF StopDone, InterruptStop, InterruptExit, InterruptStart, LoggerEnds, Exit, runnerVars
<1>2. pending' \in Outcomes
  <2>1. CASE StopDone
    BY <2>1 DEF StopDone, TypeOK, Choice, Outcomes, Returns
  <2>2. CASE ~StopDone
    BY <2>2
       DEF InterruptStop, InterruptExit, InterruptStart, LoggerEnds, Exit, TypeOK, Outcomes
  <2>3. QED
    BY <2>1, <2>2
<1>3. status' \in ExitCodes \cup {NoCode}
  BY DEF StopDone, InterruptStop, InterruptExit, InterruptStart, LoggerEnds, Exit,
         TypeOK, Outcomes, ExitCodes, Falls, Returns, Raises, Interrupted, StopCut
<1>4. interrupts' \in 0..MaxInterrupts
  <2>1. CASE CtrlC
    BY <2>1, CtrlCType
  <2>2. CASE ~CtrlC
    BY <2>2 DEF StopDone, InterruptStop, InterruptExit, InterruptStart, LoggerEnds, Exit, TypeOK
  <2>3. QED
    BY <2>1, <2>2
<1>5. TypeOK'
  <2>1. RunnerTypeOK'
    <3>1. proc' = proc
      BY DEF StopDone, InterruptStop, InterruptExit, InterruptStart, LoggerEnds, Exit,
             runnerVars
    <3>2. QED
      BY <1>1, <3>1 DEF TypeOK, RunnerTypeOK
  <2>2. /\ logger' \in {"none", "running", "ended"} /\ UNCHANGED startVars
        /\ lost' \subseteq {"fvp", "telnet"}
    BY <1>1 DEF TypeOK
  <2>3. pc' \in {"args", "config", "begin", "output", "parse", "telnet", "finally", "join", "done"}
    BY DEF StopDone, InterruptStop, InterruptExit, InterruptStart, LoggerEnds, Exit, TypeOK
  <2>4. QED
    BY <1>2, <1>3, <1>4, <2>1, <2>2, <2>3 DEF TypeOK, startVars, choiceVars
<1>6. Choice'
  BY <1>1 DEF Choice, startVars, choiceVars
<1>7. QED
  BY <1>5, <1>6

LEMMA FvpOrTelnetType ==
    ASSUME TypeOK, Choice, Environment
    PROVE  TypeOK' /\ Choice'
<1>1. RunnerTypeOK'
  BY EnvironmentType DEF TypeOK
<1>2. UNCHANGED toolVars /\ UNCHANGED <<spc, ret>>
  BY DEF Environment, FvpAnnounces, FvpExits, TelnetExits
<1>3. TypeOK'
  BY <1>1, <1>2 DEF TypeOK, toolVars, startVars, choiceVars
<1>4. telnet'[Self] # "none" <=> telnet[Self] # "none"
  <2>1. CASE TelnetExits(Self)
    BY <2>1, SelfAssumption DEF TelnetExits, TypeOK, RunnerTypeOK
  <2>2. CASE ~TelnetExits(Self)
    BY <2>2 DEF Environment, FvpAnnounces, FvpExits
  <2>3. QED
    BY <2>1, <2>2
<1>5. Choice'
  BY <1>2, <1>4 DEF Choice, toolVars, startVars, choiceVars
<1>6. QED
  BY <1>3, <1>5

LEMMA TypeInvariant == Spec => [](TypeOK /\ Choice)
<1>1. TypeOK /\ Choice /\ Inv /\ [Next]_vars => (TypeOK /\ Choice)'
  <2> SUFFICES ASSUME TypeOK, Choice, Inv, [Next]_vars PROVE TypeOK' /\ Choice'
    OBVIOUS
  <2>1. CASE UNCHANGED vars
    BY <2>1
       DEF vars, runnerVars, toolVars, startVars, choiceVars, TypeOK, RunnerTypeOK, Choice
  <2>2. CASE Next
    BY <2>2, ParseArgsType, StartType, TryEndsType, ConnectType, StopStepType, ExitType,
       FvpOrTelnetType DEF Next, Tool, User
  <2>3. QED
    BY <2>1, <2>2
<1>2. QED
  BY <1>1, TypeInit, ToolInvariant, PTL DEF Spec

\* Every variable of runfvp keeps its type: stop() never closes more consoles than
\* there are, and only returns 0 or 1.
THEOREM ToolTypeCorrect == Spec => []TypeOK
BY TypeInvariant, PTL

\* The terminal that is used can be used, if neither the user nor runfvp.conf has named
\* it, and never competes with the telnet of --console.
THEOREM TerminalIsAlwaysUsable == Spec => []TerminalIsUsable
<1>1. Choice /\ Inv => TerminalIsUsable
  BY DEF Choice, Inv, Phase, TerminalIsUsable, OneClientPerConsole, AutomaticTerminalIsReady
<1>2. QED
  BY <1>1, TypeInvariant, ToolInvariant, PTL
=============================================================================
