--------------------------- MODULE FvpTargetProofs ---------------------------
(***************************************************************************)
(* What FvpTarget guarantees for any number of launches and any list of    *)
(* consoles.                                                               *)
(***************************************************************************)
EXTENDS FvpTarget, TLAPS

-----------------------------------------------------------------------------
(* The constants, and the helpers on processes. *)

\* The consoles are the elements of the configured sequence, "default" is one
\* of them, and the runners are numbered from 1.
LEMMA ConstantsType ==
    /\ MaxFvps \in Nat
    /\ Len(ConsoleSeq) \in Nat \ {0}
    /\ DOMAIN ConsoleSeq = 1..Len(ConsoleSeq)
    /\ \A n \in 1..Len(ConsoleSeq) : ConsoleSeq[n] \in Consoles
    /\ DEFAULT_CONSOLE \in Consoles
<1>1. /\ MaxFvps \in Nat
      /\ Len(ConsoleSeq) \in Nat
      /\ DOMAIN ConsoleSeq = 1..Len(ConsoleSeq)
    BY MaxFvpsAssumption, ConsoleSeqAssumption
<1>2. \A n \in 1..Len(ConsoleSeq) : ConsoleSeq[n] \in Consoles
    BY <1>1 DEF Consoles
<1>3. PICK n \in DOMAIN ConsoleSeq : ConsoleSeq[n] = DEFAULT_CONSOLE
    BY DefaultConsoleAssumption DEF Consoles
<1>4. Len(ConsoleSeq) # 0
    BY <1>1, <1>3
<1>5. QED
    BY <1>1, <1>2, <1>4, DefaultConsoleAssumption

\* Polling and signalling a process leave a process; neither changes whether it
\* runs, signals are only added, and only to a process that runs.
LEMMA PolledType ==
    ASSUME NEW p \in Process
    PROVE  /\ Polled(p) \in Process
           /\ Polled(p).status = p.status
           /\ Polled(p).signals = p.signals
    BY DEF Polled, Process

\* A process that is sent a signal keeps its status and its earlier signals.
LEMMA SignalledType ==
    ASSUME NEW p \in Process, NEW s \in {"TERM", "KILL"}
    PROVE  /\ Signalled(p, s) \in Process
           /\ Signalled(p, s).status = p.status
           /\ p.signals \subseteq Signalled(p, s).signals
           /\ p.status = "running" => s \in Signalled(p, s).signals
    BY PolledType DEF Signalled, Process

\* A launched process is a process.
LEMMA LaunchedType ==
    ASSUME NEW p \in Process
    PROVE  /\ [p EXCEPT !.status = "running"] \in Process
           /\ [p EXCEPT !.status = "running"].signals = p.signals
    BY DEF Process

\* Every step of stop() keeps the types, and changes nothing of other runners.
LEMMA StopType ==
    ASSUME RunnerTypeOK, NEW i \in Fvps, Stop(i)
    PROVE  RunnerTypeOK'
<1> USE DEF RunnerTypeOK, StopSteps, ExitCodes, SIGSEGV, SIGTERM, SIGKILL
<1>1. CASE StopTerminate(i)
    BY <1>1, SignalledType DEF StopTerminate
<1>2. CASE StopWait(i)
    BY <1>2, PolledType DEF StopWait
<1>3. CASE StopWaitExpired(i)
    BY <1>3 DEF StopWaitExpired
<1>4. CASE StopKill(i)
    BY <1>4, SignalledType DEF StopKill
<1>5. CASE StopTelnet(i)
    BY <1>5 DEF StopTelnet, TelnetStates
<1>6. CASE StopTelnetWait(i)
    BY <1>6 DEF StopTelnetWait
<1>7. CASE StopTelnetKill(i)
    BY <1>7 DEF StopTelnetKill, TelnetStates
<1>8. CASE StopPexpect(i)
    BY <1>8, ConstantsType DEF StopPexpect
<1>9. CASE StopReturn(i)
    BY <1>9 DEF StopReturn, ReturnCode, Process, NoCode
<1>10. QED
    BY <1>1, <1>2, <1>3, <1>4, <1>5, <1>6, <1>7, <1>8, <1>9 DEF Stop

-----------------------------------------------------------------------------
(* Type correctness. *)

\* A target that nobody used yet has the types.
LEMMA TypeOKInit == Init => TypeOK
<1> SUFFICES ASSUME Init PROVE TypeOK
    OBVIOUS
<1>1. RunnerTypeOK
    BY ConstantsType DEF Init, RunnerInit, RunnerTypeOK, Process, ExitCodes, StopSteps, TelnetStates
<1>2. 0 \in 0..MaxFvps
    BY ConstantsType
<1>3. QED
    BY <1>1, <1>2 DEF Init, TypeOK, OEFVPTargetState

\* The environment's steps keep the types of the runners.
LEMMA EnvironmentType ==
    ASSUME RunnerTypeOK, NEW i \in Fvps,
           \/ \E c \in Consoles : FvpAnnounces(i, c)
           \/ FvpExits(i)
    PROVE  RunnerTypeOK'
<1>1. CASE \E c \in Consoles : FvpAnnounces(i, c)
    BY <1>1 DEF FvpAnnounces, RunnerTypeOK
<1>2. CASE FvpExits(i)
  <2> DEFINE q(c) == [proc[i] EXCEPT !.status = "exited", !.code = c]
  <2>1. PICK c \in ExitCodes : proc' = [proc EXCEPT ![i] = q(c)]
    BY <1>2 DEF FvpExits
  <2>2. q(c) \in Process
    BY DEF RunnerTypeOK, Process
  <2>3. proc' \in [Fvps -> Process]
    BY <2>1, <2>2 DEF RunnerTypeOK
  <2>4. QED
    BY <1>2, <2>3 DEF FvpExits, RunnerTypeOK
<1>3. QED
    BY <1>1, <1>2

(***************************************************************************)
(* The control of transition(): where it can be, in which state, and that  *)
(* there is a current runner whenever one is used.  TypeOK is not          *)
(* inductive without it (self.fvp does not exist before the first start).  *)
(***************************************************************************)
Control ==
    /\ state # "off" => fvp # 0
    /\ pc = "stop" <=> spc # "idle"
    /\ pc = "stop" => state # "off" /\ want # "linux"
    /\ pc = "stop" /\ want # "off" => fvp < MaxFvps
    /\ pc = "start" => state = "off" /\ fvp < MaxFvps /\ want # "off"
    /\ pc = "consoles" => state = "off" /\ fvp # 0 /\ want # "off"
    /\ pc = "login" => state = "on" /\ want = "linux"

\* ... and every step of transition() and of a runner keeps them.
LEMMA TypeOKNext == TypeOK /\ Control /\ [Next]_vars => TypeOK'
<1> SUFFICES ASSUME TypeOK, Control, [Next]_vars PROVE TypeOK'
    OBVIOUS
<1> USE DEF TypeOK, OEFVPTargetState
<1>0. /\ MaxFvps \in Nat /\ fvp \in Nat
      /\ state # "off" \/ pc = "consoles" => fvp \in Fvps
      /\ pc \in {"stop", "login"} => fvp \in Fvps
      /\ pc = "start" => fvp + 1 \in Fvps /\ fvp + 1 \in 0..MaxFvps
    BY ConstantsType DEF Control, Fvps
<1>1. ASSUME NEW w \in OEFVPTargetState, CallTransition(w) PROVE TypeOK'
  <2>1. pc' \in {"stop", "start", "login"}
    BY <1>1 DEF CallTransition, FirstLeg
  <2>2. spc' \in StopSteps \cup {"idle"}
    BY <1>1 DEF CallTransition, RunnerTypeOK, StopSteps
  <2>3. QED
    BY <1>1, <2>1, <2>2 DEF CallTransition, RunnerTypeOK
<1>3. CASE CallPexpect
    BY <1>3 DEF CallPexpect, runnerVars, RunnerTypeOK
<1>4. CASE StopStep
    BY <1>0, <1>4, StopType DEF StopStep, targetVars
<1>5. CASE StopDone
    BY <1>5 DEF StopDone, RunnerTypeOK
<1>6. CASE StartFvp
  <2>0. [proc[fvp + 1] EXCEPT !.status = "running"] \in Process
    <3>1. proc[fvp + 1] \in Process
      BY <1>0, <1>6 DEF StartFvp, NewRunner, RunnerTypeOK
    <3>2. QED
      BY <3>1, LaunchedType
  <2>1. proc' \in [Fvps -> Process]
    BY <2>0, <1>6 DEF StartFvp, Launch, RunnerTypeOK
  <2>2. RunnerTypeOK'
    <3>1. UNCHANGED <<announced, telnet, pexpects, closed, spc, ret>>
      BY <1>6 DEF StartFvp, NewRunner
    <3>2. QED
      BY <2>1, <3>1 DEF RunnerTypeOK
  <2>3. fvp' \in 0..MaxFvps /\ logfiles' \in [Fvps -> BOOLEAN] /\ pc' = "consoles"
    BY <1>0, <1>6 DEF StartFvp, NewRunner
  <2>4. QED
    BY <1>6, <2>2, <2>3 DEF StartFvp, NewRunner
<1>7. CASE StartRaises
    BY <1>0, <1>7 DEF StartRaises, NewRunner, RunnerTypeOK
<1>8. CASE SetupConsole
  <2>1. pexpects' \in [Fvps -> 0..Len(ConsoleSeq)]
    BY <1>0, <1>8, ConstantsType DEF SetupConsole, CreatePexpect, RunnerTypeOK
  <2>2. terminals' \in [Consoles -> 0..MaxFvps]
    BY <1>8 DEF SetupConsole
  <2>3. QED
    BY <1>8, <2>1, <2>2 DEF SetupConsole, RunnerTypeOK
<1>9. CASE SpawnRaises
    BY <1>9 DEF SpawnRaises, runnerVars, RunnerTypeOK
<1>10. CASE SetupDone
    BY <1>10 DEF SetupDone, runnerVars, RunnerTypeOK
<1>11. CASE LoginFound
    BY <1>11 DEF LoginFound, runnerVars, RunnerTypeOK
<1>12. CASE LoginRaises
    BY <1>12 DEF LoginRaises, runnerVars, RunnerTypeOK
<1>13. ASSUME NEW i \in Fvps, Fvp(i) PROVE TypeOK'
  <2>1. CASE FvpPrompts(i)
    BY <2>1 DEF FvpPrompts, runnerVars, RunnerTypeOK
  <2>2. CASE /\ (\E c \in Consoles : FvpAnnounces(i, c)) \/ FvpExits(i)
             /\ UNCHANGED targetVars
    BY <2>2, EnvironmentType DEF targetVars
  <2>3. QED
    BY <1>13, <2>1, <2>2 DEF Fvp
<1>14. CASE UNCHANGED vars
    BY <1>14 DEF vars, runnerVars, targetVars, RunnerTypeOK
<1>15. QED
    BY <1>1, <1>3, <1>4, <1>5, <1>6, <1>7, <1>8, <1>9, <1>10, <1>11, <1>12,
       <1>13, <1>14
    DEF Next, Call, Leg, StopTarget, Run, TransitionOn

\* No step takes transition() to a state of the target that it cannot be in.
LEMMA ControlNext == TypeOK /\ Control /\ [Next]_vars => Control'
<1> SUFFICES ASSUME TypeOK, Control, [Next]_vars PROVE Control'
    OBVIOUS
<1> USE DEF Control, TypeOK, OEFVPTargetState
<1>0. MaxFvps \in Nat /\ fvp \in Nat
    BY ConstantsType
<1>1. ASSUME NEW w \in OEFVPTargetState, CallTransition(w) PROVE Control'
  <2>1. CASE w = "off"
    BY <1>1, <2>1 DEF CallTransition, FirstLeg
  <2>2. CASE w = "on"
    BY <1>1, <2>2 DEF CallTransition, FirstLeg
  <2>3. CASE w = "linux"
    BY <1>1, <2>3 DEF CallTransition, FirstLeg
  <2>4. QED
    BY <2>1, <2>2, <2>3
<1>3. CASE CallPexpect
    BY <1>3 DEF CallPexpect, runnerVars
<1>4. CASE StopStep
  <2>1. spc' # "idle"
    BY <1>4 DEF StopStep, Stop, StopTerminate, StopWait, StopWaitExpired, StopKill,
                StopTelnet, StopTelnetWait, StopTelnetKill, StopPexpect, StopReturn
  <2>2. QED
    BY <1>4, <2>1 DEF StopStep, targetVars
<1>5. CASE StopDone
    BY <1>5 DEF StopDone
<1>6. CASE StartFvp
    BY <1>0, <1>6 DEF StartFvp, NewRunner
<1>7. CASE StartRaises
    BY <1>0, <1>7 DEF StartRaises, NewRunner
<1>8. CASE SetupConsole
    BY <1>8 DEF SetupConsole
<1>9. CASE SpawnRaises
    BY <1>9 DEF SpawnRaises, runnerVars
<1>10. CASE SetupDone
    BY <1>10 DEF SetupDone, runnerVars
<1>11. CASE LoginFound
    BY <1>11 DEF LoginFound, runnerVars
<1>12. CASE LoginRaises
    BY <1>12 DEF LoginRaises, runnerVars
<1>13. ASSUME NEW i \in Fvps, Fvp(i) PROVE Control'
    BY <1>13 DEF Fvp, FvpPrompts, FvpAnnounces, FvpExits, runnerVars, targetVars
<1>14. CASE UNCHANGED vars
    BY <1>14 DEF vars, runnerVars, targetVars
<1>15. QED
    BY <1>1, <1>3, <1>4, <1>5, <1>6, <1>7, <1>8, <1>9, <1>10, <1>11, <1>12,
       <1>13, <1>14
    DEF Next, Call, Leg, StopTarget, Run, TransitionOn

\* Every variable keeps its type, and transition() is only where its state
\* allows it to be: in particular stop() is never called without an FVP.
THEOREM TypeCorrect == Spec => [](TypeOK /\ Control)
<1>1. Init => TypeOK /\ Control
    BY TypeOKInit DEF Init, RunnerInit, Control
<1>2. TypeOK /\ Control /\ [Next]_vars => (TypeOK /\ Control)'
    BY TypeOKNext, ControlNext
<1>3. QED
    BY <1>1, <1>2, PTL DEF Spec

-----------------------------------------------------------------------------
(***************************************************************************)
(* Safety.  UpIsConnected, LinuxSawLogin, NoLostFvp and OthersAreKilled    *)
(* are not inductive by themselves.  Safe adds what holds on the way:      *)
(* runners not created yet are untouched (Fresh), the consoles are         *)
(* connected one after the other (Connecting), stop() has signalled the    *)
(* FVP before it goes on to the clients (Stopping), and an FVP that was    *)
(* stopped, or replaced, has ended or been killed, its log files closed,   *)
(* unless its start-up raised (Ended).                                     *)
(***************************************************************************)
Fresh ==
    \A i \in Fvps : i > fvp =>
        /\ proc[i].status = "none" /\ proc[i].signals = {}
        /\ pexpects[i] = 0 /\ closed[i] = 0
        /\ ~logfiles[i]

Connecting ==
    pc = "consoles" =>
        /\ proc[fvp].status # "none" /\ proc[fvp].signals = {}
        /\ logfiles[fvp] /\ closed[fvp] = 0
        /\ \A n \in 1..pexpects[fvp] : terminals[ConsoleSeq[n]] = fvp

Stopping ==
    pc = "stop" /\ Running(fvp) =>
        /\ spc # "terminate" => "TERM" \in proc[fvp].signals
        /\ spc \in {"telnet", "telnetwait", "pexpect", "return"} =>
              "KILL" \in proc[fvp].signals

Gone(i) == ~logfiles[i] /\ (Running(i) => "KILL" \in proc[i].signals)

Ended ==
    /\ \A i \in Fvps : i # fvp /\ ~raised[i] => Gone(i)
    /\ fvp # 0 /\ state = "off" /\ pc \in {"idle", "start"} /\ ~raised[fvp] =>
          Gone(fvp)

Safe == Fresh /\ Connecting /\ UpIsConnected /\ LinuxSawLogin /\ Stopping /\ Ended

\* Before the first start-up there is no FVP to lose.
LEMMA SafeInit == Init => Safe
    BY DEF Init, RunnerInit, Safe, Fresh, Connecting, UpIsConnected, LinuxSawLogin,
           Stopping, Ended, Gone, Running, Fvps

(***************************************************************************)
(* What the steps of stop() and of the FVPs do to the processes: a process *)
(* comes to run only by a launch, and keeps the signals it was sent.       *)
(***************************************************************************)
Ages(p, q) ==
    /\ q.status = "running" => p.status = "running"
    /\ p.status # "none" => q.status # "none"
    /\ p.signals \subseteq q.signals

\* What stop() does to a runner leaves the FVPs of the other ones as they are.
LEMMA StopAges ==
    ASSUME RunnerTypeOK, NEW i \in Fvps, Stop(i)
    PROVE  /\ \A j \in Fvps : Ages(proc[j], proc'[j])
           /\ \A j \in Fvps : j # i => /\ proc'[j] = proc[j]
                                      /\ closed'[j] = closed[j]
           /\ UNCHANGED pexpects
<1> USE DEF RunnerTypeOK, Ages
<1>1. CASE StopTerminate(i)
    BY <1>1, SignalledType DEF StopTerminate
<1>2. CASE StopWait(i)
    BY <1>2, PolledType DEF StopWait
<1>3. CASE StopWaitExpired(i)
    BY <1>3 DEF StopWaitExpired
<1>4. CASE StopKill(i)
    BY <1>4, SignalledType DEF StopKill
<1>5. CASE StopTelnet(i)
    BY <1>5 DEF StopTelnet, TelnetStates
<1>6. CASE StopTelnetWait(i)
    BY <1>6 DEF StopTelnetWait
<1>7. CASE StopTelnetKill(i)
    BY <1>7 DEF StopTelnetKill, TelnetStates
<1>8. CASE StopPexpect(i)
    BY <1>8 DEF StopPexpect
<1>9. CASE StopReturn(i)
    BY <1>9 DEF StopReturn
<1>10. QED
    BY <1>1, <1>2, <1>3, <1>4, <1>5, <1>6, <1>7, <1>8, <1>9 DEF Stop

\* stop() has sent SIGTERM before it waits, and SIGKILL, if the FVP has not
\* ended by then, before it turns to the clients.
LEMMA StopSignals ==
    ASSUME TypeOK, Control, Safe, StopStep
    PROVE  Stopping'
<1> USE DEF Stopping, RunnerTypeOK, TypeOK, StopStep, targetVars, Running
<1>0. fvp \in Fvps /\ Stopping /\ proc[fvp] \in Process /\ pc = "stop"
    BY ConstantsType DEF Control, Safe, Fvps
<1>1. CASE StopTerminate(fvp)
  <2>1. CASE proc[fvp].status = "none"
    BY <1>0, <1>1, <2>1 DEF StopTerminate
  <2>2. CASE proc[fvp].status # "none"
    <3>1. proc'[fvp] = Signalled(proc[fvp], "TERM") /\ spc' = "wait"
      BY <1>0, <1>1, <2>2 DEF StopTerminate
    <3>2. QED
      BY <1>0, <3>1, SignalledType
  <2>3. QED
    BY <2>1, <2>2
<1>2. CASE StopWait(fvp)
    BY <1>0, <1>2, PolledType DEF StopWait, Exited
<1>3. CASE StopWaitExpired(fvp)
    BY <1>0, <1>3 DEF StopWaitExpired
<1>4. CASE StopKill(fvp)
  <2>1. proc'[fvp] = Signalled(proc[fvp], "KILL") /\ spc = "kill"
    BY <1>0, <1>4 DEF StopKill
  <2>2. QED
    BY <1>0, <2>1, SignalledType
<1>5. CASE StopTelnet(fvp)
    BY <1>0, <1>5 DEF StopTelnet
<1>6. CASE StopTelnetWait(fvp)
    BY <1>0, <1>6 DEF StopTelnetWait
<1>7. CASE StopTelnetKill(fvp)
    BY <1>0, <1>7 DEF StopTelnetKill
<1>8. CASE StopPexpect(fvp)
    BY <1>0, <1>8 DEF StopPexpect
<1>9. CASE StopReturn(fvp)
    BY <1>0, <1>9 DEF StopReturn
<1>10. QED
    BY <1>1, <1>2, <1>3, <1>4, <1>5, <1>6, <1>7, <1>8, <1>9 DEF Stop

\* What an FVP does by itself: it may end, and the controller has not noticed.
LEMMA FvpAges ==
    ASSUME TypeOK, NEW i \in Fvps, Fvp(i)
    PROVE  /\ \A j \in Fvps : /\ Ages(proc[j], proc'[j])
                              /\ proc'[j].status = "none" <=> proc[j].status = "none"
                              /\ proc'[j].signals = proc[j].signals
           /\ UNCHANGED <<pexpects, closed, spc, state, want, pc, fvp, terminals,
                          logfiles, seenLogin, raised>>
<1> USE DEF TypeOK, RunnerTypeOK, Ages
<1>1. CASE FvpPrompts(i)
    BY <1>1 DEF FvpPrompts, runnerVars
<1>2. CASE (\E c \in Consoles : FvpAnnounces(i, c)) /\ UNCHANGED targetVars
    BY <1>2 DEF FvpAnnounces, targetVars
<1>3. CASE FvpExits(i) /\ UNCHANGED targetVars
  <2>1. PICK c \in ExitCodes :
          proc' = [proc EXCEPT ![i] = [@ EXCEPT !.status = "exited", !.code = c]]
    BY <1>3 DEF FvpExits
  <2>2. proc[i] \in Process /\ proc[i].status = "running"
    BY <1>3 DEF FvpExits, Running
  <2>3. /\ proc'[i].status = "exited" /\ proc'[i].signals = proc[i].signals
        /\ \A j \in Fvps : j # i => proc'[j] = proc[j]
    BY <2>1, <2>2 DEF Process
  <2>4. QED
    BY <1>3, <2>2, <2>3 DEF FvpExits, targetVars
<1>4. QED
    BY <1>1, <1>2, <1>3 DEF Fvp

\* The next runner to be created is untouched.
LEMMA NextIsFresh ==
    ASSUME TypeOK, Fresh, fvp + 1 \in Fvps
    PROVE  /\ proc[fvp + 1] \in Process
           /\ proc[fvp + 1].status = "none" /\ proc[fvp + 1].signals = {}
           /\ pexpects[fvp + 1] = 0 /\ closed[fvp + 1] = 0
<1>1. fvp + 1 > fvp
    BY ConstantsType DEF TypeOK
<1>2. QED
    BY <1>1 DEF Fresh, TypeOK, RunnerTypeOK

\* No step loses an FVP or gives a console of another one to the tests.
LEMMA SafeNext == TypeOK /\ Control /\ Safe /\ [Next]_vars => Safe'
<1> SUFFICES ASSUME TypeOK, Control, Safe, [Next]_vars PROVE Safe'
    OBVIOUS
<1>0. /\ MaxFvps \in Nat /\ fvp \in Nat
      /\ fvp # 0 => fvp \in Fvps
      /\ pc = "start" => fvp + 1 \in Fvps
      /\ \A i \in Fvps : i \in Int
    BY ConstantsType DEF Control, Fvps, TypeOK
<1> USE DEF Safe, Fresh, Connecting, UpIsConnected, LinuxSawLogin, Stopping, Ended,
            Gone, Running
<1>1. ASSUME NEW w \in OEFVPTargetState, CallTransition(w) PROVE Safe'
  <2>1. /\ UNCHANGED <<proc, pexpects, closed, state, fvp, terminals, logfiles,
                       seenLogin, raised>>
        /\ pc' \in {"stop", "start", "login"} /\ pc = "idle" /\ spc = "idle"
        /\ pc' = "start" => state = "off"
        /\ pc' = "stop" => spc' = "terminate"
    BY <1>1 DEF CallTransition, FirstLeg, Control, OEFVPTargetState, TypeOK
  <2>2. QED
    BY <2>1
<1>3. CASE CallPexpect
    BY <1>3 DEF CallPexpect, runnerVars
<1>4. CASE StopStep
  <2>1. /\ pc = "stop" /\ fvp \in Fvps /\ state # "off"
        /\ UNCHANGED <<state, want, pc, fvp, terminals, logfiles, seenLogin, raised>>
    BY <1>0, <1>4 DEF StopStep, targetVars, Control
  <2>2. /\ \A j \in Fvps : j # fvp => proc'[j] = proc[j] /\ closed'[j] = closed[j]
        /\ UNCHANGED pexpects
    BY <1>4, <2>1, StopAges DEF StopStep, TypeOK
  <2>3. Fresh' /\ Ended'
    BY <1>0, <2>1, <2>2
  <2>4. Stopping'
    BY <1>4, StopSignals
  <2>5. QED
    BY <2>1, <2>3, <2>4
<1>5. CASE StopDone
  <2>1. /\ pc = "stop" /\ spc = "return" /\ fvp \in Fvps
        /\ UNCHANGED <<proc, pexpects, closed, fvp, terminals, seenLogin, raised>>
        /\ logfiles' = [logfiles EXCEPT ![fvp] = FALSE]
        /\ state' = "off" /\ pc' \in {"idle", "start"}
    BY <1>0, <1>5 DEF StopDone, Control
  <2>2. \A j \in Fvps : logfiles'[j] => logfiles[j] /\ j # fvp
    BY <2>1 DEF TypeOK
  <2>3. QED
    BY <2>1, <2>2
<1>6. ASSUME NewRunner, proc' = proc \/ Launch(fvp + 1), pc' \in {"idle", "consoles"},
             pc' = "consoles" => Launch(fvp + 1),
             \A j \in Fvps : j # fvp + 1 => raised'[j] = raised[j],
             pc' = "idle" => raised'[fvp + 1]
      PROVE Safe'
  <2>1. /\ pc = "start" /\ state = "off" /\ fvp + 1 \in Fvps /\ fvp' = fvp + 1
        /\ UNCHANGED <<pexpects, closed, spc, state, terminals, seenLogin>>
    BY <1>0, <1>6 DEF NewRunner, Control
  <2>2. /\ \A j \in Fvps : j # fvp + 1 => proc'[j] = proc[j] /\ logfiles'[j] = logfiles[j]
        /\ logfiles'[fvp + 1]
    BY <1>6, <2>1 DEF NewRunner, Launch, TypeOK, RunnerTypeOK
  <2>3. pc' = "consoles" => proc'[fvp + 1].status # "none" /\ proc'[fvp + 1].signals = {}
    <3>1. proc[fvp + 1] \in Process /\ proc[fvp + 1].signals = {}
      BY <2>1, NextIsFresh
    <3>2. pc' = "consoles" => proc'[fvp + 1] = [proc[fvp + 1] EXCEPT !.status = "running"]
      BY <1>6, <2>1 DEF Launch, TypeOK, RunnerTypeOK
    <3>3. [proc[fvp + 1] EXCEPT !.status = "running"].status = "running"
      BY <3>1 DEF Process
    <3>4. QED
      BY <3>1, <3>2, <3>3, LaunchedType
  <2>4. pexpects[fvp + 1] = 0 /\ closed[fvp + 1] = 0
    BY <2>1, NextIsFresh
  <2>5. Fresh'
    BY <1>0, <2>1, <2>2
  <2>6. Connecting'
    BY <2>1, <2>2, <2>3, <2>4
  <2>7. Ended'
    <3>1. ASSUME NEW j \in Fvps, ~raised[j] PROVE Gone(j)
      <4>1. CASE j = fvp
        <5>1. fvp # 0
          BY <4>1 DEF Fvps
        <5>2. QED
          BY <2>1, <3>1, <4>1, <5>1
      <4>2. CASE j # fvp
        BY <3>1, <4>2
      <4>3. QED
        BY <4>1, <4>2
    <3>2. QED
      BY <1>6, <2>1, <2>2, <3>1
  <2>8. QED
    BY <1>6, <2>1, <2>5, <2>6, <2>7
<1>7. CASE StartFvp
    BY <1>6, <1>7 DEF StartFvp
<1>8. CASE StartRaises
  <2>1. raised'[fvp + 1] /\ \A j \in Fvps : j # fvp + 1 => raised'[j] = raised[j]
    BY <1>0, <1>8 DEF StartRaises, NewRunner, TypeOK
  <2>2. QED
    BY <1>6, <1>8, <2>1 DEF StartRaises
<1>9. CASE SetupConsole
  <2>1. /\ pc = "consoles" /\ fvp \in Fvps /\ state = "off"
        /\ pexpects[fvp] \in Nat /\ pexpects[fvp] < Len(ConsoleSeq)
        /\ UNCHANGED <<proc, closed, spc, state, pc, fvp, logfiles, seenLogin, raised>>
        /\ terminals' = [terminals EXCEPT ![ConsoleSeq[pexpects[fvp] + 1]] = fvp]
        /\ pexpects' = [pexpects EXCEPT ![fvp] = @ + 1]
    BY <1>0, <1>9, ConstantsType
    DEF SetupConsole, CreatePexpect, Control, TypeOK, RunnerTypeOK
  <2>2. /\ pexpects'[fvp] = pexpects[fvp] + 1
        /\ \A j \in Fvps : j # fvp => pexpects'[j] = pexpects[j]
    BY <2>1 DEF TypeOK, RunnerTypeOK
  <2>3. \A n \in 1..(pexpects[fvp] + 1) : terminals'[ConsoleSeq[n]] = fvp
    <3>1. \A n \in 1..(pexpects[fvp] + 1) : ConsoleSeq[n] \in Consoles
      BY <2>1, ConstantsType
    <3>2. \A n \in 1..(pexpects[fvp] + 1) :
            n = pexpects[fvp] + 1 \/ n \in 1..pexpects[fvp]
      BY <2>1
    <3>3. QED
      BY <2>1, <3>1, <3>2 DEF TypeOK
  <2>4. Fresh' /\ Ended'
    BY <1>0, <2>1, <2>2
  <2>5. Connecting'
    BY <2>1, <2>2, <2>3
  <2>6. QED
    BY <2>1, <2>4, <2>5
<1>10. CASE SpawnRaises
  <2>1. /\ fvp \in Fvps /\ state = "off" /\ pc = "consoles" /\ pc' = "idle"
        /\ raised' = [raised EXCEPT ![fvp] = TRUE]
        /\ UNCHANGED <<proc, pexpects, closed, spc, state, fvp, terminals, logfiles,
                       seenLogin>>
    BY <1>0, <1>10 DEF SpawnRaises, runnerVars, Control
  <2>2. raised'[fvp] /\ \A j \in Fvps : j # fvp => raised'[j] = raised[j]
    BY <2>1 DEF TypeOK
  <2>3. QED
    BY <2>1, <2>2
<1>11. CASE SetupDone
  <2>1. /\ pc = "consoles" /\ fvp \in Fvps /\ fvp # 0 /\ pexpects[fvp] = Len(ConsoleSeq)
        /\ UNCHANGED <<proc, pexpects, closed, spc, fvp, terminals, logfiles, seenLogin,
                       raised>>
        /\ state' = "on" /\ pc' \in {"idle", "login"}
    BY <1>0, <1>11 DEF SetupDone, runnerVars, Control
  <2>2. \A c \in Consoles : terminals[c] = fvp
    BY <2>1, ConstantsType DEF Consoles
  <2>3. UpIsConnected'
    BY <2>1, <2>2
  <2>4. Fresh' /\ Ended'
    BY <2>1
  <2>5. QED
    BY <2>1, <2>3, <2>4
<1>12. CASE LoginFound
  <2>1. /\ pc = "login" /\ state = "on" /\ fvp \in Fvps
        /\ UNCHANGED <<proc, pexpects, closed, spc, fvp, terminals, logfiles, raised>>
        /\ terminals[DEFAULT_CONSOLE] = fvp
        /\ state' = "linux" /\ pc' = "idle"
    BY <1>0, <1>12, ConstantsType DEF LoginFound, runnerVars, Control
  <2>2. seenLogin'[fvp]
    BY <1>12, <2>1 DEF LoginFound, TypeOK
  <2>3. QED
    BY <2>1, <2>2
<1>13. CASE LoginRaises
    BY <1>13 DEF LoginRaises, runnerVars, Control
<1>14. ASSUME NEW i \in Fvps, Fvp(i) PROVE Safe'
  <2>1. /\ \A j \in Fvps : /\ proc'[j].status = "running" => proc[j].status = "running"
                           /\ proc'[j].status = "none" <=> proc[j].status = "none"
                           /\ proc'[j].signals = proc[j].signals
        /\ UNCHANGED <<pexpects, closed, spc, state, want, pc, fvp, terminals,
                       logfiles, seenLogin, raised>>
    BY <1>14, FvpAges DEF Ages
  <2>2. pc \in {"consoles", "stop"} \/ state # "off" => fvp \in Fvps
    BY <1>0 DEF Control
  <2>3. Fresh' /\ Ended'
    BY <1>0, <2>1
  <2>4. Connecting' /\ UpIsConnected' /\ LinuxSawLogin' /\ Stopping'
    BY <2>1, <2>2
  <2>5. QED
    BY <2>3, <2>4
<1>15. CASE UNCHANGED vars
    BY <1>15 DEF vars, runnerVars, targetVars
<1>16. QED
    BY <1>1, <1>3, <1>4, <1>5, <1>7, <1>8, <1>9, <1>10, <1>11, <1>12, <1>13,
       <1>14, <1>15
    DEF Next, Call, Leg, StopTarget, Run, TransitionOn, OEFVPTargetState

\* The invariant, of every behaviour.
LEMMA TargetInvariant == Spec => [](TypeOK /\ Control /\ Safe)
<1>1. Init => TypeOK /\ Control /\ Safe
    BY TypeOKInit, SafeInit DEF Init, RunnerInit, Control
<1>2. TypeOK /\ Control /\ Safe /\ [Next]_vars => (TypeOK /\ Control /\ Safe)'
    BY TypeOKNext, ControlNext, SafeNext
<1>3. QED
    BY <1>1, <1>2, PTL DEF Spec

\* Whatever the FVPs, the caller and the timeouts do: a target that is up is
\* connected on every console to the one FVP it runs, which nobody has signalled,
\* and "linux" is only ever said of an FVP that has shown its login prompt.
THEOREM StateIsAlwaysTrue == Spec => []StateIsTrue
<1>1. Safe => StateIsTrue
    BY DEF Safe, StateIsTrue
<1>2. QED
    BY <1>1, TargetInvariant, PTL

\* No FVP is lost but one whose start-up raised, however many are started.
THEOREM NoFvpIsLost == Spec => []NoLostFvp
<1>1. TypeOK /\ Control /\ Safe => NoLostFvp
  <2> SUFFICES ASSUME TypeOK, Control, Safe PROVE NoLostFvp
    OBVIOUS
  <2>1. fvp = 0 \/ fvp \in Fvps
    BY ConstantsType DEF TypeOK, Fvps
  <2>2. \A i \in Fvps : i # 0
    BY DEF Fvps
  <2>3. QED
    BY <2>1, <2>2 DEF TypeOK, Safe, Ended, Gone, NoLostFvp, Unsignalled, Current, Running,
       Control
<1>2. QED
    BY <1>1, TargetInvariant, PTL

\* When a new FVP starts, every earlier one that is still alive has been sent
\* SIGKILL, unless its start-up raised.
THEOREM OthersAreAlwaysKilled == Spec => []OthersAreKilled
<1>1. TypeOK /\ Control /\ Safe => OthersAreKilled
  <2> SUFFICES ASSUME TypeOK, Control, Safe PROVE OthersAreKilled
    OBVIOUS
  <2>1. fvp = 0 \/ fvp \in Fvps
    BY ConstantsType DEF TypeOK, Fvps
  <2>2. \A i \in Fvps : i # 0
    BY DEF Fvps
  <2>3. QED
    BY <2>1, <2>2 DEF TypeOK, Safe, Ended, Gone, OthersAreKilled, Running, Control
<1>2. QED
    BY <1>1, TargetInvariant, PTL

=============================================================================
