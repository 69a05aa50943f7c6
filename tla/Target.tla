------------------------------- MODULE Target -------------------------------
(***************************************************************************)
(* What is on, or is run on, a target and shares nothing: the tests of its *)
(* devices (FvpDevices), its OP-TEE supplicant (TeeSupplicant), and the    *)
(* driver of its External System (ArmRproc).  A behaviour is of one of     *)
(* them, the others stay as they are.                                      *)
(***************************************************************************)
EXTENDS FvpDevices

CONSTANT MaxStarts   \* bound: daemons launched

VARIABLES
    part,                                                       \* which one
    installed, call, command, status, launched, alive, ending,  \* TeeSupplicant
    called, late,
    device, removing, abandoned, pc, ctrl_reg, expected, tries, \* ArmRproc
    req_status, error, CPUWAIT, RST_REQ, RST_ACK, reset, overtaken

teeVars == <<installed, call, command, status, launched, alive, ending, called, late>>
rprocVars == <<device, removing, abandoned, pc, ctrl_reg, expected, tries, req_status,
               error, CPUWAIT, RST_REQ, RST_ACK, reset, overtaken>>
targetVars == <<part, vars, teeVars, rprocVars>>

Tee == INSTANCE TeeSupplicant WITH step <- command
Rproc == INSTANCE ArmRproc

ASSUME SupplicantAssumption == Tee!Assumptions

\* The state of the tests that are not run is that of a test with nothing to find.
TargetInit ==
    /\ part \in {"devices", "tee-supplicant", "rproc"}
    /\ Init /\ (part # "devices" => test = "watchdog" /\ devices = <<>> /\ works = {}
                                     /\ declared = 0)
    /\ Tee!Init /\ (part # "tee-supplicant" => installed)
    /\ Rproc!Init

DevicesNext == part = "devices" /\ Next /\ UNCHANGED <<part, teeVars, rprocVars>>
SupplicantNext == part = "tee-supplicant" /\ Tee!Next /\ UNCHANGED <<part, vars, rprocVars>>
RprocNext == part = "rproc" /\ Rproc!Next /\ UNCHANGED <<part, vars, teeVars>>
RprocStop == part = "rproc" /\ Rproc!Stop /\ UNCHANGED <<part, vars, teeVars>>

TargetNext == DevicesNext \/ SupplicantNext \/ RprocNext

TargetSpec == TargetInit /\ [][TargetNext]_targetVars /\ WF_targetVars(RprocStop)

-----------------------------------------------------------------------------
\* All three keep their types.
TargetTypeOK == TypeOK /\ Tee!TypeOK /\ Rproc!TypeOK

\* A restart of the supplicant that succeeds has launched a daemon, from every state
\* of the service, unless there is none to launch or the old one is late to end.
RestartStarts == Tee!RestartStarts

\* A core that is offline is halted, out of reset, without a request or an answer,
\* unless it halted for an earlier request while stop() wrote the next.
OfflineIsHalted == Rproc!OfflineIsHalted

\* stop() of the External System returns, whatever the core does.
StopIsBounded == Rproc!StopIsBounded
=============================================================================
