----------------------------- MODULE HostTools -----------------------------
(***************************************************************************)
(* The tools that run on the build host and share nothing: the build of a  *)
(* capsule (CapsuleBuild) and the summary of the machines (Machine-        *)
(* Summary).  A behaviour is of one of them (tool), and the other stays as *)
(* it is.                                                                  *)
(***************************************************************************)
EXTENDS CapsuleBuild

CONSTANTS Machines, Recipes, Bases, Answers                     \* MachineSummary

VARIABLES
    tool,                                                       \* which one
    summaryPc, machine, recipe, to_check, upstreams, versions, output, format,
    written, cut, summaryOutcome, facts                         \* MachineSummary

summaryVars == <<summaryPc, machine, recipe, to_check, upstreams, versions, output,
                 format, written, cut, summaryOutcome, facts>>
toolVars == <<tool, summaryVars, vars>>

MS == INSTANCE MachineSummary WITH pc <- summaryPc, outcome <- summaryOutcome

ASSUME HostToolsAssumption == MS!Assumptions /\ Assumptions

ToolsInit ==
    /\ tool \in {"summary", "capsule"}
    /\ MS!Init /\ (tool = "capsule" => output = "absent" /\ format = "report")
    /\ Init /\ (tool = "summary" => config.selection = <<>>)

SummaryNext == tool = "summary" /\ MS!Next /\ UNCHANGED <<tool, vars>>
CapsuleNext == tool = "capsule" /\ Next /\ UNCHANGED <<tool, summaryVars>>

ToolsNext == SummaryNext \/ CapsuleNext

ToolsSpec == ToolsInit /\ [][ToolsNext]_toolVars

-----------------------------------------------------------------------------
\* Both tools keep their types.
ToolsTypeOK == TypeOK /\ MS!TypeOK

\* Each file of a machine summary agrees with what BitBake and the network answered,
\* and a run that ends well has written all of them.
SummaryIsRight == MS!SummaryIsRight
=============================================================================
