----------------------------- MODULE FvpDevices -----------------------------
(***************************************************************************)
(* meta-arm/lib/oeqa/runtime/cases/fvp_devices.py: the tests of the        *)
(* devices of a machine, run over SSH.  A behaviour is one of the tests    *)
(* against one machine; most of it is about test_cpu_hotplug(), the only   *)
(* one that changes the machine.                                           *)
(*                                                                         *)
(* A step is one SSH command.  It may be refused (255, not executed) or    *)
(* its connection may be lost (255, but executed), so a retry of run_cmd() *)
(* may repeat what was done already.                                       *)
(***************************************************************************)
EXTENDS Integers, FiniteSets, Sequences, Functions

CONSTANTS
    NumCpus,    \* CPUs in the device tree
    Declared,   \* values TEST_CPU_HOTPLUG_NUM_CPUS may have, 0 when not set
    MaxDevices, \* bound: devices of the class that a test looks for
    MaxLosses   \* bound: SSH commands that return 255

ASSUME NumCpusAssumption == NumCpus \in Nat \ {0}
ASSUME DeclaredAssumption == Declared \subseteq Nat
ASSUME BoundsAssumption == MaxDevices \in Nat /\ MaxLosses \in Nat

Cpus == 0..(NumCpus - 1)
Retries == 3

\* The tests of a class of devices, with how many of them there must be.
MinCount == [rtc |-> 1, watchdog |-> 1, networking |-> 2]
Tests == {"cpu_hotplug", "virtiorng"} \cup DOMAIN MinCount

VARIABLES
    test,     \* the test that is run
    devices,  \* the machine: for each device of the class, is its driver right?
    works,    \* the machine: the commands that succeed: hw_random names the device
              \* as "available" and "current", and hwclock, wget or hexdump ("use")
    online,   \* the machine: CPUs that are online
    stuck,    \* the machine: CPUs that do not change, failed at boot or refusing
    declared, \* TEST_CPU_HOTPLUG_NUM_CPUS
    step,     \* the statement of the test
    cpu,      \* its loop variable: the CPU i, or the device
    cmd,      \* "echo" and "cat" in set_cpu(), "other" elsewhere
    retry,    \* run_cmd(): attempts left
    num_cpus, \* self.num_cpus
    result,   \* what the test came to
    wasOff,   \* history: CPUs that have been offline
    gaveUp,   \* history: a run_cmd() ended with 255
    losses    \* commands that returned 255

machineVars == <<test, devices, works, online, stuck, declared, wasOff>>
testVars == <<step, cpu, cmd, retry, num_cpus, result>>
vars == <<machineVars, testVars, gaveUp, losses>>

SetSteps == {"each_off", "each_on", "off", "last", "restore"}
DeviceSteps == {"find", "driver", "available", "current", "use"}
Queries == {"available", "current", "use"}

\* What a class may hold: for each device, whether its driver is the right one.
Classes == UNION {[1..n -> BOOLEAN] : n \in 0..MaxDevices}

TypeOK ==
    /\ test \in Tests
    /\ devices \in Classes
    /\ works \subseteq Queries
    /\ online \subseteq Cpus /\ online # {}
    /\ stuck \subseteq Cpus /\ wasOff \subseteq Cpus
    /\ declared \in Declared
    /\ step \in SetSteps \cup DeviceSteps \cup {"count", "cpuinfo", "done"}
    /\ num_cpus \in Declared \cup {NumCpus}
    /\ cpu \in Nat
    /\ cpu = 0 \/ cpu < (IF step = "driver" THEN Len(devices) ELSE num_cpus)
    /\ cmd \in {"echo", "cat", "other"}
    /\ retry \in 1..Retries
    /\ result \in {"running", "passed", "failed"}
    /\ gaveUp \in BOOLEAN
    /\ losses \in 0..MaxLosses

\* The boot CPU is online; a CPU that is not is stuck.
InitHotplug ==
    /\ stuck \in SUBSET Cpus
    /\ \E dead \in SUBSET (stuck \ {0}) : online = Cpus \ dead
    /\ declared \in Declared
    /\ devices = <<>> /\ works = {}
    /\ step = "count"

InitDevices ==
    /\ stuck = {} /\ online = Cpus
    /\ declared \in Declared
    /\ devices \in Classes
    /\ works \in SUBSET Queries
    /\ step = IF test = "virtiorng" THEN "available" ELSE "find"

Init ==
    /\ test \in Tests
    /\ IF test = "cpu_hotplug" THEN InitHotplug ELSE InitDevices
    /\ wasOff = Cpus \ online
    /\ cpu = 0
    /\ cmd = "other"
    /\ retry = Retries
    /\ num_cpus = NumCpus
    /\ result = "running"
    /\ gaveUp = FALSE
    /\ losses = 0

-----------------------------------------------------------------------------
(* test_cpu_hotplug(), from the answer to one command to the next command. *)

Goto(s, i) ==
    /\ step' = s
    /\ cpu' = i
    /\ cmd' = IF s \in SetSteps THEN "echo" ELSE "other"
    /\ retry' = Retries

\* Mutant: the first CPU is not enabled again.
RestoreOthers(outcome) ==
    /\ Goto("restore", IF num_cpus = 1 THEN 0 ELSE 1)
    /\ result' = outcome

\* The finally block, after the test passed or an assertion failed.
Restore(outcome) ==
    /\ Goto("restore", 0)
    /\ result' = outcome

\* self.fail() and the assertions raise: into the finally block, or out of the
\* test when they are outside of the try block or in the finally block.
Fail ==
    IF step \in DeviceSteps \cup {"count", "restore"}
    THEN Goto("done", 0) /\ result' = "failed"
    ELSE Restore("failed")

\* The last command of one statement leads to the next one.
AfterCpuinfo == IF num_cpus > 1 THEN Goto("each_off", 0) ELSE Goto("last", 0)
AfterEach ==
    IF cpu + 1 < num_cpus THEN Goto("each_off", cpu + 1) ELSE Goto("off", 0)

AfterOff ==
    Goto(IF cpu + 2 < num_cpus THEN "off" ELSE "last", cpu + 1)

\* Mutant: the finally block goes on to one CPU more than the test is about.
RestoreTooMany ==
    IF cpu < num_cpus
    THEN Goto("restore", cpu + 1) /\ UNCHANGED result
    ELSE /\ Goto("done", 0)
         /\ result' = IF result = "running" THEN "passed" ELSE result

AfterRestore ==
    IF cpu + 1 < num_cpus
    THEN Goto("restore", cpu + 1) /\ UNCHANGED result
    ELSE /\ Goto("done", 0)
         /\ result' = IF result = "running" THEN "passed" ELSE result

\* Mutant: the states that disable_cpu() returns are not asserted.
OnlyEnableAsserted(matches) ==
    CASE step = "each_off" -> Goto("each_on", cpu) /\ UNCHANGED result
      [] step = "each_on" -> IF matches THEN AfterEach /\ UNCHANGED result ELSE Fail
      [] step = "off" -> AfterOff /\ UNCHANGED result
      [] step = "last" -> IF matches THEN Fail ELSE Restore("running")
      [] step = "restore" -> AfterRestore

\* What the test does with the value of set_cpu(): is the CPU as it was set?
SetReturns(matches) ==
    CASE step = "each_off" ->
           IF matches THEN Goto("each_on", cpu) /\ UNCHANGED result ELSE Fail
      [] step = "each_on" -> IF matches THEN AfterEach /\ UNCHANGED result ELSE Fail
      [] step = "off" -> IF matches THEN AfterOff /\ UNCHANGED result ELSE Fail
      [] step = "last" -> IF matches THEN Fail ELSE Restore("running")
      [] step = "restore" -> AfterRestore

-----------------------------------------------------------------------------
(* The machine, and run_cmd(). *)

Flag == step \in {"each_on", "restore"}     \* "1" is TRUE
IsOnline == cpu \in online

\* Linux keeps one CPU online.
Accepted == cpu \in Cpus \ stuck /\ (Flag \/ online # {cpu})

Execute ==
    /\ online' = IF cmd # "echo" \/ ~Accepted THEN online
                 ELSE IF Flag THEN online \cup {cpu} ELSE online \ {cpu}
    /\ wasOff' = wasOff \cup (Cpus \ online')
    /\ UNCHANGED <<test, devices, works, stuck, declared>>

\* echo flag > cpuN/online, whose status set_cpu() ignores.
Echo ==
    /\ cmd = "echo"
    /\ Execute
    /\ cmd' = "cat" /\ retry' = Retries
    /\ UNCHANGED <<step, cpu, num_cpus, result, gaveUp, losses>>

\* cat cpuN/online, which fails when the machine has no such CPU.
Cat ==
    /\ cmd = "cat"
    /\ Execute
    /\ IF cpu \in Cpus THEN SetReturns(IsOnline = Flag) ELSE Fail
    /\ UNCHANGED <<num_cpus, gaveUp, losses>>

\* The number of CPUs in the device tree, and TEST_CPU_HOTPLUG_NUM_CPUS.
Count ==
    /\ step = "count"
    /\ Execute
    /\ num_cpus' = IF declared = 0 THEN NumCpus ELSE declared
    /\ Goto("cpuinfo", 0)
    /\ UNCHANGED <<result, gaveUp, losses>>

Cpuinfo ==
    /\ step = "cpuinfo"
    /\ Execute
    /\ IF Cardinality(online) = num_cpus
       THEN AfterCpuinfo /\ UNCHANGED result
       ELSE Fail
    /\ UNCHANGED <<num_cpus, gaveUp, losses>>

-----------------------------------------------------------------------------
(* The other tests: queries that leave the machine as it is. *)

Pass == Goto("done", 0) /\ result' = "passed"

Query == Execute /\ UNCHANGED <<num_cpus, gaveUp, losses>>

\* check_devices() lists the class; a class of none makes find fail.
Find ==
    /\ step = "find"
    /\ Query
    /\ IF Len(devices) >= MinCount[test]
       THEN Goto("driver", 0) /\ UNCHANGED result
       ELSE Fail

HasDriver == TRUE \in Range(devices)

\* Mutant: every device must have one of the drivers.
AllDrivers ==
    /\ step = "driver"
    /\ Query
    /\ IF ~devices[cpu + 1] THEN Fail
       ELSE IF cpu + 1 < Len(devices) THEN Goto("driver", cpu + 1) /\ UNCHANGED result
       ELSE IF test = "watchdog" THEN Pass
       ELSE Goto("use", 0) /\ UNCHANGED result

\* The driver of each device in turn; then one of them must be right, and rtc and
\* networking go on to use the device.
Driver ==
    /\ step = "driver"
    /\ Query
    /\ IF cpu + 1 < Len(devices) THEN Goto("driver", cpu + 1) /\ UNCHANGED result
       ELSE IF ~HasDriver THEN Fail
       ELSE IF test = "watchdog" THEN Pass
       ELSE Goto("use", 0) /\ UNCHANGED result

\* check_rng() twice, and the command that uses the device.
Use ==
    /\ step \in Queries
    /\ Query
    /\ CASE step \notin works -> Fail
         [] step \in works /\ step = "available" -> Goto("current", 0) /\ UNCHANGED result
         [] step \in works /\ step = "current" -> Goto("use", 0) /\ UNCHANGED result
         [] step \in works /\ step = "use" -> Pass

-----------------------------------------------------------------------------
\* SSH returns 255, with the command executed or not: run_cmd() tries again up
\* to three times; then it fails, unless the status is not checked.
Lose ==
    /\ step # "done"
    /\ losses < MaxLosses
    /\ losses' = losses + 1
    /\ Execute \/ UNCHANGED machineVars
    /\ IF retry > 1
       THEN retry' = retry - 1 /\ UNCHANGED <<step, cpu, cmd, result, gaveUp>>
       ELSE /\ gaveUp' = TRUE
            /\ IF cmd = "echo"
               THEN /\ cmd' = "cat" /\ retry' = Retries
                    /\ UNCHANGED <<step, cpu, result>>
               ELSE Fail
    /\ UNCHANGED num_cpus

Next ==
    Count \/ Cpuinfo \/ Echo \/ Cat \/ Find \/ Driver \/ Use \/ Lose

Spec == Init /\ [][Next]_vars

-----------------------------------------------------------------------------
(* Properties. *)

Tested == 0..(num_cpus - 1)

\* The machine has the device that the test is about, and it works.
DeviceIsGood ==
    IF test = "virtiorng" THEN works = Queries
    ELSE /\ Len(devices) >= MinCount[test]
         /\ HasDriver
         /\ test # "watchdog" => "use" \in works

\* A good machine passes, although commands are lost or repeated, as long as no
\* command fails three times in a row: one whose CPUs all work and are as many as
\* it says, or one that has the device, possibly among others.
GoodMachinePasses ==
    step = "done" /\ ~gaveUp
      /\ (IF test = "cpu_hotplug" THEN stuck = {} /\ num_cpus = NumCpus ELSE DeviceIsGood)
        => result = "passed"

\* A test only passes for what the machine can do: each CPU that it is about has
\* really been offline, or the device is there and works.
PassMeansItWorks ==
    result = "passed" =>
        IF test = "cpu_hotplug" THEN num_cpus = 1 \/ Tested \subseteq wasOff
        ELSE DeviceIsGood

\* "Ensure all CPUs are re-enabled": passed or failed, the test leaves no CPU
\* offline that works, unless a command failed three times in a row.
CpusAreReenabled ==
    step = "done" /\ ~gaveUp => (Tested \cap Cpus) \ stuck \subseteq online
=============================================================================
