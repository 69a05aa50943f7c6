---------------------------- MODULE TargetProofs ----------------------------
(***************************************************************************)
(* What is on, or is run on, a target.                                     *)
(*                                                                         *)
(* FvpDevices: the device tests, for any number of CPUs and devices, any   *)
(* declared number of CPUs and any number of lost commands: what a pass    *)
(* means, that a good machine passes, and that the test re-enables the     *)
(* CPUs.  TeeSupplicant: what a restart comes to, for any number of        *)
(* daemons.  ArmRproc: what "offline" means, whatever the core answers.    *)
(***************************************************************************)
EXTENDS Target, FiniteSetTheorems, TLAPS

-----------------------------------------------------------------------------
(***************************************************************************)
(* The inductive invariant.                                                *)
(***************************************************************************)
Hotplug == test = "cpu_hotplug"
HotplugSteps == SetSteps \cup {"count", "cpuinfo"}

\* Which step belongs to which test, where its loop is, and what the result may
\* be there: "passed" and "failed" are only final when the finally block is over.
Control ==
    /\ num_cpus > 0
    /\ step = "count" => num_cpus = NumCpus
    /\ step \in HotplugSteps => Hotplug
    /\ step \in DeviceSteps => ~Hotplug
    /\ step \in {"find", "driver"} => test \in DOMAIN MinCount
    /\ step \in {"available", "current"} => test = "virtiorng"
    /\ step = "use" => test # "watchdog"
    /\ step \in SetSteps <=> cmd # "other"
    /\ step \in SetSteps => cpu < num_cpus
    /\ step \in {"each_off", "each_on"} => num_cpus > 1
    /\ step = "off" => cpu + 1 < num_cpus
    /\ step = "last" => cpu + 1 = num_cpus
    /\ step = "driver" => cpu < Len(devices)
    /\ step \notin {"restore", "done"} => result = "running"
    /\ step = "restore" => result # "passed"
    /\ step = "done" => result # "running"

\* The CPUs the finally block has been through, and all of them before the first
\* one is set, are online unless they are stuck.
Healthy == Cpus \ stuck
Reenabled ==
    /\ step \in DeviceSteps \cup {"count"} => Healthy \subseteq online
    /\ ~gaveUp /\ step = "restore" =>
         \A c \in Healthy : c < cpu \/ (c = cpu /\ cmd = "cat") => c \in online
    /\ CpusAreReenabled

\* The CPUs a read-back has shown to be offline have been offline.
Ended == step \in {"off", "last"} \/ (step \in {"restore", "done"} /\ result # "failed")
Been ==
    /\ Cpus \ online \subseteq wasOff
    /\ step \in {"each_off", "each_on"} => \A c \in 0..(cpu - 1) : c \in wasOff
    /\ step = "each_on" => cpu \in wasOff
    /\ Hotplug /\ Ended => num_cpus = 1 \/ Tested \subseteq wasOff

\* What the queries so far have shown of the device.
Found == Len(devices) >= MinCount[test] /\ HasDriver
Shown ==
    /\ step = "driver" => Len(devices) >= MinCount[test]
    /\ step = "use" /\ test # "virtiorng" => Found
    /\ step = "current" => "available" \in works
    /\ step = "use" /\ test = "virtiorng" => {"available", "current"} \subseteq works
    /\ ~Hotplug /\ result = "passed" => DeviceIsGood

\* Which CPUs of a good machine are online at each step, and that nothing fails.
GoodCpus == Hotplug /\ stuck = {} /\ ~gaveUp /\ num_cpus = NumCpus
Expected ==
    /\ GoodCpus =>
         /\ step \in {"count", "cpuinfo"} => online = Cpus
         /\ step = "each_off" =>
              online \cup {cpu} = Cpus /\ (cmd = "cat" => cpu \notin online)
         /\ step = "each_on" =>
              online \cup {cpu} = Cpus /\ (cmd = "cat" => cpu \in online)
         /\ step = "off" =>
              /\ \A c \in Cpus : c > cpu => c \in online
              /\ \A c \in online : c >= cpu
              /\ cmd = "cat" => cpu \notin online
         /\ step = "last" => online = {cpu}
         /\ result # "failed"
    /\ ~Hotplug /\ ~gaveUp /\ DeviceIsGood => result # "failed"

Inv == TypeOK /\ Control /\ Reenabled /\ Been /\ Shown /\ Expected

-----------------------------------------------------------------------------
\* What the definitions over constants come to.
LEMMA CpusAreCounted == Cardinality(Cpus) = NumCpus
BY FS_Interval, NumCpusAssumption DEF Cpus

LEMMA DevicesAreCounted ==
    ASSUME TypeOK PROVE Len(devices) \in Nat
<1>1. PICK n \in 0..MaxDevices : devices \in [1..n -> BOOLEAN]
  BY DEF TypeOK, Classes
<1>2. devices \in Seq(BOOLEAN)
  BY <1>1
<1> QED
  BY <1>2

LEMMA ClassesAreDistinct ==
    \A t \in DOMAIN MinCount :
        /\ MinCount[t] \in Nat /\ MinCount[t] >= 1
        /\ t \notin {"virtiorng", "cpu_hotplug"}
BY DEF MinCount

LEMMA InvInit == Init => Inv
<1> SUFFICES ASSUME Init PROVE Inv
  OBVIOUS
<1> USE NumCpusAssumption, DeclaredAssumption, BoundsAssumption
<1>1. CASE InitHotplug /\ test = "cpu_hotplug"
  <2>1. TypeOK
    <3>1. <<>> \in [1..0 -> BOOLEAN] /\ 0 \in 0..MaxDevices
      OBVIOUS
    <3>2. devices \in Classes
      BY <1>1, <3>1 DEF InitHotplug, Classes
    <3>3. online \subseteq Cpus /\ 0 \in online /\ stuck \subseteq Cpus
      BY <1>1 DEF InitHotplug, Cpus
    <3>4. gaveUp \in BOOLEAN
      BY DEF Init
    <3>5. cpu \in Nat /\ cpu = 0 /\ losses \in 0..MaxLosses /\ retry \in 1..Retries
      BY DEF Init, Retries
    <3>6. declared \in Declared /\ works \subseteq Queries /\ wasOff \subseteq Cpus
      BY <1>1 DEF Init, InitHotplug
    <3>7. /\ test \in Tests /\ step \in {"count"} /\ num_cpus = NumCpus
          /\ cmd = "other" /\ result = "running"
      BY <1>1 DEF Init, InitHotplug
    <3> QED
      BY <3>2, <3>3, <3>4, <3>5, <3>6, <3>7 DEF TypeOK
  <2>2. Control
    BY <1>1 DEF Init, InitHotplug, Control, Hotplug, HotplugSteps, SetSteps, DeviceSteps, Queries
  <2>3. Reenabled /\ Been /\ Shown /\ Expected
    BY <1>1 DEF Init, InitHotplug, Reenabled, CpusAreReenabled, Healthy, Been, Ended, Shown,
                Expected, GoodCpus, Hotplug, DeviceSteps, Cpus
  <2> QED
    BY <2>1, <2>2, <2>3 DEF Inv
<1>2. CASE InitDevices /\ test # "cpu_hotplug"
  <2>1. TypeOK
    <3>3. online \subseteq Cpus /\ 0 \in online /\ stuck \subseteq Cpus
      BY <1>2 DEF InitDevices, Cpus
    <3>4. gaveUp \in BOOLEAN
      BY DEF Init
    <3>5. cpu \in Nat /\ cpu = 0 /\ losses \in 0..MaxLosses /\ retry \in 1..Retries
      BY DEF Init, Retries
    <3>6. devices \in Classes /\ declared \in Declared /\ works \subseteq Queries /\ wasOff \subseteq Cpus
      BY <1>2 DEF Init, InitDevices
    <3>7. /\ test \in Tests /\ step \in DeviceSteps /\ num_cpus = NumCpus
          /\ cmd = "other" /\ result = "running"
      BY <1>2 DEF Init, InitDevices, DeviceSteps
    <3> QED
      BY <3>3, <3>4, <3>5, <3>6, <3>7 DEF TypeOK
  <2>2. Control
    BY <1>2 DEF Init, InitDevices, Control, Hotplug, HotplugSteps, SetSteps, DeviceSteps, Queries, Tests
  <2>3. Reenabled /\ Been /\ Shown /\ Expected
    BY <1>2 DEF Init, InitDevices, Reenabled, CpusAreReenabled, Healthy, Been, Ended, Shown,
                Expected, GoodCpus, Hotplug, DeviceSteps, Cpus
  <2> QED
    BY <2>1, <2>2, <2>3 DEF Inv
<1> QED
  BY <1>1, <1>2 DEF Init

-----------------------------------------------------------------------------
\* A command leaves the machine a machine.  A query does not change it at all.
MachineTypeOK ==
    /\ test \in Tests /\ devices \in Classes /\ works \subseteq Queries
    /\ online \subseteq Cpus /\ online # {}
    /\ stuck \subseteq Cpus /\ wasOff \subseteq Cpus
    /\ declared \in Declared

LEMMA ExecuteType ==
    ASSUME TypeOK, Execute PROVE MachineTypeOK'
<1>1. UNCHANGED <<test, devices, works, stuck, declared>>
  BY DEF Execute
<1>2. online' \subseteq Cpus
  BY DEF Execute, TypeOK, Accepted
<1>3. online' # {}
  BY DEF Execute, TypeOK, Accepted
<1>4. wasOff' \subseteq Cpus
  BY <1>2 DEF Execute, TypeOK
<1> QED
  BY <1>1, <1>2, <1>3, <1>4 DEF TypeOK, MachineTypeOK, Cpus

LEMMA QueryChangesNothing ==
    ASSUME Inv, Execute, cmd # "echo" PROVE UNCHANGED machineVars
BY DEF Inv, Been, Execute, machineVars

LEMMA CountInv == Inv /\ Count => Inv'
<1> SUFFICES ASSUME Inv, Count PROVE Inv'
  OBVIOUS
<1> USE NumCpusAssumption, DeclaredAssumption, BoundsAssumption
<1>1. TypeOK /\ Control /\ step = "count" /\ Execute /\ num_cpus = NumCpus
  BY DEF Inv, Count, Control
<1>2. MachineTypeOK' /\ UNCHANGED machineVars
  BY <1>1, ExecuteType, QueryChangesNothing DEF Control, SetSteps
<1>3. /\ step' = "cpuinfo" /\ cpu' = 0 /\ cmd' = "other" /\ retry' = Retries
      /\ num_cpus' \in Declared \cup {NumCpus} /\ num_cpus' \in Nat /\ num_cpus' > 0
      /\ UNCHANGED <<result, gaveUp, losses>>
  BY <1>1 DEF Count, Goto, SetSteps, TypeOK
<1>4. TypeOK'
  BY <1>1, <1>2, <1>3 DEF TypeOK, MachineTypeOK, Retries
<1>5. Control'
  BY <1>1, <1>2, <1>3 DEF Control, machineVars, Hotplug, HotplugSteps, DeviceSteps, SetSteps, Queries
<1>6. Reenabled'
  BY <1>1, <1>2, <1>3 DEF Inv, Reenabled, CpusAreReenabled, DeviceSteps
<1>7. Been' /\ Shown'
  BY <1>1, <1>2, <1>3 DEF Inv, Control, Been, Ended, Shown, machineVars, Hotplug, HotplugSteps, DeviceIsGood, Tested
<1>8. Expected'
  BY <1>1, <1>2, <1>3 DEF Inv, Control, Expected, GoodCpus, machineVars, Hotplug, HotplugSteps
<1> QED
  BY <1>4, <1>5, <1>6, <1>7, <1>8 DEF Inv

\* A failure keeps the invariant: when a command has failed three times, or when
\* the machine is not a good one, which is only decided outside of the finally
\* block or about a CPU that the machine does not have.
LEMMA FailInv ==
    ASSUME Inv, Fail, step # "done",
           MachineTypeOK', Cpus \ online' \subseteq wasOff',
           UNCHANGED <<test, devices, works, stuck, declared, num_cpus>>,
           losses' \in 0..MaxLosses,
           \/ gaveUp' = TRUE
           \/ /\ UNCHANGED <<online, gaveUp>>
              /\ step = "restore" => cpu \notin Cpus
              /\ Hotplug => stuck # {} \/ num_cpus # NumCpus
              /\ ~Hotplug => ~DeviceIsGood
    PROVE Inv'
<1> USE NumCpusAssumption, DeclaredAssumption, BoundsAssumption
<1> DEFINE Leaves == step \in DeviceSteps \cup {"count", "restore"}
<1>1. /\ cpu' = 0 /\ retry' = Retries /\ result' = "failed"
      /\ step' = IF Leaves THEN "done" ELSE "restore"
      /\ cmd' = IF Leaves THEN "other" ELSE "echo"
  BY DEF Fail, Restore, Goto, SetSteps
<1>2. gaveUp' \in BOOLEAN
  BY DEF Inv, TypeOK
<1>3. TypeOK'
  BY <1>1, <1>2 DEF Inv, TypeOK, MachineTypeOK, Retries, SetSteps
<1>4. Control'
  <2>1. ~Leaves => Hotplug
    BY DEF Inv, TypeOK, Control, HotplugSteps
  <2> QED
    BY <1>1, <2>1 DEF Inv, Control, Hotplug, HotplugSteps, DeviceSteps, SetSteps
<1>5. Reenabled'
  <2>1. ~gaveUp' /\ Leaves => Healthy \subseteq online'
    BY DEF Inv, TypeOK, Control, Reenabled, Healthy, Cpus, SetSteps
  <2> QED
    BY <1>1, <2>1 DEF Reenabled, CpusAreReenabled, Healthy, Cpus, DeviceSteps, Tested
<1>6. Been'
  BY <1>1 DEF Been, Ended
<1>7. Shown'
  BY <1>1 DEF Shown
<1>8. Expected'
  BY <1>1 DEF Expected, GoodCpus, Hotplug, DeviceIsGood, HasDriver
<1> QED
  BY <1>3, <1>4, <1>5, <1>6, <1>7, <1>8 DEF Inv

\* The statements of the tests that do not change the machine go on to another
\* query, or pass.
LEMMA QueryInv ==
    ASSUME Inv, UNCHANGED <<machineVars, num_cpus, gaveUp, losses>>,
           ~Hotplug, step \in DeviceSteps, cpu' \in Nat,
           \/ /\ step' = "driver" /\ test \in DOMAIN MinCount /\ cpu' < Len(devices)
              /\ Len(devices) >= MinCount[test] /\ UNCHANGED result
           \/ /\ step' = "current" /\ test = "virtiorng" /\ "available" \in works
              /\ cpu' = 0 /\ UNCHANGED result
           \/ /\ step' = "use" /\ cpu' = 0 /\ UNCHANGED result
              /\ \/ test = "virtiorng" /\ {"available", "current"} \subseteq works
                 \/ test \in {"rtc", "networking"} /\ Found
           \/ step' = "done" /\ cpu' = 0 /\ result' = "passed" /\ DeviceIsGood,
           cmd' = "other", retry' = Retries
    PROVE Inv'
<1> USE NumCpusAssumption, DeclaredAssumption, BoundsAssumption
<1>1. /\ Inv /\ TypeOK /\ step' \in {"driver", "current", "use", "done"}
      /\ UNCHANGED <<test, devices, works, online, stuck, declared, wasOff>>
  BY DEF Inv, machineVars
<1>2. TypeOK'
  BY <1>1 DEF TypeOK, Retries, DeviceSteps
<1>3. Control'
  <2>1. result = "running" /\ num_cpus > 0 /\ num_cpus' > 0
    BY <1>1 DEF Inv, Control, DeviceSteps, SetSteps
  <2> QED
    BY <1>1, <2>1, ClassesAreDistinct DEF Control, Hotplug, HotplugSteps, DeviceSteps, SetSteps, MinCount
<1>4. Reenabled'
  <2>1. Healthy \subseteq online'
    BY <1>1 DEF Inv, Reenabled
  <2> QED
    BY <1>1, <2>1 DEF Reenabled, CpusAreReenabled, Healthy
<1>5. Been'
  BY <1>1 DEF Inv, Been, Hotplug
<1>6. Shown'
  <2>1. result = "running"
    BY <1>1 DEF Inv, Control, DeviceSteps
  <2> QED
    BY <1>1, <2>1, ClassesAreDistinct DEF Shown, Hotplug, DeviceIsGood, Found, HasDriver
<1>7. Expected'
  <2>1. result' # "failed"
    BY <1>1 DEF Inv, Control, DeviceSteps
  <2> QED
    BY <1>1, <2>1 DEF Expected, GoodCpus, Hotplug
<1> QED
  BY <1>2, <1>3, <1>4, <1>5, <1>6, <1>7 DEF Inv

\* What a query that fails has shown, for the use of FailInv.
LEMMA QueryFails ==
    ASSUME Inv, Fail, Execute, cmd # "echo", ~Hotplug, step \in DeviceSteps,
           ~DeviceIsGood, UNCHANGED <<num_cpus, gaveUp, losses>>
    PROVE Inv'
<1>1. UNCHANGED machineVars
  BY QueryChangesNothing
<1>2. TypeOK /\ Been /\ MachineTypeOK'
  BY ExecuteType DEF Inv
<1>3. step \notin {"done", "restore"}
  BY DEF DeviceSteps
<1>4. Cpus \ online' \subseteq wasOff' /\ losses' \in 0..MaxLosses
  BY <1>1, <1>2 DEF Been, TypeOK, machineVars
<1> QED
  BY <1>1, <1>2, <1>3, <1>4, FailInv DEF machineVars

LEMMA DeviceStep ==
    ASSUME Inv, step \in DeviceSteps PROVE ~Hotplug /\ cmd = "other" /\ result = "running"
BY DEF Inv, TypeOK, Control, DeviceSteps, SetSteps

LEMMA FindInv == Inv /\ Find => Inv'
<1> SUFFICES ASSUME Inv, Find PROVE Inv'
  OBVIOUS
<1>1. /\ step = "find" /\ step \in DeviceSteps /\ Query /\ Len(devices) \in Nat
      /\ test \in DOMAIN MinCount /\ ~Hotplug /\ cmd = "other"
  BY DevicesAreCounted, DeviceStep DEF Find, Inv, Control, DeviceSteps
<1>2. CASE Len(devices) >= MinCount[test]
  <2>1. /\ step' = "driver" /\ cpu' = 0 /\ cmd' = "other" /\ retry' = Retries
        /\ UNCHANGED <<machineVars, num_cpus, gaveUp, losses, result>>
    BY <1>1, <1>2, QueryChangesNothing DEF Find, Query, Goto, SetSteps
  <2>2. cpu' < Len(devices) /\ cpu' \in Nat
    BY <1>1, <1>2, <2>1, ClassesAreDistinct
  <2> QED
    BY <1>1, <1>2, <2>1, <2>2, QueryInv
<1>3. CASE ~(Len(devices) >= MinCount[test])
  <2>1. Fail /\ ~DeviceIsGood
    BY <1>1, <1>3, ClassesAreDistinct DEF Find, DeviceIsGood
  <2> QED
    BY <1>1, <2>1, QueryFails DEF Query
<1> QED
  BY <1>2, <1>3

LEMMA DriverInv == Inv /\ Driver => Inv'
<1> SUFFICES ASSUME Inv, Driver PROVE Inv'
  OBVIOUS
<1>1. /\ step = "driver" /\ step \in DeviceSteps /\ Query /\ Len(devices) \in Nat
      /\ test \in DOMAIN MinCount /\ ~Hotplug /\ cmd = "other" /\ cpu \in Nat
      /\ Len(devices) >= MinCount[test] /\ cpu < Len(devices)
      /\ UNCHANGED <<machineVars, num_cpus, gaveUp, losses>>
  BY DevicesAreCounted, DeviceStep, QueryChangesNothing
     DEF Driver, Query, Inv, TypeOK, Control, Shown, DeviceSteps
<1>2. CASE cpu + 1 < Len(devices)
  <2>1. /\ step' = "driver" /\ cpu' = cpu + 1 /\ cmd' = "other" /\ retry' = Retries
        /\ UNCHANGED result
    BY <1>1, <1>2 DEF Driver, Goto, SetSteps
  <2> QED
    BY <1>1, <1>2, <2>1, QueryInv
<1>3. CASE ~(cpu + 1 < Len(devices)) /\ ~HasDriver
  <2>1. Fail /\ ~DeviceIsGood
    BY <1>1, <1>3, ClassesAreDistinct DEF Driver, DeviceIsGood
  <2> QED
    BY <1>1, <2>1, QueryFails DEF Query
<1>4. CASE ~(cpu + 1 < Len(devices)) /\ HasDriver
  <2>1. Found
    BY <1>1, <1>4 DEF Found
  <2>2. IF test = "watchdog" THEN Pass ELSE Goto("use", 0) /\ UNCHANGED result
    BY <1>1, <1>4 DEF Driver
  <2>3. CASE test = "watchdog"
    <3>1. /\ step' = "done" /\ cpu' = 0 /\ cmd' = "other" /\ retry' = Retries
          /\ result' = "passed"
      BY <2>2, <2>3 DEF Pass, Goto, SetSteps
    <3>2. DeviceIsGood
      BY <2>1, <2>3 DEF DeviceIsGood, Found
    <3> QED
      BY <1>1, <3>1, <3>2, QueryInv
  <2>4. CASE test # "watchdog"
    <3>1. /\ step' = "use" /\ cpu' = 0 /\ cmd' = "other" /\ retry' = Retries
          /\ UNCHANGED result
      BY <2>2, <2>4 DEF Goto, SetSteps
    <3>2. test \in {"rtc", "networking"}
      BY <1>1, <2>4 DEF MinCount
    <3> QED
      BY <1>1, <2>1, <3>1, <3>2, QueryInv
  <2> QED
    BY <2>3, <2>4
<1> QED
  BY <1>1, <1>2, <1>3, <1>4

LEMMA UseInv == Inv /\ Use => Inv'
<1> SUFFICES ASSUME Inv, Use PROVE Inv'
  OBVIOUS
<1>1. /\ step \in Queries /\ step \in DeviceSteps /\ Query
      /\ ~Hotplug /\ cmd = "other" /\ test \in Tests
      /\ UNCHANGED <<machineVars, num_cpus, gaveUp, losses>>
  BY DeviceStep, QueryChangesNothing DEF Use, Query, Inv, TypeOK, Queries, DeviceSteps
<1>2. /\ step \in {"available", "current"} => test = "virtiorng"
      /\ step = "current" => "available" \in works
      /\ step = "use" => /\ test # "watchdog"
                         /\ test = "virtiorng" => {"available", "current"} \subseteq works
                         /\ test # "virtiorng" => Found
      /\ test = "virtiorng" \/ test \in DOMAIN MinCount
  BY <1>1 DEF Inv, Control, Shown, Tests, Hotplug
<1>3. CASE step \notin works
  <2>1. Fail
    BY <1>3 DEF Use
  <2>2. ~DeviceIsGood
    BY <1>1, <1>2, <1>3 DEF DeviceIsGood, Queries
  <2> QED
    BY <1>1, <2>1, <2>2, QueryFails DEF Query
<1>4. CASE step \in works /\ step = "available"
  <2>1. /\ step' = "current" /\ cpu' = 0 /\ cmd' = "other" /\ retry' = Retries
        /\ UNCHANGED result
    BY <1>4 DEF Use, Goto, SetSteps
  <2> QED
    BY <1>1, <1>2, <1>4, <2>1, QueryInv
<1>5. CASE step \in works /\ step = "current"
  <2>1. /\ step' = "use" /\ cpu' = 0 /\ cmd' = "other" /\ retry' = Retries
        /\ UNCHANGED result
    BY <1>5 DEF Use, Goto, SetSteps
  <2> QED
    BY <1>1, <1>2, <1>5, <2>1, QueryInv
<1>6. CASE step \in works /\ step = "use"
  <2>1. /\ step' = "done" /\ cpu' = 0 /\ cmd' = "other" /\ retry' = Retries
        /\ result' = "passed"
    BY <1>6 DEF Use, Pass, Goto, SetSteps
  <2>2. DeviceIsGood
    BY <1>1, <1>2, <1>6 DEF DeviceIsGood, Found, Queries, Inv, TypeOK
  <2> QED
    BY <1>1, <2>1, <2>2, QueryInv
<1> QED
  BY <1>1, <1>3, <1>4, <1>5, <1>6 DEF Queries

-----------------------------------------------------------------------------
\* The CPUs.
LEMMA CpuinfoInv == Inv /\ Cpuinfo => Inv'
<1> SUFFICES ASSUME Inv, Cpuinfo PROVE Inv'
  OBVIOUS
<1> USE NumCpusAssumption, DeclaredAssumption, BoundsAssumption
<1>1. /\ TypeOK /\ Control /\ Been /\ step = "cpuinfo" /\ Execute /\ Hotplug
      /\ cmd = "other" /\ result = "running" /\ num_cpus > 0 /\ num_cpus \in Nat
      /\ UNCHANGED <<num_cpus, gaveUp, losses>>
  BY DEF Inv, TypeOK, Cpuinfo, Control, HotplugSteps, SetSteps
<1>2. MachineTypeOK' /\ UNCHANGED machineVars
  BY <1>1, ExecuteType, QueryChangesNothing
<1>3. CASE Cardinality(online) = num_cpus
  <2>1. /\ step' = IF num_cpus > 1 THEN "each_off" ELSE "last"
        /\ cpu' = 0 /\ cmd' = "echo" /\ retry' = Retries /\ UNCHANGED result
    BY <1>1, <1>3 DEF Cpuinfo, AfterCpuinfo, Goto, SetSteps
  <2>2. TypeOK'
    BY <1>1, <1>2, <2>1 DEF TypeOK, MachineTypeOK, Retries, SetSteps
  <2>3. Control'
    BY <1>1, <1>2, <2>1 DEF Control, machineVars, Hotplug, HotplugSteps, DeviceSteps, SetSteps
  <2>4. Reenabled' /\ Been'
    BY <1>1, <1>2, <2>1 DEF Reenabled, CpusAreReenabled, DeviceSteps, Been, Ended, machineVars
  <2>5. Shown'
    BY <1>1, <1>2, <2>1 DEF Shown, machineVars, Hotplug
  <2>6. Expected'
    BY <1>1, <1>2, <2>1 DEF Inv, Expected, GoodCpus, machineVars, Hotplug, Cpus
  <2> QED
    BY <2>2, <2>3, <2>4, <2>5, <2>6 DEF Inv
<1>4. CASE Cardinality(online) # num_cpus
  <2>1. Fail
    BY <1>1, <1>4 DEF Cpuinfo
  <2>2. stuck # {} \/ num_cpus # NumCpus \/ gaveUp
    BY <1>1, <1>4, CpusAreCounted DEF Inv, Expected, GoodCpus
  <2>3. Cpus \ online' \subseteq wasOff' /\ losses' \in 0..MaxLosses /\ gaveUp \in BOOLEAN
    BY <1>1, <1>2 DEF Been, TypeOK, machineVars
  <2>4. gaveUp' = TRUE \/ (UNCHANGED gaveUp /\ (stuck # {} \/ num_cpus # NumCpus))
    BY <1>1, <2>2, <2>3
  <2> QED
    BY <1>1, <1>2, <2>1, <2>3, <2>4, FailInv DEF machineVars
<1> QED
  BY <1>3, <1>4

\* A write to cpuN/online keeps the invariant, whether it is seen to have been
\* done or the same write follows.
LEMMA WriteInv ==
    ASSUME Inv, cmd = "echo", Execute, cmd' \in {"echo", "cat"}, retry' \in 1..Retries,
           UNCHANGED <<step, cpu, num_cpus, result>>, losses' \in 0..MaxLosses,
           gaveUp' \in BOOLEAN, gaveUp = TRUE => gaveUp' = TRUE
    PROVE Inv'
<1> USE NumCpusAssumption, DeclaredAssumption, BoundsAssumption
<1>1. /\ TypeOK /\ Control /\ Been /\ step \in SetSteps /\ Hotplug
      /\ num_cpus > 0 /\ num_cpus \in Nat /\ cpu \in Nat /\ cpu < num_cpus
      /\ UNCHANGED <<test, devices, works, stuck, declared>>
      /\ gaveUp \in BOOLEAN /\ (~gaveUp' => ~gaveUp)
  BY DEF Inv, TypeOK, Execute, Control, HotplugSteps
<1>2. MachineTypeOK'
  BY <1>1, ExecuteType
<1>3. TypeOK'
  BY <1>1, <1>2 DEF TypeOK, MachineTypeOK, Retries, SetSteps
<1>4. Control'
  BY <1>1, <1>2 DEF Control, Hotplug, HotplugSteps, DeviceSteps, SetSteps
<1>5. Reenabled'
  BY <1>1 DEF Inv, Reenabled, CpusAreReenabled, DeviceSteps, SetSteps, Healthy, Execute, Accepted, Flag
<1>6. Been'
  BY <1>1 DEF Been, Ended, Execute, Hotplug, Tested
<1>7. Shown'
  BY <1>1 DEF Inv, Shown, Hotplug, SetSteps
<1>8. Expected'
  <2> SUFFICES ASSUME GoodCpus PROVE
           /\ step = "each_off" => online' \cup {cpu} = Cpus /\ cpu \notin online'
           /\ step = "each_on" => online' \cup {cpu} = Cpus /\ cpu \in online'
           /\ step = "off" =>
                /\ \A c \in Cpus : c > cpu => c \in online'
                /\ \A c \in online' : c >= cpu
                /\ cpu \notin online'
           /\ step = "last" => online' = {cpu}
    <3>1. GoodCpus' => GoodCpus
      BY <1>1 DEF GoodCpus, Hotplug
    <3>2. GoodCpus' => result' # "failed"
      BY <1>1, <3>1 DEF Inv, Expected
    <3> QED
      BY <1>1, <3>1, <3>2 DEF Expected, Hotplug, SetSteps
  <2>1. /\ online \subseteq Cpus /\ cpu \in Cpus \ stuck /\ num_cpus = NumCpus
        /\ online' = IF ~(Flag \/ online # {cpu}) THEN online
                     ELSE IF Flag THEN online \cup {cpu} ELSE online \ {cpu}
    BY <1>1 DEF GoodCpus, Execute, Accepted, Cpus, TypeOK
  <2>2. CASE step = "each_off"
    <3>1. online \cup {cpu} = Cpus /\ num_cpus > 1
      BY <1>1, <2>2 DEF Inv, Expected, Control
    <3>2. 0 \in Cpus /\ 1 \in Cpus
      BY <2>1, <3>1 DEF Cpus
    <3>3. online # {cpu}
      BY <3>1, <3>2
    <3> QED
      BY <2>1, <2>2, <3>1, <3>3 DEF Flag
  <2>3. CASE step = "each_on"
    BY <1>1, <2>1, <2>3 DEF Inv, Expected, Flag
  <2>4. CASE step = "off"
    <3>1. /\ cpu + 1 < num_cpus
          /\ \A c \in Cpus : c > cpu => c \in online
          /\ \A c \in online : c >= cpu
      BY <1>1, <2>4 DEF Inv, Expected, Control
    <3>2. cpu + 1 \in online /\ cpu + 1 # cpu
      BY <1>1, <2>1, <3>1 DEF Cpus
    <3>3. online' = online \ {cpu}
      BY <2>1, <2>4, <3>2 DEF Flag
    <3> QED
      BY <1>1, <2>4, <3>1, <3>3 DEF Cpus
  <2>5. CASE step = "last"
    BY <1>1, <2>1, <2>5 DEF Inv, Expected, Flag
  <2> QED
    BY <2>2, <2>3, <2>4, <2>5
<1> QED
  BY <1>3, <1>4, <1>5, <1>6, <1>7, <1>8 DEF Inv

LEMMA EchoInv == Inv /\ Echo => Inv'
<1> SUFFICES ASSUME Inv, Echo PROVE Inv'
  OBVIOUS
<1>1. /\ cmd = "echo" /\ Execute /\ cmd' = "cat" /\ retry' \in 1..Retries
      /\ UNCHANGED <<step, cpu, num_cpus, result, gaveUp, losses>>
  BY DEF Echo, Retries
<1>2. losses' \in 0..MaxLosses /\ gaveUp' \in BOOLEAN
  BY <1>1 DEF Inv, TypeOK
<1> QED
  BY <1>1, <1>2, WriteInv

\* From one statement about the CPUs to the next, when no assertion fails.
LEMMA CatInv == Inv /\ Cat => Inv'
<1> SUFFICES ASSUME Inv, Cat PROVE Inv'
  OBVIOUS
<1> USE NumCpusAssumption, DeclaredAssumption, BoundsAssumption
<1>1. /\ TypeOK /\ Control /\ Been /\ cmd = "cat" /\ step \in SetSteps /\ Execute /\ Hotplug
      /\ num_cpus > 0 /\ num_cpus \in Nat /\ cpu \in Nat /\ cpu < num_cpus
      /\ UNCHANGED <<num_cpus, gaveUp, losses>>
      /\ cpu \notin Cpus => Fail
      /\ cpu \in Cpus => SetReturns(IsOnline = Flag)
      /\ gaveUp \in BOOLEAN
  BY DEF Inv, TypeOK, Cat, Control, HotplugSteps
<1>2. MachineTypeOK' /\ UNCHANGED machineVars /\ UNCHANGED <<test, devices, works, online, stuck, declared, wasOff>>
  BY <1>1, ExecuteType, QueryChangesNothing DEF machineVars
<1>3. ASSUME Fail, cpu \notin Cpus \/ step # "restore",
             stuck # {} \/ num_cpus # NumCpus \/ gaveUp
      PROVE  Inv'
  <2>1. Cpus \ online' \subseteq wasOff' /\ losses' \in 0..MaxLosses /\ step # "done"
    BY <1>1, <1>2 DEF Been, TypeOK, SetSteps
  <2>2. gaveUp' = TRUE \/ (UNCHANGED gaveUp /\ (stuck # {} \/ num_cpus # NumCpus))
    BY <1>1, <1>3
  <2> QED
    BY <1>1, <1>2, <1>3, <2>1, <2>2, FailInv
<1>4. CASE cpu \notin Cpus
  <2>1. num_cpus # NumCpus
    BY <1>1, <1>4 DEF Cpus
  <2> QED
    BY <1>1, <1>3, <1>4, <2>1
<1>5. ASSUME cpu \in Cpus, step \in {"each_off", "each_on", "off"}, IsOnline # Flag
      PROVE Inv'
  <2>1. Fail
    BY <1>1, <1>5 DEF SetReturns
  <2>2. ~GoodCpus
    BY <1>1, <1>5 DEF Inv, Expected, IsOnline, Flag
  <2> QED
    BY <1>1, <1>3, <1>5, <2>1, <2>2 DEF GoodCpus
\* On to another CPU: what is left to show is said of the new one.
<1>6. ASSUME step' \in SetSteps, cpu' \in Nat, cpu' < num_cpus, cmd' = "echo", retry' = Retries,
             result' \in {"running", "failed"}, step' # "restore" => result' = "running",
             step' \in {"each_off", "each_on"} => num_cpus > 1,
             step' = "off" => cpu' + 1 < num_cpus,
             step' = "last" => cpu' + 1 = num_cpus,
             ~gaveUp /\ step' = "restore" => \A c \in Healthy : c < cpu' => c \in online,
             Been',
             GoodCpus => /\ step' \in {"each_off", "each_on"} => online \cup {cpu'} = Cpus
                         /\ step' = "off" => /\ \A c \in Cpus : c > cpu' => c \in online
                                            /\ \A c \in online : c >= cpu'
                         /\ step' = "last" => online = {cpu'}
                         /\ result' # "failed"
      PROVE  Inv'
  <2>1. TypeOK'
    BY <1>1, <1>2, <1>6 DEF TypeOK, MachineTypeOK, Retries, SetSteps
  <2>2. Control'
    BY <1>1, <1>2, <1>6 DEF Control, Hotplug, HotplugSteps, DeviceSteps, SetSteps
  <2>3. Reenabled'
    BY <1>1, <1>2, <1>6 DEF Reenabled, CpusAreReenabled, DeviceSteps, SetSteps, Healthy
  <2>4. Shown'
    BY <1>1, <1>2, <1>6 DEF Shown, SetSteps, Hotplug
  <2>5. Expected'
    BY <1>1, <1>2, <1>6 DEF Expected, GoodCpus, SetSteps, Hotplug
  <2> QED
    BY <1>6, <2>1, <2>2, <2>3, <2>4, <2>5 DEF Inv
<1>7. CASE cpu \in Cpus /\ step = "each_off" /\ IsOnline = Flag
  <2>1. /\ step' = "each_on" /\ cpu' = cpu /\ cmd' = "echo" /\ retry' = Retries /\ result' = result
        /\ cpu \notin online
    BY <1>1, <1>7 DEF SetReturns, Goto, SetSteps, IsOnline, Flag
  <2>2. Been'
    BY <1>1, <1>2, <1>7, <2>1 DEF Been, Ended
  <2>3. result = "running" /\ num_cpus > 1 /\ (GoodCpus => online \cup {cpu} = Cpus)
    BY <1>1, <1>7 DEF Inv, Control, Expected
  <2> QED
    BY <1>1, <1>6, <2>1, <2>2, <2>3 DEF SetSteps
<1>8. CASE cpu \in Cpus /\ step = "each_on" /\ IsOnline = Flag
  <2>1. /\ step' = IF cpu + 1 < num_cpus THEN "each_off" ELSE "off"
        /\ cpu' = IF cpu + 1 < num_cpus THEN cpu + 1 ELSE 0
        /\ cmd' = "echo" /\ retry' = Retries /\ result' = result
    BY <1>1, <1>8 DEF SetReturns, AfterEach, Goto, SetSteps
  <2>2. result = "running" /\ num_cpus > 1 /\ (GoodCpus => online \cup {cpu} = Cpus /\ cpu \in online)
    BY <1>1, <1>8 DEF Inv, Control, Expected
  <2>3. \A c \in 0..cpu : c \in wasOff
    BY <1>1, <1>8 DEF Been
  <2>4. Been'
    BY <1>1, <1>2, <1>8, <2>1, <2>3 DEF Been, Ended, Tested
  <2>5. GoodCpus => online = Cpus
    BY <2>2
  <2>6. /\ step' \in {"each_off", "off"} /\ cpu' \in Nat /\ cpu' < num_cpus
        /\ step' = "off" => cpu' = 0
    BY <1>1, <2>1, <2>2
  <2>7. GoodCpus => /\ online \cup {cpu'} = Cpus
                    /\ step' = "off" => /\ \A c \in Cpus : c > cpu' => c \in online
                                       /\ \A c \in online : c >= cpu'
    BY <1>1, <2>5, <2>6 DEF Cpus, GoodCpus
  <2> QED
    BY <1>1, <1>6, <2>1, <2>2, <2>4, <2>6, <2>7 DEF SetSteps
<1>9. CASE cpu \in Cpus /\ step = "off" /\ IsOnline = Flag
  <2>1. /\ step' = IF cpu + 2 < num_cpus THEN "off" ELSE "last"
        /\ cpu' = cpu + 1
        /\ cmd' = "echo" /\ retry' = Retries /\ result' = result
        /\ cpu \notin online
    BY <1>1, <1>9 DEF SetReturns, AfterOff, Goto, SetSteps, IsOnline, Flag
  <2>2. result = "running" /\ cpu + 1 < num_cpus
    BY <1>1, <1>9 DEF Control
  <2>3. Been'
    BY <1>1, <1>2, <1>9, <2>1 DEF Been, Ended, Tested
  <2>4. ASSUME GoodCpus PROVE /\ \A c \in Cpus : c > cpu + 1 => c \in online
                              /\ \A c \in online : c >= cpu + 1
                              /\ step' = "last" => online = {cpu'}
    <3>1. /\ \A c \in Cpus : c > cpu => c \in online
          /\ \A c \in online : c >= cpu
          /\ online \subseteq Cpus /\ num_cpus = NumCpus
      BY <1>1, <1>9, <2>4 DEF Inv, Expected, GoodCpus, TypeOK
    <3>2. /\ \A c \in Cpus : c > cpu + 1 => c \in online
          /\ \A c \in online : c >= cpu + 1
      BY <1>1, <2>1, <3>1 DEF Cpus
    <3>3. cpu + 1 \in online
      BY <1>1, <2>2, <3>1 DEF Cpus
    <3>4. step' = "last" => \A c \in online : c = cpu + 1
      BY <1>1, <2>1, <2>2, <3>1, <3>2 DEF Cpus
    <3> QED
      BY <2>1, <3>2, <3>3, <3>4
  <2>5. step' = "last" => cpu' + 1 = num_cpus
    BY <1>1, <2>1, <2>2
  <2> QED
    BY <1>1, <1>6, <2>1, <2>2, <2>3, <2>4, <2>5 DEF SetSteps
<1>10. CASE cpu \in Cpus /\ step = "last"
  <2>1. CASE IsOnline = Flag
    <3>1. Fail /\ ~GoodCpus
      BY <1>1, <1>10, <2>1 DEF SetReturns, Inv, Expected, IsOnline, Flag
    <3> QED
      BY <1>1, <1>3, <1>10, <3>1 DEF GoodCpus
  <2>2. CASE IsOnline # Flag
    <3>1. /\ step' = "restore" /\ cpu' = 0 /\ cmd' = "echo" /\ retry' = Retries
          /\ result' = "running"
      BY <1>1, <1>10, <2>2 DEF SetReturns, Restore, Goto, SetSteps
    <3>2. Been'
      BY <1>1, <1>2, <1>10, <3>1 DEF Been, Ended, Tested
    <3>3. \A c \in Healthy : ~(c < 0)
      BY DEF Healthy, Cpus
    <3> QED
      BY <1>1, <1>6, <3>1, <3>2, <3>3 DEF SetSteps
  <2> QED
    BY <2>1, <2>2
<1>11. CASE cpu \in Cpus /\ step = "restore"
  <2>1. ~gaveUp => \A c \in Healthy : c < cpu + 1 => c \in online
    BY <1>1, <1>11 DEF Inv, Reenabled, Healthy, Cpus
  <2>2. AfterRestore /\ result \in {"running", "failed"} /\ (GoodCpus => result # "failed")
    BY <1>1, <1>11 DEF SetReturns, Inv, TypeOK, Control, Expected
  <2>3. CASE cpu + 1 < num_cpus
    <3>1. /\ step' = "restore" /\ cpu' = cpu + 1 /\ cmd' = "echo" /\ retry' = Retries
          /\ result' = result
      BY <2>2, <2>3 DEF AfterRestore, Goto, SetSteps
    <3>2. Been'
      BY <1>1, <1>2, <1>11, <3>1 DEF Been, Ended, Tested
    <3> QED
      BY <1>1, <1>6, <2>1, <2>2, <2>3, <3>1, <3>2 DEF SetSteps
  <2>4. CASE ~(cpu + 1 < num_cpus)
    <3>1. /\ step' = "done" /\ cpu' = 0 /\ cmd' = "other" /\ retry' = Retries
          /\ result' = IF result = "running" THEN "passed" ELSE result
      BY <2>2, <2>4 DEF AfterRestore, Goto, SetSteps
    <3>2. TypeOK'
      BY <1>1, <1>2, <2>2, <3>1 DEF TypeOK, MachineTypeOK, Retries
    <3>3. Control'
      BY <1>1, <1>2, <2>2, <3>1 DEF Control, Hotplug, HotplugSteps, DeviceSteps, SetSteps
    <3>4. Reenabled'
      BY <1>1, <1>2, <2>1, <2>4, <3>1 DEF Reenabled, CpusAreReenabled, DeviceSteps, Healthy, Tested, Cpus
    <3>5. Been' /\ Shown'
      BY <1>1, <1>2, <1>11, <2>2, <3>1 DEF Been, Ended, Tested, Shown, Hotplug
    <3>6. Expected'
      BY <1>1, <1>2, <2>2, <3>1 DEF Expected, GoodCpus, Hotplug
    <3> QED
      BY <3>2, <3>3, <3>4, <3>5, <3>6 DEF Inv
  <2> QED
    BY <2>3, <2>4
<1> QED
  BY <1>1, <1>4, <1>5, <1>7, <1>8, <1>9, <1>10, <1>11 DEF SetSteps

-----------------------------------------------------------------------------
\* A command that returns 255.
LEMMA LoseInv == Inv /\ Lose => Inv'
<1> SUFFICES ASSUME Inv, Lose PROVE Inv'
  OBVIOUS
<1> USE NumCpusAssumption, DeclaredAssumption, BoundsAssumption
<1>1. /\ TypeOK /\ Control /\ Been /\ step # "done" /\ UNCHANGED num_cpus
      /\ losses' \in 0..MaxLosses /\ gaveUp \in BOOLEAN /\ retry \in 1..Retries
  BY DEF Inv, TypeOK, Lose
<1>2. CASE retry > 1
  <2>1. retry' \in 1..Retries /\ UNCHANGED <<step, cpu, cmd, result, gaveUp>>
    BY <1>1, <1>2 DEF Lose, Retries
  <2>2. CASE Execute /\ cmd = "echo"
    BY <1>1, <2>1, <2>2, WriteInv
  <2>3. CASE ~(Execute /\ cmd = "echo")
    <3>1. UNCHANGED <<test, devices, works, online, stuck, declared, wasOff>>
      BY <2>3, QueryChangesNothing DEF Lose, machineVars
    <3>2. TypeOK'
      BY <1>1, <2>1, <3>1 DEF TypeOK
    <3>3. Control' /\ Reenabled' /\ Been'
      BY <1>1, <2>1, <3>1
         DEF Inv, Control, Reenabled, CpusAreReenabled, Healthy, Been, Ended, Tested, Hotplug
    <3>4. Shown' /\ Expected'
      BY <1>1, <2>1, <3>1
         DEF Inv, Shown, Expected, GoodCpus, Found, HasDriver, DeviceIsGood, Hotplug
    <3> QED
      BY <3>2, <3>3, <3>4 DEF Inv
  <2> QED
    BY <2>2, <2>3
<1>3. CASE ~(retry > 1) /\ cmd = "echo"
  <2>1. /\ gaveUp' = TRUE /\ cmd' = "cat" /\ retry' = Retries /\ retry' \in 1..Retries
        /\ UNCHANGED <<step, cpu, result>>
    BY <1>3 DEF Lose, Retries
  <2>2. CASE Execute
    BY <1>1, <1>3, <2>1, <2>2, WriteInv
  <2>3. CASE UNCHANGED machineVars
    <3>1. UNCHANGED <<test, devices, works, online, stuck, declared, wasOff>>
      BY <2>3 DEF machineVars
    <3>2. step \in SetSteps
      BY <1>1, <1>3 DEF Control
    <3>3. TypeOK'
      BY <1>1, <2>1, <3>1 DEF TypeOK
    <3>4. Control' /\ Reenabled' /\ Been'
      BY <1>1, <2>1, <3>1, <3>2
         DEF Inv, Control, Reenabled, CpusAreReenabled, Healthy, Been, Ended, Tested, Hotplug,
             SetSteps, DeviceSteps, HotplugSteps
    <3>5. Shown' /\ Expected'
      BY <1>1, <2>1, <3>1
         DEF Inv, Shown, Expected, GoodCpus, Found, HasDriver, DeviceIsGood, Hotplug
    <3> QED
      BY <3>3, <3>4, <3>5 DEF Inv
  <2> QED
    BY <2>2, <2>3 DEF Lose
<1>4. CASE ~(retry > 1) /\ cmd # "echo"
  <2>1. Fail /\ gaveUp' = TRUE
    BY <1>4 DEF Lose
  <2>2. UNCHANGED <<test, devices, works, online, stuck, declared, wasOff>>
    BY <1>4, QueryChangesNothing DEF Lose, machineVars
  <2>3. MachineTypeOK' /\ Cpus \ online' \subseteq wasOff'
    BY <1>1, <2>2 DEF TypeOK, MachineTypeOK, Been, Cpus, Classes, Tests
  <2> QED
    BY <1>1, <2>1, <2>2, <2>3, FailInv
<1> QED
  BY <1>2, <1>3, <1>4

-----------------------------------------------------------------------------
LEMMA InvNext == Inv /\ [Next]_vars => Inv'
<1> SUFFICES ASSUME Inv, [Next]_vars PROVE Inv'
  OBVIOUS
<1>1. CASE Next
  BY <1>1, CountInv, CpuinfoInv, EchoInv, CatInv, FindInv, DriverInv, UseInv, LoseInv DEF Next
<1>2. CASE UNCHANGED vars
  <2>1. TypeOK' /\ Control'
    BY <1>2 DEF Inv, TypeOK, Control, vars, machineVars, testVars, Hotplug
  <2>2. Reenabled' /\ Been'
    BY <1>2 DEF Inv, Reenabled, CpusAreReenabled, Healthy, Been, Ended, Tested, Hotplug,
                vars, machineVars, testVars
  <2>3. Shown' /\ Expected'
    BY <1>2 DEF Inv, Shown, Expected, GoodCpus, Found, HasDriver, DeviceIsGood, Hotplug,
                vars, machineVars, testVars
  <2> QED
    BY <2>1, <2>2, <2>3 DEF Inv
<1> QED
  BY <1>1, <1>2

\* The invariant, of every behaviour.
LEMMA DevicesInvariant == Spec => []Inv
BY InvInit, InvNext, PTL DEF Spec

\* Every variable of a device test keeps its type, whatever TEST_CPU_HOTPLUG_NUM_CPUS
\* says; the last CPU that is online is never taken offline.
THEOREM DevicesTypeCorrect == Spec => []TypeOK
<1>1. Inv => TypeOK
  BY DEF Inv
<1> QED
  BY <1>1, DevicesInvariant, PTL

\* A good machine passes, whatever commands are lost or repeated, as long as none
\* fails three times in a row.
THEOREM GoodMachinesPass == Spec => []GoodMachinePasses
<1>1. Inv => GoodMachinePasses
  BY DEF GoodMachinePasses, Inv, TypeOK, Control, Expected, GoodCpus, Hotplug
<1> QED
  BY <1>1, DevicesInvariant, PTL

\* A test only passes for what the machine can do, although a retry may repeat a
\* command that was executed.
THEOREM PassesAreEarned == Spec => []PassMeansItWorks
<1>1. Inv => PassMeansItWorks
  BY DEF PassMeansItWorks, Inv, Control, Been, Ended, Shown, Hotplug
<1> QED
  BY <1>1, DevicesInvariant, PTL

\* The hotplug test leaves no working CPU offline, on all of its ways out, as long
\* as no command fails three times in a row.
THEOREM CpusComeBack == Spec => []CpusAreReenabled
<1>1. Inv => CpusAreReenabled
  BY DEF Inv, Reenabled
<1> QED
  BY <1>1, DevicesInvariant, PTL

-----------------------------------------------------------------------------
(***************************************************************************)
(* TeeSupplicant.                                                          *)
(***************************************************************************)
\* The script only gives up at once without an executable; a restart only stops, sleeps
\* and starts, and from its stop on every daemon that still runs is one that is ending.
Restarting ==
    /\ command = "absent" => ~installed
    /\ call = "restart" =>
         /\ command \in {"absent", "stop", "sleep", "start"}
         /\ command \in {"sleep", "start"} => ending = alive

TeeInv == Tee!TypeOK /\ Restarting

LEMMA TeeInit == ASSUME Tee!Assumptions, Tee!Init PROVE TeeInv
<1> USE DEF Tee!Init
<1>1. launched \in 0..MaxStarts /\ called \in 0..launched
  BY DEF Tee!Assumptions
<1>2. /\ call \in Tee!Calls \cup {"none"}
      /\ command \in {"absent", "stop", "sleep", "start", "status", "none"}
      /\ alive \subseteq 1..launched /\ ending \subseteq alive
  OBVIOUS
<1>3. status \in 0..3
  OBVIOUS
<1>4. late \in BOOLEAN
  OBVIOUS
<1>5. Restarting
  BY DEF Restarting
<1>6. installed \in BOOLEAN
  OBVIOUS
<1>7. QED
  BY <1>1, <1>2, <1>3, <1>4, <1>5, <1>6 DEF TeeInv, Tee!TypeOK

LEMMA TeeNext == ASSUME Tee!Assumptions, TeeInv, [Tee!Next]_(Tee!vars) PROVE TeeInv'
<1> USE DEF TeeInv, Tee!TypeOK, Tee!Calls, Restarting
<1>1. ASSUME NEW c \in Tee!Calls, Tee!CallScript(c)
      PROVE  TeeInv'
  <2>1. Tee!TypeOK'
    <3>1. /\ call' = c
          /\ command' \in {"absent", "stop", c} /\ (command' = "absent" => ~installed)
          /\ c = "restart" => command' # "restart"
          /\ called' = launched /\ late' = FALSE
          /\ UNCHANGED <<installed, status, launched, alive, ending>>
      BY <1>1 DEF Tee!CallScript
    <3>2. late' \in BOOLEAN /\ installed' \in BOOLEAN
      BY <3>1
    <3>3. status' \in 0..3 /\ launched' \in 0..MaxStarts
      BY <3>1
    <3>4. called' \in 0..launched' /\ alive' \subseteq 1..launched'
      BY <3>1 DEF Tee!Assumptions
    <3>5. call' \in Tee!Calls \cup {"none"} /\ ending' \subseteq alive'
      BY <1>1, <3>1
    <3>6. command' \in {"absent", "stop", "sleep", "start", "status", "none"}
      BY <1>1, <3>1
    <3>7. QED
      BY <3>2, <3>3, <3>4, <3>5, <3>6
  <2>2. Restarting'
    BY <1>1, Zenon DEF Tee!CallScript
  <2>3. QED
    BY <2>1, <2>2
<1>2. CASE Tee!StopDaemon \/ Tee!NotInstalled
  <2>1. /\ UNCHANGED <<installed, launched, alive, called, late>>
        /\ ending' = alive \/ ending' = ending
        /\ status' \in 0..3
    BY <1>2 DEF Tee!StopDaemon, Tee!NotInstalled, Tee!Then, Tee!FAILED
  <2>2. /\ call' \in {call, "none"}
        /\ command' \in {"sleep", "none"} /\ (command' = "none" => call' = "none")
        /\ command' = "sleep" => ending' = alive
    BY <1>2 DEF Tee!StopDaemon, Tee!NotInstalled, Tee!Then, Tee!FAILED
  <2>3. QED
    BY <2>1, <2>2
<1>3. CASE Tee!Sleep
  BY <1>3 DEF Tee!Sleep
<1>4. CASE Tee!StartDaemon
  <2>1. /\ ending' = ending /\ called' = called /\ installed' = installed
        /\ command' = "none" /\ call' = "none" /\ status' \in 0..3
    BY <1>4 DEF Tee!StartDaemon, Tee!Then, Tee!FAILED
  <2>2. CASE alive # {}
    <3>1. launched' = launched /\ alive' = alive /\ late' \in BOOLEAN
      BY <1>4, <2>2 DEF Tee!StartDaemon
    <3>2. QED
      BY <2>1, <3>1
  <2>3. CASE alive = {} /\ launched' = launched
    <3>1. alive' = {} /\ late' = late
      BY <1>4, <2>3 DEF Tee!StartDaemon
    <3>2. QED
      BY <2>1, <2>3, <3>1
  <2>4. CASE alive = {} /\ launched' # launched
    <3>1. /\ launched' = launched + 1 /\ launched < MaxStarts
          /\ alive' = {launched + 1} /\ late' = late
      BY <1>4, <2>4 DEF Tee!StartDaemon
    <3>2. QED
      <4>1. launched' \in 0..MaxStarts /\ called' \in 0..launched'
        BY <2>1, <3>1 DEF Tee!Assumptions
      <4>2. alive' \subseteq 1..launched' /\ ending' \subseteq alive'
        BY <2>1, <2>4, <3>1
      <4>3. QED
        BY <2>1, <3>1, <4>1, <4>2
  <2>5. QED
    BY <2>2, <2>3, <2>4
<1>5. CASE Tee!Status
  BY <1>5 DEF Tee!Status, Tee!Then
<1>6. CASE Tee!DaemonEnds
  BY <1>6 DEF Tee!DaemonEnds
<1>7. CASE UNCHANGED Tee!vars
  BY <1>7 DEF Tee!vars
<1>8. QED
  BY <1>1, <1>2, <1>3, <1>4, <1>5, <1>6, <1>7 DEF Tee!Next

LEMMA TeeInvariant == Tee!Spec => []TeeInv
<1>1. Tee!Init => TeeInv
  BY TeeInit, SupplicantAssumption
<1>2. TeeInv /\ [Tee!Next]_(Tee!vars) => TeeInv'
  BY TeeNext, SupplicantAssumption
<1>3. QED
  BY <1>1, <1>2, PTL DEF Tee!Spec

\* Every variable of the init script and of its daemons keeps its type: only a
\* daemon that runs is ending.
THEOREM SupplicantTypeCorrect == Tee!Spec => []Tee!TypeOK
<1>1. TeeInv => Tee!TypeOK
  BY DEF TeeInv
<1>2. QED
  BY <1>1, TeeInvariant, PTL

\* A restart of the supplicant that succeeds has launched a daemon, for any number of
\* daemons, calls, crashes and failing commands, unless there is no executable, or
\* --start still finds a daemon, which then is one that this restart has stopped.
THEOREM RestartsStart == Tee!Spec => RestartStarts
<1> DEFINE Ends == call = "restart" /\ call' = "none" =>
               \/ status' = 0 /\ (launched' > called \/ late' \/ ~installed)
               \/ status' = Tee!FAILED /\ command \in {"stop", "start"}
<1>1. TeeInv /\ [Tee!Next]_(Tee!vars) => [Ends]_(Tee!vars)
  <2> SUFFICES ASSUME TeeInv, Tee!Next, call = "restart", call' = "none"
               PROVE  Ends
    OBVIOUS
  <2> USE DEF TeeInv, Tee!TypeOK, Restarting
  <2>1. ASSUME NEW c \in Tee!Calls, Tee!CallScript(c)
        PROVE  Ends
    BY <2>1 DEF Tee!CallScript
  <2>2. CASE Tee!Sleep \/ Tee!Status \/ Tee!DaemonEnds
    BY <2>2 DEF Tee!Sleep, Tee!Status, Tee!DaemonEnds
  <2>3. CASE Tee!NotInstalled
    <3>1. ~installed
      BY <2>3 DEF Tee!NotInstalled, Restarting
    <3>2. status' = 0
      BY <2>3 DEF Tee!NotInstalled, Tee!Then
    <3>3. QED
      BY <3>1, <3>2
  <2>4. CASE Tee!StopDaemon
    <3>1. command = "stop" /\ status' = Tee!FAILED
      BY <2>4 DEF Tee!StopDaemon, Tee!Then, Tee!FAILED
    <3>2. QED
      BY <3>1
  <2>5. CASE Tee!StartDaemon
    <3>1. CASE alive # {}
      <4>1. status' = 0 /\ late' = (ending # {})
        BY <2>5, <3>1 DEF Tee!StartDaemon, Tee!Then
      <4>2. ending # {}
        BY <2>5, <3>1 DEF Tee!StartDaemon
      <4>3. QED
        BY <4>1, <4>2
    <3>2. CASE alive = {}
      BY <2>5, <3>2 DEF Tee!StartDaemon, Tee!Then
    <3>3. QED
      BY <3>1, <3>2
  <2>6. QED
    BY <2>1, <2>2, <2>3, <2>4, <2>5 DEF Tee!Next
<1>2. QED
  BY <1>1, TeeInvariant, PTL DEF Tee!Spec, Tee!RestartStarts, RestartStarts

-----------------------------------------------------------------------------
(***************************************************************************)
(* ArmRproc.                                                               *)
(***************************************************************************)
\* The core waits, or did so when a stop() wrote its register back.
Waits == CPUWAIT \/ overtaken

Halted == Waits /\ ~RST_REQ /\ RST_ACK = Rproc!NO_RESET_REQ /\ ~reset

\* The request has been withdrawn, or is about to be: its answer is known.
Answered == pc = "withdraw" \/ (pc = "poll" /\ expected = "none")

\* stop() is of a core that is running, and polls for no answer without a request.
Stopping ==
    /\ pc # "idle" => device = "running"
    /\ pc = "poll" /\ expected = "none" => ~RST_REQ

\* A core is only in reset with its answer standing, and one that was carried out,
\* or was seen to be, has halted the core: nobody starts a core that is running.
Reset ==
    /\ reset => RST_ACK = Rproc!COMPLETE
    /\ ~abandoned /\ RST_ACK = Rproc!COMPLETE => Waits
    /\ ~abandoned /\ Answered /\ req_status = Rproc!COMPLETE => Waits

\* As long as no device is dropped in the middle, one that does not run is halted.
NotRunningIsHalted == ~abandoned /\ device # "running" => Halted

RprocSafe == Stopping /\ Reset /\ NotRunningIsHalted
RprocInv == Rproc!TypeOK /\ RprocSafe

\* The parts of the type invariant, which different provers deal with.
Flags ==
    /\ removing \in BOOLEAN /\ abandoned \in BOOLEAN
    /\ ctrl_reg \in BOOLEAN /\ overtaken \in BOOLEAN
    /\ CPUWAIT \in BOOLEAN /\ RST_REQ \in BOOLEAN /\ reset \in BOOLEAN
Fields ==
    /\ device \in {"unbound", "offline", "running"}
    /\ pc \in {"idle", "request", "write", "poll", "withdraw"}
    /\ expected \in {"answer", "none"}
    /\ tries \in 1..Rproc!POLL_TRIES
    /\ req_status \in {Rproc!NO_RESET_REQ, Rproc!NOT_COMPLETE, Rproc!COMPLETE}
    /\ error \in {"none", "EINVAL", "ECONNABORTED", "ETIMEDOUT", "EACCES"}
    /\ RST_ACK \in 0..3

LEMMA RprocTypes == Rproc!TypeOK <=> Flags /\ Fields
BY Zenon DEF Rproc!TypeOK, Flags, Fields

LEMMA RprocInit == Rproc!Init => RprocInv
<1> SUFFICES ASSUME Rproc!Init PROVE RprocInv
  OBVIOUS
<1> USE DEF Rproc!Init, Rproc!NO_RESET_REQ, Rproc!POLL_TRIES
<1>1. Flags
  BY DEF Flags
<1>2. Fields
  BY DEF Fields
<1>3. RprocSafe
  BY DEF RprocSafe, Stopping, Reset, Answered, NotRunningIsHalted, Halted, Waits,
     Rproc!COMPLETE
<1>4. QED
  BY <1>1, <1>2, <1>3, RprocTypes DEF RprocInv

LEMMA RprocFlagsNext == ASSUME Flags, [Rproc!Next]_(Rproc!vars) PROVE Flags'
<1> USE DEF Flags, Rproc!registers, Rproc!core, Rproc!framework
<1>1. CASE Rproc!Probe \/ Rproc!Start \/ Rproc!CallStop \/ Rproc!RemoveOffline
  BY <1>1 DEF Rproc!Probe, Rproc!Start, Rproc!CallStop, Rproc!RemoveOffline
<1>2. CASE Rproc!CoreAnswers \/ Rproc!CoreClears
  BY <1>2 DEF Rproc!CoreAnswers, Rproc!CoreClears
<1>3. CASE Rproc!Request \/ Rproc!WriteRequest \/ Rproc!Withdraw
  BY <1>3 DEF Rproc!Request, Rproc!WriteRequest, Rproc!Withdraw
<1>4. ASSUME NEW e, Rproc!StopReturns(e), UNCHANGED ctrl_reg,
             UNCHANGED Rproc!registers, UNCHANGED Rproc!core
      PROVE  Flags'
  BY <1>4 DEF Rproc!StopReturns
<1>5. CASE Rproc!PollMatches \/ Rproc!PollReserved \/ Rproc!PollSleeps
  BY <1>4, <1>5 DEF Rproc!PollMatches, Rproc!PollReserved, Rproc!PollSleeps
<1>6. CASE UNCHANGED Rproc!vars
  BY <1>6 DEF Rproc!vars
<1>7. QED
  BY <1>1, <1>2, <1>3, <1>5, <1>6 DEF Rproc!Next, Rproc!Stop

LEMMA RprocFieldsNext == ASSUME Fields, [Rproc!Next]_(Rproc!vars) PROVE Fields'
<1> USE DEF Fields, Rproc!POLL_TRIES, Rproc!NO_RESET_REQ, Rproc!NOT_COMPLETE,
        Rproc!COMPLETE, Rproc!RESERVED, Rproc!registers, Rproc!core, Rproc!framework
<1>1. CASE Rproc!Probe \/ Rproc!Start \/ Rproc!CallStop \/ Rproc!RemoveOffline
  BY <1>1 DEF Rproc!Probe, Rproc!Start, Rproc!CallStop, Rproc!RemoveOffline
<1>2. CASE Rproc!CoreAnswers \/ Rproc!CoreClears
  BY <1>2 DEF Rproc!CoreAnswers, Rproc!CoreClears
<1>3. CASE Rproc!Request \/ Rproc!WriteRequest \/ Rproc!Withdraw
  BY <1>3 DEF Rproc!Request, Rproc!WriteRequest, Rproc!Withdraw, Rproc!Poll
<1>4. CASE Rproc!PollMatches
  BY <1>4 DEF Rproc!PollMatches, Rproc!StopReturns, Rproc!Matches
<1>5. CASE Rproc!PollReserved \/ Rproc!PollSleeps
  BY <1>5 DEF Rproc!PollReserved, Rproc!PollSleeps, Rproc!StopReturns
<1>6. CASE UNCHANGED Rproc!vars
  BY <1>6 DEF Rproc!vars
<1>7. QED
  BY <1>1, <1>2, <1>3, <1>4, <1>5, <1>6 DEF Rproc!Next, Rproc!Stop

LEMMA RprocSafeNext ==
    ASSUME RprocInv, [Rproc!Next]_(Rproc!vars) PROVE RprocSafe'
<1> USE DEF RprocInv, RprocSafe, Stopping, Reset, Answered, NotRunningIsHalted,
        Halted, Waits, Rproc!NO_RESET_REQ, Rproc!NOT_COMPLETE, Rproc!COMPLETE,
        Rproc!RESERVED, Rproc!registers, Rproc!core, Rproc!framework
<1>1. CASE Rproc!Probe \/ Rproc!Start \/ Rproc!CallStop \/ Rproc!RemoveOffline
  BY <1>1 DEF Rproc!Probe, Rproc!Start, Rproc!CallStop, Rproc!RemoveOffline
<1>2. CASE Rproc!CoreAnswers
  BY <1>2 DEF Rproc!CoreAnswers
<1>3. CASE Rproc!CoreClears
  BY <1>3 DEF Rproc!CoreClears
<1>4. CASE Rproc!Request \/ Rproc!WriteRequest \/ Rproc!Withdraw
  <2>1. CASE Rproc!Request
    BY <2>1 DEF Rproc!Request
  <2>2. CASE Rproc!WriteRequest
    <3>1. Waits => Waits'
      BY <2>2, Zenon DEF Rproc!WriteRequest, Waits, Rproc!TypeOK
    <3>2. device = "running" /\ UNCHANGED <<device, abandoned, req_status, RST_ACK, reset>>
      BY <2>2 DEF Rproc!WriteRequest
    <3>3. pc' = "poll" /\ expected' = "answer"
      BY <2>2 DEF Rproc!WriteRequest, Rproc!Poll
    <3>4. QED
      BY <3>1, <3>2, <3>3
  <2>3. CASE Rproc!Withdraw
    BY <2>3 DEF Rproc!Withdraw, Rproc!Poll
  <2>4. QED
    BY <1>4, <2>1, <2>2, <2>3
<1>5. CASE Rproc!PollMatches
  BY <1>5 DEF Rproc!PollMatches, Rproc!StopReturns, Rproc!Matches, Rproc!TypeOK
<1>6. CASE Rproc!PollReserved \/ Rproc!PollSleeps
  BY <1>6 DEF Rproc!PollReserved, Rproc!PollSleeps, Rproc!StopReturns, Rproc!TypeOK
<1>7. CASE UNCHANGED Rproc!vars
  BY <1>7 DEF Rproc!vars
<1>8. QED
  BY <1>1, <1>2, <1>3, <1>4, <1>5, <1>6, <1>7 DEF Rproc!Next, Rproc!Stop

LEMMA RprocNextInv == RprocInv /\ [Rproc!Next]_(Rproc!vars) => RprocInv'
<1> SUFFICES ASSUME RprocInv, [Rproc!Next]_(Rproc!vars) PROVE RprocInv'
  OBVIOUS
<1>1. Flags' /\ Fields'
  BY RprocTypes, RprocFlagsNext, RprocFieldsNext DEF RprocInv
<1>2. Rproc!TypeOK'
  BY <1>1, Zenon DEF Rproc!TypeOK, Flags, Fields
<1>3. QED
  BY <1>2, RprocSafeNext DEF RprocInv

LEMMA RprocInvariant == Rproc!Spec => []RprocInv
BY RprocInit, RprocNextInv, PTL DEF Rproc!Spec

\* The registers and the driver keep their types: a poll never has no try left.
THEOREM RprocTypeCorrect == Rproc!Spec => []Rproc!TypeOK
<1>1. RprocInv => Rproc!TypeOK
  BY DEF RprocInv
<1>2. QED
  BY <1>1, RprocInvariant, PTL

\* A core the framework has as offline is halted, whatever was denied, timed out or
\* interrupted before, unless it was removed although its stop() had failed, or it
\* halted for an earlier request between the readl() and the writel() of the next.
THEOREM OfflineCoresAreHalted == Rproc!Spec => []OfflineIsHalted
<1>1. RprocInv => OfflineIsHalted
  BY DEF RprocInv, RprocSafe, NotRunningIsHalted, Halted, Waits, Rproc!OfflineIsHalted,
     OfflineIsHalted
<1>2. QED
  BY <1>1, RprocInvariant, PTL

-----------------------------------------------------------------------------
(***************************************************************************)
(* All three on one target.                                                *)
(***************************************************************************)
TargetInv == Inv /\ TeeInv /\ RprocInv

\* The tests, the supplicant and the driver of the External System keep their types
\* on one target: what one of them does leaves the state of the others alone.
THEOREM TargetTypeCorrect == TargetSpec => []TargetTypeOK
<1>1. TargetInit => TargetInv
  BY InvInit, TeeInit, RprocInit, SupplicantAssumption DEF TargetInit, TargetInv
<1>2. TargetInv /\ [TargetNext]_targetVars => TargetInv'
  <2> SUFFICES ASSUME TargetInv, [TargetNext]_targetVars PROVE TargetInv'
    OBVIOUS
  <2>1. [Next]_vars
    BY DEF TargetNext, DevicesNext, SupplicantNext, RprocNext, targetVars
  <2>2. [Tee!Next]_(Tee!vars)
    BY DEF TargetNext, DevicesNext, SupplicantNext, RprocNext, targetVars, teeVars,
       Tee!vars
  <2>3. [Rproc!Next]_(Rproc!vars)
    BY DEF TargetNext, DevicesNext, SupplicantNext, RprocNext, targetVars, rprocVars,
       Rproc!vars
  <2>4. QED
    BY <2>1, <2>2, <2>3, InvNext, TeeNext, RprocNextInv, SupplicantAssumption
       DEF TargetInv
<1>3. TargetInv => TargetTypeOK
  BY DEF TargetInv, Inv, TeeInv, RprocInv, TargetTypeOK
<1>4. QED
  BY <1>1, <1>2, <1>3, PTL DEF TargetSpec
=============================================================================
