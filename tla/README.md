# meta-arm: a verification development in TLA+

meta-arm is a set of Yocto layers for Arm platforms. Most of it is metadata
that BitBake evaluates. Some parts are programs with behaviour of their own, and
this directory is about them:

* **The FVP tools** (Python): `scripts/runfvp`, the library
  `meta-arm/lib/fvp/` it is built on, the oeqa target controller
  `meta-arm/lib/oeqa/controllers/fvp.py` that uses the same library.
* **The target** (Python, shell, C): the tests of an FVP's devices that run over
  SSH, the init script of the OP-TEE supplicant, and the kernel driver of the
  External System of Corstone-1000.
* **The firmware update of Corstone-1000** (C, as patches): U-Boot as the client
  of the PSA firmware update service, in
  `meta-arm-bsp/recipes-bsp/u-boot/u-boot/corstone1000/0010` to `0018`. The
  service itself (the Update Agent, in the Secure world) is not in this
  repository; it is modelled from how the client uses it.
* **Tools of the build host** (Python, shell): the script that reports the
  versions of recipes for each machine, and the build of the capsules that the
  firmware update takes.

Every definition is a translation of code. `PROJECT.json` names, for each one,
the lines it stands for ("map"), the runs, the mutants that show that each
property can fail, the hazards of the code, and the theorems.

## 1. Inventory

### The FVP tools

| Part | State | Operations | Hard because |
|---|---|---|---|
| `FVPRunner` (`lib/fvp/runner.py`) | the FVP process, telnet clients, pexpect clients | `start`, `create_telnet`, `create_pexpect`, `wait`, `stop` | three kinds of processes end at any time; `stop` is a chain of signals and timeouts, and does not wait after `kill()` |
| `ConsolePortParser` (`runner.py`) | position in the log, ports seen so far | `parse_port` | the log is read while it is written, consoles are announced in any order, there is no timeout |
| `OEFVPTarget` (`controllers/fvp.py`) | target state off/on/linux, current runner, terminals, log files | `transition`, `stop`, `run`, the pexpect calls | `transition` calls itself; any step of a start-up may raise; terminals of an old FVP stay around |
| `runfvp` (`scripts/runfvp`) | arguments, the log thread, the pending exit status | `parse_args`, `start_fvp`, exit | a `finally` block under Ctrl-C, early returns, a thread the interpreter waits for |
| `Terminals` (`lib/fvp/terminal.py`) | the sorted list of terminals | `add_terminal`, `preferred_terminal`, the checks | what is preferred must be usable |
| `conffile` | none | `find`, `load` | outcomes only |

`OEFVPTarget` and `runfvp` each create `FVPRunner` objects and call their
methods; the FVP and the clients are processes that run concurrently with them.
`OEFVPTarget` asks a `ConsolePortParser` for each console before it attaches a
client. The test cases call the controller.

What makes them correct: no FVP is forgotten and every stopped one ends; the
consoles the tests see belong to the FVP that runs now; `linux` means that this
FVP showed its login prompt; ports are right and found in any order; the exit
status of `runfvp` is that of the FVP.

### The target

| Part | State | Operations | Hard because |
|---|---|---|---|
| Device tests (`oeqa/runtime/cases/fvp_devices.py`) | the statement, its loop, retries left | `run_cmd`, `set_cpu`, the tests of CPU hotplug, rtc, watchdog, networking and virtiorng | status 255 does not say whether the command was executed, so retries repeat effects; assertions and raises end in a `finally` loop that can raise itself |
| OP-TEE supplicant (`optee-client/tee-supplicant.sh`) | the command of the script, the daemons that run | `start`, `stop`, `restart`, `status` | a daemon that was sent SIGTERM ends in its own time; under `set -e` any command may end a restart half-way |
| External System (kernel patch 0001, `arm_rproc.c`) | device of the framework, control and status registers, the poll | probe, `start`, `stop`, remove | `stop` asks the core for a reset and gives up after a time, or on a signal; the core may answer later |

What makes them correct: a test passes exactly the machines it should and leaves
every CPU online; a restart of the supplicant that succeeds has launched a daemon; a core
that is offline is halted, with no request left for the next `stop` to trip over,
and `stop` returns.

### The firmware update

| Part | State | Operations | Hard because |
|---|---|---|---|
| Capsule processing and `fwu_update_image()` (patches 0012, 0013) | payload in process, result | begin, open, write, commit, end, cancel | any call may fail, or be carried out with its reply lost; a reset at any point |
| Image info (0011, 0018) | progress of the query, open handle | read the directory and the ESRT | handles must be closed on every path; `fwu_commit()` may be told to resume |
| Acceptance (0016, 0017) | trial state and accepted images as read at boot | `fwu_accept_notify_exit_boot_services()` | state read at boot is used much later; part of the images may be accepted |
| Agent initialisation (0010, 0011, 0017) | shared buffer, partition, event, `g_fwu_initialized` | discover, allocate, share, retrieve, reclaim | repeated until it succeeds; memory is owned by two worlds |
| Streams (0011, 0012) | offset in the image | `fwu_read_stream`, `fwu_write_stream` | sizes come from the other side of the buffer |
| Update Agent, firmware store (external) | staging/trial state, two banks, handles, accepted images | the `FWU_*` ABIs, reset | it may refuse anything |

The client calls the agent synchronously through a buffer it lends to the
Secure world. What the agent does to the firmware store survives a reset; what
the client knows does not.

What makes it correct: the firmware of the next boot changes as a whole or not
at all, whatever fails and whenever the board is reset; it can be rolled back
until it is accepted; a capsule reported as failed has changed nothing; handles
and buffers are owned by one side and given back; the copies stay in bounds.

### The build host

| Part | State | Operations | Hard because |
|---|---|---|---|
| `scripts/machine-summary.py` | recipes still to look up, releases found, the table | `harvest_data`, the renderers | a lookup that fails with one machine is repeated with the next; any question to BitBake may raise after much has been gathered |
| Capsule build (`uefi_capsule.bbclass`, `generate_capsule_json_multiple.py`, the flash image recipe) | the JSON file and PEM files in the image directory, the deployed capsule | `do_image_uefi_capsule`, the script's checks, `create_payloads`, `write_json_file` | eleven parallel lists are taken by position while a selection skips some; files of an earlier build are still there when a step fails |

What makes them correct: every file of a summary agrees with what was
answered; a capsule holds what its own build selected, each payload with its own
key and certificate, between the two dummy payloads the update client expects.

### Not modelled

Listed in `PROJECT.json` with the reason: the descriptors of FF-A memory sharing
(one call each, whose outcome `FwuSharedBuffer` chooses), the FF-A sandbox
emulator and unit tests, FF-A calls at runtime, the capsule flag checks, the
bank logic of the board code, the SE-Proxy notification, the TF-M patches (a GPT
library that is not in the repository, a range check for erasing), the `fvpboot`
class, the other oeqa cases (sequences of commands and comparisons of output),
the recipes, kas and CI files, and the reports that are one pass over their input
(`layer-overview.py`, `patchreview`). Most have no state of their own; those
that do are in the plan below.

## 2. The modules

```
FVPRunner  <---- FvpTarget <---- FvpTargetProofs     UpdateAgent <---- FwuClient <---- FwuClientProofs
   ^                                                                       |
   +------------ RunFvp ----> Terminals                          implements AtomicUpdate
                   ^
                   +---- RunFvpProofs                FwuSharedBuffer <---- FwuBufferUse ----> FwuStream
                                                                                ^
ConsolePort <---- ConsolePortProofs                                             +---- FwuBufferUseProofs

FvpDevices <---- Target <---- TargetProofs           CapsuleBuild <---- CapsuleBuildProofs
                   |                                      ^                   ^
                   +~~~~> TeeSupplicant, ArmRproc     HostTools <---- HostToolsProofs
                                                          |
                                                          +~~~~> MachineSummary
```

(An arrow points to the module that is extended, a wavy one to an instance.)
Each `MC...` module instantiates one or several of them for TLC; each `.cfg` is
one question. `Target` has `FvpDevices`, `TeeSupplicant` and `ArmRproc`, and
`HostTools` has `MachineSummary` and `CapsuleBuild`: these share nothing, so a
behaviour is of one of them (`part`, `tool`) while the others stay in their
initial state. `TeeSupplicant`, `MachineSummary` and `CapsuleBuild` state what
their constants satisfy as `Assumptions`, and `Target` and `HostTools`, which
contain them, assume it.

**FVPRunner** is one action per step of `stop()`, with a program counter `spc`,
and the environment's steps: the FVP announces a console, or ends with success,
failure, a crash, or a signal it was sent; telnet ends. `proc[i]` is
the process and what `Popen` knows of it: `returncode` is only learnt by a poll,
which is what decides the value `stop()` returns. A runner is identified with
the FVP it launches.

**FvpTarget** flattens the recursion of `transition()` into a program counter:
the leg it is in, and the state the outermost call wants. The calls a test can
make are `CallTransition` (through `stop`, `run` and `transition`) and
`CallPexpect`. `Popen` and `pexpect.spawn` may raise (`StartRaises`,
`SpawnRaises`). `parse_port()` is the guard of `SetupConsole`: its inside is
`ConsolePort`.

**ConsolePort** has the log as an order of announcements, of which `written`
lines are complete and one more may be there in part. Where a line is cut
(`Cuts`) decides what the regular expression makes of the parts. This models
what the match depends on, not characters.

**RunFvp** takes every command line, environment and configuration outcome,
then follows `start_fvp()`. The `finally` block is the record `pending`: what is
to happen when `stop()` has returned (return, raise, or fall through). Ctrl-C
can arrive anywhere: before the `try` block, in it, in the middle of a `Popen`,
when the process is there and the runner does not have it yet (`LaunchCut`,
`ConnectCut`, with the process in `lost`), in the `finally` block before, in or
after `stop()` (`InterruptStop`), and on the way out. **Terminals** has the
registry with its stable sort, built up by five calls of `add_terminal()`, and the
choice of a terminal.

**FvpDevices** is one step per SSH command, of one of the five tests against one
machine. The machine may have CPUs that are dead or refuse to change, any number
of devices of the class a test looks for, with the right driver or not, and
commands that fail on it; a command may be refused or have its reply lost, and
`run_cmd` repeats it up to three times.

**TeeSupplicant** is one step per command of the init script, with or without an
executable to run; a command may find nothing to do, or fail, and daemons end in
their own time. **ArmRproc** has the two registers as their bits, a core
that answers a reset request at any time or never, and `stop` as the read and the
write of the control register (`Request`, `WriteRequest`) and its polls; the
framework keeps a device running whose `stop` failed, and drops it on removal.

**UpdateAgent** (external) gives each ABI a guard, an effect and a reply. A call
is answered `ok`, `refused` (nothing happened) or `lost` (it happened, and the
client sees an error). It is deliberately lenient: `END_STAGING` does not look
at what was written, so completeness is the client's duty. Which faults may
happen is a variable chosen in the initial state, so that a property can say
under which faults it holds and all of them are in one run.

**FwuClient** is U-Boot's program counter over those calls. An image is named
by the number of the capsule it came in; an image written in part is `Torn`.
Resets happen anywhere. **AtomicUpdate** is the abstract specification: what the
next boot runs, what it would fall back to, and whether it is on trial; its
steps are `Install` (exactly the images of one capsule, the old ones for the
rest), `Confirm` and `RollBack`. The refinement mapping reads `firmware` off the
active bank and `fallback` off the other one during a trial.

**FwuSharedBuffer** is `fwu_agent_init()` statement by statement, repeated;
buffer *n* is the one run *n* allocates, so that use after free can be told.
In `FwuClient` the whole of it is one step with its outcome.

**FwuStream** runs the two loops byte by byte, with an agent that answers by the
rules or anything at all. In `FwuClient` a loop that ends is
one step (`ReadImage`, `WriteImage`), and one that gets nowhere is a place to stay
in (`StreamStalls`), which a call that fails, or bytes that come after all, may
leave (`StreamIsLeft`). Like a commit that yields this is under the fault `endless`.
**FwuBufferUse** composes the two: the discovery of a run that goes on sets the
limit of a piece, and a stream is started after the check of `g_fwu_initialized`.

**MachineSummary** draws what BitBake and the network answer when it is asked
for, and keeps it in `facts`; every file that is written is compared with that.
Any question may raise, and so may the opening, the rendering and the writing of
each file: `written` has the files that are complete, `cut` the one that is not.
**CapsuleBuild** repeats the task in a directory that keeps the files of the
last build. Its lists are sequences of component names, so that a payload with
the key of another component can be told. `CapsuleIsWellFormed` is what
`FwuClient` assumes of the capsules it is given (`CapsulesAssumption`).

Operators whose comment starts with "Mutant:" are never part of a
specification; each is the plausible bug that one property is shown to catch.

## 3. The runs

| Run | What it asks | Instance | States |
|---|---|---|---|
| `fvp_target` | the controller: no FVP lost, terminals and prompt of the current FVP, competing FVPs are killed, transitions come back | 2 consoles, 2 launches | 39 829 |
| `fvp_target_timeout` | *violated:* the timeout bounds a transition | 1 launch | |
| `runfvp` | what the tool leaves behind, its exit status, its terminal, that it exits | all inputs, 2 Ctrl-C at any points | 112 957 |
| `console_port` | every console gets its own port, none is forgotten | 3 consoles in all orders, up to 3 requests, one name a suffix of another | 6 924 |
| `console_port_cut` | *violated:* the same when lines are read half-written | | |
| `console_port_alias` | *violated:* each entry of the configuration gets a port | | |
| `target` | good machines pass, a pass means it works, CPUs are re-enabled; a restart that succeeds starts a daemon, or there is a reason; an offline core is halted, `stop` returns | 3 CPUs, 0 to 3 devices, 4 lost commands; 3 daemons | 77 398 |
| `fwu_client` | atomicity (refinement), all-or-nothing success, failure keeps the firmware, handles, confirmation, termination | 2 images, 2 capsules of 6 kinds, all sets of faults, resets | 720 177 |
| `fwu_client_success` | *violated:* success means installed | 1 capsule, calls refused | |
| `fwu_buffer` | ownership of the buffer over runs of the initialisation; bounds, exactness and termination of the streams that go through it | 2 runs, 2 partitions, sizes to 5, room for 2 | 235 766 |
| `fwu_shared_buffer_reclaim` | *violated:* a buffer is reclaimed before it is freed | | |
| `host_tools` | each complete file of a summary is right, also in a run that fails; a capsule is that of its build and always well-formed | 2 machines, 2 recipes; 4 components, 2 builds | 239 877 |

### Why the bounds are enough

* `MaxFvps = 2`: the hazards are between an FVP and its successor, so two
  launches show each; three were run too (2.9 million states, same result), and
  the theorems hold for any number. Two consoles are enough for a start-up that
  raises between them.
* Two Ctrl-C: one that leaves the `try` block or cuts a `Popen` in two, and one
  that leaves the `finally` block; a third could only come on the way out, where
  the second may come as well (three were run too: 146 813 states, same result).
  The theorems hold for any number.
* Three consoles and three requests: two announcements can be passed by while
  the third is looked for, and a request can repeat an earlier one.
* Three CPUs: a first, a middle and a last one, declared as none, fewer, or more
  than there are. Up to three devices: fewer and more than a test asks for, the
  right one among others. Four lost commands: three in a row exhaust the
  retries, one more can hit the clean-up.
* Three daemons: one that crashes, one that is late, and its successor.
  `ArmRproc` has no bound: TLC sees all of it.
* Two images and two capsules: a capsule can be full or partial, one image can
  fail after another succeeded, and a second capsule finds what the first left
  (an abandoned staging, a trial, open handles). `MaxOpen = 2` allows the
  agent's table to fill up. The odd capsules have no end payload, a payload the
  board does not know, a header of an unknown version, or an image twice.
* Two runs of `fwu_agent_init()` and two partitions: a failure, a success after
  it, and a partition that is passed over; the theorems hold for any number.
* Sizes to 5 with room for 2: a first, a full middle and a smaller last piece.
* Two machines and two recipes: a release found with neither, with the first,
  or only with the second machine, for one recipe and not the other. Two
  components between the two dummy payloads, which is four: a selection can
  skip, reverse and invent; two builds: the second finds the files of the first.

`CHECK_DEADLOCK FALSE` is in the runs whose system really stops: the bounded
launches of the controller are used up (`fvp_target`), the tool has exited
(`runfvp`), all requests are answered or none can be (`console_port`), the test
has ended (`target`), the boot is over (`fwu_buffer`), the script has ended or
the builds are used up (`host_tools`). `fwu_client` is checked for deadlock: a reset is
always possible.

### Fairness

* `FvpTarget`: the Python thread goes on (its waits end by the event or by
  their timeout), and the kernel ends a process that was sent SIGKILL. The FVP
  owes nothing: it may never write a port and never boot. The caller owes
  nothing either.
* `RunFvp`: the same, with the log thread, and a telnet whose FVP is gone ends.
  Ctrl-C is never owed.
* `ConsolePort`: the FVP goes on to announce its consoles, the caller's thread
  runs. A part of a line is never owed.
* `FwuClient`: U-Boot does not stop of itself, and a call returns; weak
  fairness of reading the info, of processing a capsule and of accepting
  images. Capsules, resets, the rejection of an unknown function and the end of a
  stream that gets nowhere are not owed.
* `FwuBufferUse`: a stream that was started goes on; nobody has to start one.
* `ArmRproc`: the thread in `stop` goes on, it only sleeps for a time. The core
  owes nothing.
* `FvpDevices`, `TeeSupplicant`, `MachineSummary` and `CapsuleBuild` have no
  liveness property and no fairness.

## 4. What the code does and a comment or document denies

Each has a run that ends in a violation, and is a finding in `PROJECT.json`:

1. `transition("linux", timeout)` may never return: `parse_port()` has no
   timeout (`fvp_target_timeout`).
2. A port read from an incomplete line may be truncated (`console_port_cut`).
3. Two aliases of one console: the second request never returns, because the
   port of the first was not kept (`console_port_alias`).
4. A capsule is reported as applied although `END_STAGING` failed: the
   cancellation's success is returned instead (`fwu_client_success`).
5. The shared buffer is freed while it is still lent, when it cannot be
   reclaimed (`fwu_shared_buffer_reclaim`).

Others need no run, and are among the hazards: `start()` of the controller is
said to wait for a Linux shell (`controllers/fvp.py:72`) and does nothing; every
negative exit code becomes 0, also that of an FVP that crashed
(`runner.py:145`); an executable that is not found ends in exit status 0
(`runfvp:93`); a resumed `FWU_COMMIT` names a function the response has
overwritten (patch 0011, line 684 of the file). The properties that would be
touched name these cases: `ExitStatusIsExplained` lists the reasons of a 0, and
`CapsuleEnds` leaves out the behaviours with a commit that yields, or with a
stream that gets nowhere: a `max_payload_size` of 0 (patch 0012, line 619) or an
agent that never delivers the total it has reported (0011, line 647), for which
`StreamEnds` asks for an agent that plays by the rules. In the same way

* `NothingLeftBehind` accepts a Ctrl-C that leaves the `finally` block before
  `terminate()` or `kill()` (`runfvp:96`), with an FVP that runs on, and one that
  cuts the `Popen` of the FVP or of telnet in two (`runner.py:106`);
* `RestartStarts` accepts a restart that finds the old daemon still ending
  (`tee-supplicant.sh:34`), and one that does nothing for want of an executable
  and succeeds (line 12);
* `OfflineIsHalted` leaves out a core that answers an earlier request between the
  read and the write of the control register (patch 0001, lines 253 to 255): the
  write takes its `CPUWAIT` back, and `stop` still returns success;
* `CapsuleIsOfThisBuild` leaves out a build that could not write its JSON file and
  went on (`generate_capsule_json_multiple.py:137`);
* `CpusAreReenabled` accepts a read-back that failed three times in the clean-up
  (`fvp_devices.py:110`);
* `SummaryIsRight` counts a patch whose `Upstream-Status` is no known word as safe,
  as the script does (`machine-summary.py:81`), and says nothing of a report that is
  lost for one recipe without a release (line 136).

## 5. The proofs

All theorems are for every value of the constants allowed by the named
assumptions next to their declaration. TLAPS checks every leaf.

**FvpTargetProofs**: `TypeCorrect`, `StateIsAlwaysTrue` (`StateIsTrue`),
`NoFvpIsLost` (`NoLostFvp`) and `OthersAreAlwaysKilled` (`OthersAreKilled`),
for any number of launches and any list of consoles that has the default one.
`TypeOK` alone is not inductive: `StopStep` uses the current runner, so
`Control` says that there is one wherever `transition()` gets to use it, and
which states go with which leg. The safety invariant `Safe` adds what the
properties leave unsaid about the in-between legs: runners not yet used are
blank (`Fresh`), in `_setup_consoles` the first *n* terminals are of the new
FVP (`Connecting`), a `stop()` past its `terminate` has signalled (`Stopping`),
and every earlier runner has ended, been killed or raised (`Ended`).

**FwuBufferUseProofs**: first `BufferIsOwned`, of `FwuSharedBuffer` by itself, for
any number of runs and partitions. The invariant has four parts: which steps
belong to a run (`Runs`); the buffer is that of the run under way, or of the one
that succeeded, and the allocator has given out no other (`Owned`); only earlier
buffers were freed (`Latest`, which is what rules a double free out); and how far
the sharing has got (`Shared`). Then the composition: `UseTypeCorrect`,
`BufferStaysSafe`, `CopiesStayInBounds` and
`TransfersAreExact`, for any number of runs, partitions and any sizes. The
ownership comes from the invariant above, kept by the composition; for the
streams, `Placed` says that each byte up to the offset is where it belongs and
that agent and client agree on the offset, and `Complete` what a 0 says of it.
`NothingMoved` is needed because the limit of a piece is set by a discovery: it
comes before every piece.

**TargetProofs**: `DevicesTypeCorrect`, `GoodMachinesPass`, `PassesAreEarned`
and `CpusComeBack`, for any number of CPUs, declared or real, of devices and of
lost commands, and `TargetTypeCorrect` of all three parts on one target.
`Control` says which step belongs to which test and where its loop is;
`Reenabled` which CPUs the clean-up has been through; `Been` which CPUs a
read-back has shown offline; `Shown` what the queries have shown of a device;
`Expected` which CPUs of a good machine are online at each step, so that
nothing fails on one. `RestartsStart`, for any number of daemons: `Restarting`
says that between the two halves of a restart every daemon that still runs is
one that is ending, and that the script only gives up at once without an
executable. `OfflineCoresAreHalted`, of the External System: that the
framework's "offline" means a halted core is only inductive with what is known
while `stop` waits (`Stopping`: the core is one the framework has as running,
and a poll for no answer has no request) and with what an answer of the core
means (`Reset`: a reset it reports as complete has halted it, also after the
request was withdrawn). `Waits` stands for "halted" in all of them: `CPUWAIT`
is set, or a write-back has taken it away from a core that had set it.

**ConsolePortProofs**: `ParserTypeCorrect`, `PortsAreCorrect` and
`NothingIsForgotten`, for any number of consoles, announced and asked for in
any order, under `Whole`: a line is read in part only up to its newline.
Without it they are false (`console_port_cut` shows the second).
`ParserTypeCorrect` has, beside the types, that the table only has consoles of
lines that were read, with the ports the FVP announced there
(`TableIsOfTheLog`). `Ports` adds the ports in the cache, and `Lines` that the
announcement in a line that was returned without its newline has been dealt
with, since the rest of it says nothing.

**RunFvpProofs**: `ToolTypeCorrect`, `NothingIsLeftBehind`,
`ExitStatusIsAlwaysExplained` and `TerminalIsAlwaysUsable`, for any consoles,
inputs and number of Ctrl-C at any points. `Phase` says which processes there
can be where, and that one is lost only by a Ctrl-C; `Stopping` says how far
`stop()` has got (signalled, killed, what it has learnt of the exit code);
`Resuming` what the pending outcome says of the FVP (it falls through only with
an FVP or an executable that is missing, returns 0 only in a dry run, and
nothing but the FVP ends an undisturbed `try` block); `Leaving` carries both to
the exit. For the terminal, one lemma says where `add_terminal()` puts its
entry, another follows the five calls (`TerminalsInOrder`), and `Choice`
carries what was picked at the start to the steps that use it.

**FwuClientProofs**: `ClientTypeCorrect` (the types, and `Position`),
`ClientIsAtomic` and `FailureIsHarmless` (`FailureKeepsFirmware`).
`ClientIsAtomic`: `FwuClient` implements `AtomicUpdate` for any number of
images, capsules and handles, any set of capsules that begin with the start
payload and have nothing after the end payload, and any faults. The argument:

* `Position`: the kind of the payload that brings U-Boot to a step. Without it
  `WriteImage` could write a dummy payload, and `EndStaging` could come early.
* `Older`: while a capsule is processed outside of a trial, every installed
  image is older than the capsule. This is the guard of `Install`.
* `Staged`: in a staging, the announced images are those of this capsule, the
  update bank has the installed version of all others, and the new version of
  every payload that is done. At the end payload, which is the last, this is
  the right-hand side of `Install`.

Every action then either leaves the abstract state alone (`NoInstall`) or is one
abstract step: `END_STAGING` that is carried out (also with its reply lost) is
`Install`, the acceptance that ends a trial is `Confirm`, a reset that reverts
is `RollBack`. The agent's calls have one typing lemma each.

`FailureIsHarmless` adds `Kept` to this invariant: as long as no reply is lost,
the capsule that is being processed, or that has failed, is newer than
everything the next boot runs. The one step that could break it, an
`END_STAGING` that is carried out, is then always seen as done, so that the
capsule it installs is never reported as failed (`EndStagingKept`).

The other invariants are `TrialsAreConfirmed` (`OsConfirmsTrial`), `NoHandleIsLeft`
(`HandlesAreClosed`) and `SuccessIsOfAllOrNone` (`SuccessIsAllOrNothing`).
They need what a boot knows:
an image is not accepted only in a trial, and a staging is one of a system that
was booted from the active bank (`Banked`); a boot that has found a trial knows
which images are left of it (`Confirming`); the handle that is open is that of the
query in progress, and only a staging has handles of images (`Opened`). The trial
of a capsule that was reported as applied is of the bank that was not booted, so
nothing that this boot still does can end it (`Reported`).

**HostToolsProofs**: `SummaryTypeCorrect` and `SummariesAreRight`, for any
machines, recipes, versions, answers and exceptions, and `ToolsTypeCorrect` of
both tools on one host. The heart is the queue: a recipe has left it exactly if
some machine so far has found its release, and the release kept is that of the
first such machine (`ReleasesSoFar`). `AskedInOrder` says that nothing was
answered yet about what comes later, which is what makes the machine that finds
a release the first one. The rows agree with the answers from the moment they
are made (`Gathered`); only the backfill makes them right (`Complete`), and
`FilesAreOfTheSummary` carries that to the files, those of a run that fails
later included.

**CapsuleBuildProofs**: `CapsuleTypeCorrect`, `CapsulesAreOfTheirBuild` and
`CapsulesAreWellFormed`, for any components, selections and number of builds. What
the loop of the generator computes is the recursive function `Places`. The
library's induction theorems cannot be used here, since they take an operator;
instead, a set of numbers that is not empty has a least element (`LeastElement`,
from the theorem that `<` is well-founded on `Nat`), so that a property of all
numbers up to *n* follows from its step (`UpTo`). With it, `PlacesAreFound` shows
that the places are those of the selected components, in increasing order and each
once, and from this follow the first and the last payload and the position of each
key. `AllWellFormed` has the JSON file in the directory beside the deployed capsule,
because a build that cannot write the file goes on with the old one; `Building`
says which files a step of the task can rely on.

### Only model-checked

The liveness properties: `TransitionReturns`, `RunFvpExits`,
`DistinctEntriesConnected`, `CapsuleEnds`, `StreamEnds` and `StopIsBounded`. The
prover does not do fairness. Every invariant and every action property of a passing
run, and the refinement, is a theorem. No module uses a `RECURSIVE` operator.

## 6. What is abstracted

Wording of logs and errors, command lines, the contents of configuration files
beyond what start-up depends on, GUIDs and message layouts (the sizes that
matter are in `FwuStream`), real time (a timeout may expire whenever the awaited
event has not happened), and the arithmetic width of the stream offsets, which
are small sums of `u32`. A process id is never reused. The agent's own
implementation is not here; `UpdateAgent` is what the client may assume, and
properties that need more than that say under which faults they hold.

## 7. Plan

In the order of what is worth most:

1. Show that the steps `AgentInitialize` and `WriteImage` of `FwuClient` are
   abstractions of `FwuBufferUse`, and the guard of `SetupConsole` in `FvpTarget`
   one of `ConsolePort`.
2. New parts: EFI variables through FF-A after `ExitBootServices()`, and the GPT
   library of TF-M as far as the patches show it.
